------------------------- MODULE MCAnalysisPipeline -------------------------
(***************************************************************************)
(* Name graphs for AnalysisPipeline: the graphs of MCPopulateStatus, and   *)
(* the same graphs where ww also has an external signer that the          *)
(* collector did not analyse (a None value in external_signers).           *)
(***************************************************************************)
EXTENDS AnalysisPipeline, MCPopulateStatus

NoneSignerGraphs ==
    { [g EXCEPT !.signerNone = {ww}] : g \in
        { MakeGraph(E, {}, Zones, {}, <<ww>>) : E \in SUBSET {<<"signer", ww, dl>>, <<"cname", ww, dl>>} } }

(* CNAME chains and cycles: ex -> ww -> dl -> ex, the ww/dl 2-cycle, a    *)
(* CNAME of ww to itself, with the MX and NS dependencies of ex on ww that *)
(* make ww an early callee of a name that is also its CNAME alias.         *)
CnameEdges ==
    { <<"cname", ww, dl>>, <<"cname", dl, ww>>, <<"cname", ex, ww>>,
      <<"cname", dl, ex>>, <<"cname", ww, ww>>, <<"mx", ex, ww>>, <<"ns", ex, ww>> }

CnameGraphs ==
    { MakeGraph(E, S, Zones, {}, R) :
        E \in SUBSET CnameEdges, S \in {{}, {rt}}, R \in {<<ww>>, <<ex>>, <<ww, dl>>} }

(* Every graph: the serialisation pass ends normally or on the None signer. *)
PipelineGraphs == WellFormedGraphs \cup NoneSignerGraphs \cup CnameGraphs
====
