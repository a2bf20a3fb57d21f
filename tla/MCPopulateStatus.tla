-------------------------- MODULE MCPopulateStatus --------------------------
(***************************************************************************)
(* Name graphs for PopulateStatus.  Four names:                            *)
(*   rt  the root zone (no parent, may be a stub, as ancestors often are), *)
(*   ex  a zone under rt,                                                  *)
(*   ww  a name under ex that is not a zone,                               *)
(*   dl  a DLV registry zone under rt.                                     *)
(* Every subset of a family of optional dependency edges is a graph: a     *)
(* CNAME cycle between ww and dl, MX edges, an in-bailiwick NS dependency  *)
(* of ex on ww (a cycle through ww's parent link), an external signer, an  *)
(* NS dependency of dl on ex and the DLV link from ex to dl.               *)
(***************************************************************************)
EXTENDS PopulateStatus, TLC

CONSTANTS rt, ex, ww, dl

MCNodes == {rt, ex, ww, dl}

MCParent == (rt :> NoNode) @@ (ex :> rt) @@ (ww :> ex) @@ (dl :> rt)

Zones == {rt, ex, dl}

OptionalEdges ==
    { <<"cname", ww, dl>>, <<"cname", dl, ww>>, <<"mx", ex, ww>>,
      <<"mx", ww, dl>>, <<"ns", ex, ww>>, <<"signer", ww, dl>>,
      <<"ns", ex, dl>>, <<"ns", dl, ex>>, <<"dlv", ex, dl>> }

EdgeTargets(E, kind, n) == {e[3] : e \in {x \in E : x[1] = kind /\ x[2] = n}}

MakeGraph(E, stubs, dnskeyNames, missing, rootSeq) ==
    [cname  |-> [n \in MCNodes |-> EdgeTargets(E, "cname", n)],
     mx     |-> [n \in MCNodes |-> EdgeTargets(E, "mx", n)],
     signer |-> [n \in MCNodes |-> EdgeTargets(E, "signer", n)],
     ns     |-> [n \in MCNodes |-> EdgeTargets(E, "ns", n)],
     parent |-> MCParent,
     dlv    |-> [n \in MCNodes |-> IF <<"dlv", n, dl>> \in E THEN dl ELSE NoNode],
     stub   |-> stubs,
     zone   |-> Zones,
     dsQuery |-> Zones,
     dnskeys |-> dnskeyNames,
     missingKey |-> missing,
     roots  |-> rootSeq,
     signerNone |-> {}]

(* The collector's usual corpora: DNSKEYs only at zones, every server      *)
(* returns every key, and one or two names analysed.                       *)
WellFormedGraphs ==
    { MakeGraph(E, S, Zones, {}, R) :
        E \in SUBSET OptionalEdges, S \in {{}, {rt}},
        R \in {<<ww>>, <<ex>>, <<ww, dl>>} }

(* Two names analysed in one run, the second reachable from the first     *)
(* over a DLV or an MX edge.                                               *)
RootOrderGraphs ==
    { MakeGraph(E, S, Zones, {}, R) :
        E \in SUBSET OptionalEdges, S \in {{}, {rt}},
        R \in {<<ex, dl>>, <<ex, ww>>} }

(* DNSKEY answers for the name ww, which is not a zone.                    *)
NonZoneDnskeyGraphs ==
    { MakeGraph(E, {}, Zones \cup {ww}, {}, <<ww>>) : E \in SUBSET OptionalEdges }

(* The DLV registry has a KSK that one of its servers did not return.      *)
DlvMissingKeyGraphs ==
    { MakeGraph(E, {}, Zones, {dl}, <<ww>>) : E \in SUBSET OptionalEdges }

MCMaxDepth == 6
=============================================================================
