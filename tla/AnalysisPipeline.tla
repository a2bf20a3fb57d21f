-------------------------- MODULE AnalysisPipeline --------------------------
(***************************************************************************)
(* The three passes over one name graph, composed: populate_status on      *)
(* each root (PopulateStatus, C1), then the traversal of                   *)
(* _set_response_component_status (offline.py 1792-1822, C8) from each    *)
(* root, then serialize_status (2043-2153, C9) of each root into one      *)
(* shared dict d.  The caller that sequences the passes is outside src/;   *)
(* the order modelled is the one the signatures and spec section 5 give:   *)
(* status first, then component status, then one serialisation dict.      *)
(*                                                                         *)
(* The C8 traversal has the trace check and no memo and no stub check; it  *)
(* assigns the shared status dict to each name when its own call returns.  *)
(* The status dict's contents (1726-1788, a function of the authentication *)
(* graph G) are abstracted away: what is checked is which names get it.    *)
(* The C9 traversal has the trace check, the stub check and the "name      *)
(* already in d" memo, gates the dependency loops by level, and reads the  *)
(* evaluator fields of each name it emits.                                 *)
(***************************************************************************)
EXTENDS PopulateStatus

(* The levels of serialize_status (offline.py 54-58).                      *)
RDTYPES_ALL == 0
RDTYPES_ALL_SAME_NAME == 1
RDTYPES_NS_TARGET == 2
RDTYPES_SECURE_DELEGATION == 3

SFrame == [node: Nodes, isDlv: BOOLEAN, followMx: BOOLEAN, level: 0..3,
           ancestryOnly: BOOLEAN, phase: 1..EvalPhase, done: SUBSET Nodes]

VARIABLES
    stage,      \* "populate", "component", "serialize", "done" or "failed"
    recursive,  \* analysis_type == ANALYSIS_TYPE_RECURSIVE
    cpending,   \* roots not yet passed to populate_response_component_status
    cstack,     \* the active _set_response_component_status frames
    rcs,        \* names whose response_component_status is not None
    spending,   \* roots not yet passed to serialize_status
    sstack,     \* the active serialize_status frames
    emitted,    \* names with an entry in d
    serr        \* the exception that aborted serialisation, or "none"

pvars == <<stage, recursive, cpending, cstack, rcs, spending, sstack, emitted, serr>>

allvars == <<vars, pvars>>

CTop == cstack[Len(cstack)]
STop == sstack[Len(sstack)]
OnStack(st) == {st[i].node : i \in DOMAIN st}

PTypeOK ==
    /\ TypeOK
    /\ stage \in {"populate", "component", "serialize", "done", "failed"}
    /\ recursive \in BOOLEAN
    /\ cpending \in Seq(Nodes) /\ spending \in Seq(Nodes)
    /\ cstack \in Seq(Frame) /\ sstack \in Seq(SFrame)
    /\ rcs \subseteq Nodes /\ emitted \subseteq Nodes
    /\ serr \in {"none", "TypeError", "AttributeError"}

-----------------------------------------------------------------------------
(* C8.  A faulty variant of CEnter without the trace check.               *)
CEnterNoTrace(t, base, mxMode) ==
    /\ Len(base) < MaxDepth
    /\ cstack' = Append(base, [node |-> t, isDlv |-> FALSE, followMx |-> mxMode,
                               phase |-> CnamePhase, done |-> {}])

(* The entry check (1796-1797): a name on the trace returns.               *)
CEnter(t, base, mxMode) ==
    IF t \in OnStack(base)
    THEN cstack' = base
    ELSE /\ Len(base) < MaxDepth
         /\ cstack' = Append(base, [node |-> t, isDlv |-> FALSE, followMx |-> mxMode,
                                    phase |-> CnamePhase, done |-> {}])

(* populate_response_component_status(G) on the next root (1790).         *)
CStartRoot ==
    /\ stage = "component" /\ cstack = <<>> /\ cpending # <<>>
    /\ CEnter(Head(cpending), <<>>, TRUE)
    /\ cpending' = Tail(cpending)
    /\ UNCHANGED <<vars, stage, recursive, rcs, spending, sstack, emitted, serr>>

(* A faulty variant of CCallees that leaves out the dlv_parent call.      *)
CCalleesNoDlv(f) ==
    IF (f.phase = MxPhase /\ ~f.followMx) \/ f.phase = DlvPhase THEN {} ELSE Targets(f.node, f.phase)

(* The callees of the loops of phase p (1800-1820): MX targets only when   *)
(* follow_mx.                                                              *)
CCallees(f) == IF f.phase = MxPhase /\ ~f.followMx THEN {} ELSE Targets(f.node, f.phase)

(* One recursive call; the MX calls pass follow_mx = False.                *)
CCallChild ==
    /\ stage = "component" /\ cstack # <<>> /\ CTop.phase < EvalPhase
    /\ \E t \in CCallees(CTop) \ CTop.done :
          CEnter(t, [cstack EXCEPT ![Len(cstack)].done = @ \cup {t}], CTop.phase # MxPhase)
    /\ UNCHANGED <<vars, stage, recursive, cpending, rcs, spending, sstack, emitted, serr>>

CNextPhase ==
    /\ stage = "component" /\ cstack # <<>> /\ CTop.phase < EvalPhase
    /\ CCallees(CTop) \subseteq CTop.done
    /\ cstack' = [cstack EXCEPT ![Len(cstack)].phase = @ + 1, ![Len(cstack)].done = {}]
    /\ UNCHANGED <<vars, stage, recursive, cpending, rcs, spending, sstack, emitted, serr>>

(* The call returns after assigning the shared dict (1822).               *)
CReturn ==
    /\ stage = "component" /\ cstack # <<>> /\ CTop.phase = EvalPhase
    /\ rcs' = rcs \cup {CTop.node}
    /\ cstack' = SubSeq(cstack, 1, Len(cstack) - 1)
    /\ UNCHANGED <<vars, stage, recursive, cpending, spending, sstack, emitted, serr>>

-----------------------------------------------------------------------------
(* C9.  The callees of phase p of a serialize_status frame (2066-2088):    *)
(* CNAME and MX targets only at a level up to RDTYPES_NS_TARGET (MX only   *)
(* when follow_mx), the rest up to RDTYPES_SECURE_DELEGATION.              *)
SCallees(f) ==
    CASE f.phase \in {CnamePhase, MxPhase} /\ f.level > RDTYPES_NS_TARGET -> {}
      [] f.phase = MxPhase /\ ~f.followMx                               -> {}
      [] f.level > RDTYPES_SECURE_DELEGATION                            -> {}
      [] OTHER -> Targets(f.node, f.phase)

(* A faulty variant of ChildLevel that passes the ancestry calls one level *)
(* too many (RDTYPES_DELEGATION, 4).                                       *)
ChildLevelDelegation(f) ==
    CASE f.phase \in {CnamePhase, MxPhase} -> IF f.level > RDTYPES_ALL_SAME_NAME
                                              THEN f.level ELSE RDTYPES_ALL_SAME_NAME
      [] f.phase = NsPhase               -> RDTYPES_NS_TARGET
      [] OTHER                           -> RDTYPES_SECURE_DELEGATION + 1

(* The level, is_dlv, follow_mx and ancestry_only a call of phase p passes *)
(* (2070-2088); the CNAME calls pass ancestry_only for a recursive         *)
(* analysis (2064).                                                         *)
ChildLevel(f) ==
    CASE f.phase \in {CnamePhase, MxPhase} -> IF f.level > RDTYPES_ALL_SAME_NAME
                                              THEN f.level ELSE RDTYPES_ALL_SAME_NAME
      [] f.phase = NsPhase               -> RDTYPES_NS_TARGET
      [] OTHER                           -> RDTYPES_SECURE_DELEGATION

(* A faulty variant of SEnter without the stub check.                     *)
SEnterNoStub(t, base, lvl, dlvMode, mxMode, anc) ==
    IF t \in OnStack(base) \/ t \in emitted
    THEN sstack' = base
    ELSE /\ Len(base) < MaxDepth
         /\ sstack' = Append(base, [node |-> t, isDlv |-> dlvMode, followMx |-> mxMode,
                                    level |-> lvl, ancestryOnly |-> anc,
                                    phase |-> CnamePhase, done |-> {}])

(* The entry checks (2050-2061): the trace, a stub, a name already in d.   *)
SEnter(t, base, lvl, dlvMode, mxMode, anc) ==
    IF t \in OnStack(base) \/ t \in graph.stub \/ t \in emitted
    THEN sstack' = base
    ELSE /\ Len(base) < MaxDepth
         /\ sstack' = Append(base, [node |-> t, isDlv |-> dlvMode, followMx |-> mxMode,
                                    level |-> lvl, ancestryOnly |-> anc,
                                    phase |-> CnamePhase, done |-> {}])

SStartRoot ==
    /\ stage = "serialize" /\ sstack = <<>> /\ spending # <<>>
    /\ SEnter(Head(spending), <<>>, RDTYPES_ALL, FALSE, TRUE, FALSE)
    /\ spending' = Tail(spending)
    /\ UNCHANGED <<vars, stage, recursive, cpending, cstack, rcs, emitted, serr>>

SCallChild ==
    /\ stage = "serialize" /\ sstack # <<>> /\ STop.phase < EvalPhase
    /\ \E t \in SCallees(STop) \ STop.done :
          SEnter(t, [sstack EXCEPT ![Len(sstack)].done = @ \cup {t}], ChildLevel(STop),
                 STop.phase = DlvPhase, STop.phase # MxPhase,
                 STop.phase = CnamePhase /\ recursive)
    /\ UNCHANGED <<vars, stage, recursive, cpending, cstack, rcs, spending, emitted, serr>>

(* The signer loop (2076-2077) has no None check: an external signer the   *)
(* collector did not analyse raises AttributeError.                        *)
SNoneSigner ==
    /\ stage = "serialize" /\ sstack # <<>> /\ STop.phase = SignerPhase
    /\ STop.node \in graph.signerNone
    /\ serr' = "AttributeError"
    /\ stage' = "failed"
    /\ sstack' = <<>>
    /\ UNCHANGED <<vars, recursive, cpending, cstack, rcs, spending, emitted>>

SNextPhase ==
    /\ stage = "serialize" /\ sstack # <<>> /\ STop.phase < EvalPhase
    /\ SCallees(STop) \subseteq STop.done
    /\ STop.phase = SignerPhase => STop.node \notin graph.signerNone
    /\ sstack' = [sstack EXCEPT ![Len(sstack)].phase = @ + 1, ![Len(sstack)].done = {}]
    /\ UNCHANGED <<vars, stage, recursive, cpending, cstack, rcs, spending, emitted, serr>>

(* The evaluator fields the entry of n reads (2104-2148): the name status, *)
(* rrsig_status and the DNSKEY index for the queries, ds_status_by_ds and  *)
(* delegation_status for the DS delegation of a zone not reached as a DLV  *)
(* parent, and for the DLV delegation.                                     *)
SerializeReads(n, dlvMode) ==
    {"name", "rrsig"}
    \cup (IF n \in graph.zone /\ ((graph.parent[n] # NoNode /\ ~dlvMode) \/ graph.dlv[n] # NoNode)
          THEN {"ds"} ELSE {})

(* The frame emits its entry and returns; a name reached only for its      *)
(* ancestry returns without an entry unless it is a zone (2093-2097).      *)
SEmit ==
    /\ stage = "serialize" /\ sstack # <<>> /\ STop.phase = EvalPhase
    /\ IF STop.ancestryOnly /\ STop.node \notin graph.zone
       THEN /\ sstack' = SubSeq(sstack, 1, Len(sstack) - 1)
            /\ UNCHANGED <<stage, emitted, serr>>
       ELSE IF SerializeReads(STop.node, STop.isDlv) \subseteq fields[STop.node]
       THEN /\ emitted' = emitted \cup {STop.node}
            /\ sstack' = SubSeq(sstack, 1, Len(sstack) - 1)
            /\ UNCHANGED <<stage, serr>>
       ELSE /\ serr' = "TypeError"
            /\ stage' = "failed"
            /\ sstack' = <<>>
            /\ UNCHANGED emitted
    /\ UNCHANGED <<vars, recursive, cpending, cstack, rcs, spending>>

-----------------------------------------------------------------------------
(* The caller: populate_status on every root, then component status, then  *)
(* serialisation, each over the roots in order.                            *)
PopulateStep == stage = "populate" /\ Next /\ UNCHANGED pvars

EndPopulate ==
    /\ stage = "populate" /\ Completed
    /\ stage' = "component"
    /\ cpending' = graph.roots
    /\ UNCHANGED <<vars, recursive, cstack, rcs, spending, sstack, emitted, serr>>

EndComponent ==
    /\ stage = "component" /\ cstack = <<>> /\ cpending = <<>>
    /\ stage' = "serialize"
    /\ spending' = graph.roots
    /\ UNCHANGED <<vars, recursive, cpending, cstack, rcs, sstack, emitted, serr>>

EndSerialize ==
    /\ stage = "serialize" /\ sstack = <<>> /\ spending = <<>>
    /\ stage' = "done"
    /\ UNCHANGED <<vars, recursive, cpending, cstack, rcs, spending, sstack, emitted, serr>>

PInit ==
    /\ Init
    /\ stage = "populate"
    /\ recursive \in BOOLEAN
    /\ cpending = <<>> /\ cstack = <<>> /\ rcs = {}
    /\ spending = <<>> /\ sstack = <<>> /\ emitted = {}
    /\ serr = "none"

PNext ==
    \/ PopulateStep \/ EndPopulate
    \/ CStartRoot \/ CCallChild \/ CNextPhase \/ CReturn \/ EndComponent
    \/ SStartRoot \/ SCallChild \/ SNoneSigner \/ SNextPhase \/ SEmit \/ EndSerialize

(* One sequential thread runs the three passes.                            *)
PSpec == PInit /\ [][PNext]_allvars /\ WF_allvars(PNext)

-----------------------------------------------------------------------------
(* Properties.                                                             *)

(* serialize_status emits an entry only for names populate_status fully   *)
(* evaluated, in the mode the entry reads: its trace, stub check, name memo *)
(* and level gates never reach a name the evaluation skipped, nor a DLV   *)
(* registry evaluated with is_dlv=True from its DS-delegation side, so no *)
(* read of a None evaluator field raises.                                  *)
SerializeReadsPopulated == serr # "TypeError"

(* Every name with an entry in d has its response_component_status set, so *)
(* the RRset and DNSKEY statuses of its entry (1885, 1990) are not         *)
(* silently dropped: the C8 traversal reaches all that C9 serialises.      *)
ComponentStatusCovers == stage = "done" => emitted \subseteq rcs

(* The three passes end: the C8 traversal, which has no memo, is bounded   *)
(* by its trace check alone, on every graph, cycles included.              *)
PipelineTerminates == <>(stage \in {"done", "failed"} \/ error # "none")

(* serialize_status returns on every name graph, also one whose dependency *)
(* maps hold None for a name the collector did not analyse (spec 3).       *)
SerializeNeverRaises == serr = "none"
====
