--------------------------- MODULE PopulateStatus ---------------------------
(***************************************************************************)
(* The evaluation driver of the offline analysis: populate_status          *)
(* (src/dnsviz/analysis/offline.py 541-602).  A call on a name first       *)
(* recurses into the CNAME targets, MX targets (only when follow_mx),      *)
(* external signers, NS dependencies, the parent and the DLV parent, each  *)
(* with trace + [self]; a name already on the trace only recomputes its    *)
(* name status, a name whose rrsig_status is set is not evaluated again,   *)
(* and a stub is skipped.  After the recursion the name evaluates itself   *)
(* (C3, C2, C4, C5, key roles, C6, DLV, DNSKEY status).                    *)
(*                                                                         *)
(* The Python recursion is an explicit stack of frames.  The order of the  *)
(* targets inside one dependency map is the dict order, which the model    *)
(* leaves free.  The evaluation of a name is abstracted to which evaluator *)
(* fields it sets (they start as None) and which None field it would read, *)
(* since a read of None raises and aborts the whole analysis.              *)
(***************************************************************************)
EXTENDS Naturals, Sequences, FiniteSets

CONSTANTS
    Nodes,     \* the DomainNameAnalysis objects of one analysis
    NoNode,    \* None, as a parent or DLV parent
    Graphs,    \* the name graphs the collector can hand over (see GraphType)
    MaxDepth   \* bound on the recursion depth (the code never exceeds |Nodes|)

ASSUME NoNode \notin Nodes /\ MaxDepth \in Nat /\ MaxDepth > Cardinality(Nodes)

(* A name graph with the attributes of each node that steer the control.   *)
(*   cname/mx/signer/ns: the non-None values of cname_targets, mx_targets, *)
(*     external_signers and ns_dependencies;                               *)
(*   stub: stub nodes; zone: is_zone(); dsQuery: has a (name, DS) query;   *)
(*   dnskeys: has DNSKEY answers for its own name;                         *)
(*   missingKey: a DNSKEY that is not a ZSK is missing from a server that  *)
(*     answered the DNSKEY query;                                          *)
(*   roots: the names the caller runs populate_status on, in order;        *)
(*   signerNone: names with an external signer that maps to None (a        *)
(*     signer the collector did not analyse); 578-580 skips it.            *)
GraphType ==
    [cname: [Nodes -> SUBSET Nodes], mx: [Nodes -> SUBSET Nodes],
     signer: [Nodes -> SUBSET Nodes], ns: [Nodes -> SUBSET Nodes],
     parent: [Nodes -> Nodes \cup {NoNode}], dlv: [Nodes -> Nodes \cup {NoNode}],
     stub: SUBSET Nodes, zone: SUBSET Nodes, dsQuery: SUBSET Nodes,
     dnskeys: SUBSET Nodes, missingKey: SUBSET Nodes, roots: Seq(Nodes),
     signerNone: SUBSET Nodes]

ASSUME Graphs \subseteq GraphType

(* Evaluator fields that start as None:                                    *)
(*   "name": status/yxdomain/yxrrset/nxrrset;  "rrsig": rrsig_status and   *)
(*   the other C4 maps;  "keys": zsks/ksks;  "neg": nodata_* / nxdomain_*; *)
(*   "roles": published_keys/revoked_keys;  "ds": ds_status_by_ds,         *)
(*   delegation_status and dnskey_with_ds.                                 *)
Fields == {"name", "rrsig", "keys", "neg", "roles", "ds"}

Errors == {"none", "KeyError", "TypeError"}

(* The call order inside populate_status: phases 1-6 are the recursive     *)
(* calls, phase 7 the evaluation of the name itself.                       *)
CnamePhase == 1
MxPhase == 2
SignerPhase == 3
NsPhase == 4
ParentPhase == 5
DlvPhase == 6
EvalPhase == 7

Frame == [node: Nodes, isDlv: BOOLEAN, followMx: BOOLEAN,
          phase: 1..EvalPhase, done: SUBSET Nodes]

VARIABLES
    graph,      \* the name graph being analysed (fixed by Init)
    pending,    \* roots on which populate_status has not been called yet
    stack,      \* the active populate_status frames, innermost last
    fields,     \* fields[n]: the evaluator fields of n that are not None
    evalCount,  \* evalCount[n]: how many times n evaluated itself
    error,      \* the exception that aborted the analysis, or "none"
    yxrrset     \* yxrrset[n]: the RRsets of n's yxrrset, once "name" \in fields[n]

vars == <<graph, pending, stack, fields, evalCount, error, yxrrset>>

Opt(n) == IF n = NoNode THEN {} ELSE {n}

(* The callees of phase p of a call on n (lines 570-589).                 *)
Targets(n, p) ==
    CASE p = CnamePhase  -> graph.cname[n]
      [] p = MxPhase     -> graph.mx[n]
      [] p = SignerPhase -> graph.signer[n]
      [] p = NsPhase     -> graph.ns[n]
      [] p = ParentPhase -> Opt(graph.parent[n])
      [] p = DlvPhase    -> Opt(graph.dlv[n])

(* A faulty variant: the signer and NS dependency loops indented under    *)
(* `if follow_mx:` as well.                                                *)
CalleesMxGatesAll(f) ==
    IF f.phase \in {MxPhase, SignerPhase, NsPhase} /\ ~f.followMx
    THEN {} ELSE Targets(f.node, f.phase)

(* MX targets are visited only if follow_mx (line 574).                   *)
Callees(f) == IF f.phase = MxPhase /\ ~f.followMx THEN {} ELSE Targets(f.node, f.phase)

Trace == {stack[i].node : i \in DOMAIN stack}

Top == stack[Len(stack)]

TypeOK ==
    /\ graph \in GraphType
    /\ pending \in Seq(Nodes)
    /\ stack \in Seq(Frame)
    /\ fields \in [Nodes -> SUBSET Fields]
    /\ evalCount \in [Nodes -> Nat]
    /\ error \in Errors
    /\ yxrrset \in [Nodes -> SUBSET Nodes]

-----------------------------------------------------------------------------
(* The RRsets the queries of n answered (630-636).  Each name's own      *)
(* answers are one tag, the name itself, so yxrrset[n] is the set of names *)
(* whose answers n's CNAME chain reaches; a stub has no queries.           *)
OwnRRsets(n) == IF n \in graph.stub THEN {} ELSE {n}

(* _populate_name_status(trace) on n from the fields and yxrrsets st, as  *)
(* the set of outcomes over every dict order of cname_targets.  A name on *)
(* the trace returns (611-612); otherwise yxrrset is reset and refilled   *)
(* from the answers (614-636) before the CNAME loop.                       *)
RECURSIVE NameStatusRuns(_, _, _), CnameLoop(_, _, _, _)
NameStatusRuns(n, trace, st) ==
    IF n \in trace THEN {st}
    ELSE CnameLoop(n, trace, graph.cname[n] \ {n},
                   [f |-> [st.f EXCEPT ![n] = @ \cup {"name"}],
                    y |-> [st.y EXCEPT ![n] = OwnRRsets(n)]])

(* A faulty variant of the CNAME loop: the target's yxrrset copied before *)
(* a target whose yxrrset is None is evaluated, not after.                 *)
CnameLoopCopyFirst(n, trace, T, st) ==
    IF T = {} THEN {st}
    ELSE UNION {LET copied == [st EXCEPT !.y[n] = @ \cup st.y[t]] IN
                UNION {CnameLoop(n, trace, T \ {t}, s) :
                       s \in IF "name" \in st.f[t] THEN {copied}
                             ELSE NameStatusRuns(t, trace \cup {n}, copied)} :
                t \in T}

(* 669-677: a target whose yxrrset is None is evaluated first, with trace *)
(* + [self]; then the target's yxrrset, as it is at that moment, is       *)
(* copied under the CNAME owner.  A target that is itself self is skipped.*)
CnameLoop(n, trace, T, st) ==
    IF T = {} THEN {st}
    ELSE UNION {UNION {CnameLoop(n, trace, T \ {t}, [s EXCEPT !.y[n] = @ \cup s.y[t]]) :
                       s \in IF "name" \in st.f[t] THEN {st}
                             ELSE NameStatusRuns(t, trace \cup {n}, st)} :
                t \in T}

(* _populate_name_status() called with no trace on n (548, 591), as an    *)
(* action on fields and yxrrset.                                          *)
PopulateNameStatus(n) ==
    \E st \in NameStatusRuns(n, {}, [f |-> fields, y |-> yxrrset]) :
        fields' = st.f /\ yxrrset' = st.y

(* Faulty variants of Enter: without the rrsig_status memo (551-552), and  *)
(* starting the call loops one phase early, and without the trace check   *)
(* (546-548).                                                              *)
EnterNoMemo(t, base, dlvMode, mxMode) ==
    IF t \in {base[i].node : i \in DOMAIN base}
    THEN /\ PopulateNameStatus(t)
         /\ stack' = base
    ELSE IF t \in graph.stub
    THEN /\ stack' = base
         /\ UNCHANGED <<fields, yxrrset>>
    ELSE /\ Len(base) < MaxDepth
         /\ stack' = Append(base, [node |-> t, isDlv |-> dlvMode,
                                   followMx |-> mxMode, phase |-> CnamePhase,
                                   done |-> {}])
         /\ UNCHANGED <<fields, yxrrset>>

EnterPhaseZero(t, base, dlvMode, mxMode) ==
    IF t \in {base[i].node : i \in DOMAIN base}
    THEN /\ PopulateNameStatus(t)
         /\ stack' = base
    ELSE IF "rrsig" \in fields[t] \/ t \in graph.stub
    THEN /\ stack' = base
         /\ UNCHANGED <<fields, yxrrset>>
    ELSE /\ Len(base) < MaxDepth
         /\ stack' = Append(base, [node |-> t, isDlv |-> dlvMode,
                                   followMx |-> mxMode, phase |-> 0,
                                   done |-> {}])
         /\ UNCHANGED <<fields, yxrrset>>

EnterNoTrace(t, base, dlvMode, mxMode) ==
    IF "rrsig" \in fields[t] \/ t \in graph.stub
    THEN /\ stack' = base
         /\ UNCHANGED <<fields, yxrrset>>
    ELSE /\ Len(base) < MaxDepth
         /\ stack' = Append(base, [node |-> t, isDlv |-> dlvMode,
                                   followMx |-> mxMode, phase |-> CnamePhase,
                                   done |-> {}])
         /\ UNCHANGED <<fields, yxrrset>>

(* The entry checks of populate_status (542-556) for a call on t made     *)
(* with the frames base, is_dlv = dlvMode and follow_mx = mxMode.          *)
Enter(t, base, dlvMode, mxMode) ==
    IF t \in {base[i].node : i \in DOMAIN base}
    THEN /\ PopulateNameStatus(t)
         /\ stack' = base
    ELSE IF "rrsig" \in fields[t] \/ t \in graph.stub
    THEN /\ stack' = base
         /\ UNCHANGED <<fields, yxrrset>>
    ELSE /\ Len(base) < MaxDepth
         /\ stack' = Append(base, [node |-> t, isDlv |-> dlvMode,
                                   followMx |-> mxMode, phase |-> CnamePhase,
                                   done |-> {}])
         /\ UNCHANGED <<fields, yxrrset>>

(* The caller runs populate_status on its next root, with no trace.       *)
StartRoot ==
    /\ stack = <<>>
    /\ error = "none"
    /\ pending # <<>>
    /\ Enter(Head(pending), <<>>, FALSE, TRUE)
    /\ pending' = Tail(pending)
    /\ UNCHANGED <<graph, evalCount, error>>

(* One recursive call of phases 1-6 (570-589): the parent and dependency   *)
(* calls pass follow_mx = True, the MX calls False, the DLV call is_dlv.   *)
CallChild ==
    /\ stack # <<>>
    /\ Top.phase < EvalPhase
    /\ \E t \in Callees(Top) \ Top.done :
          Enter(t, [stack EXCEPT ![Len(stack)].done = @ \cup {t}],
                Top.phase = DlvPhase, Top.phase # MxPhase)
    /\ UNCHANGED <<graph, pending, evalCount, error>>

(* A loop of phases 1-6 has called all its targets.                        *)
NextPhase ==
    /\ stack # <<>>
    /\ Top.phase < EvalPhase
    /\ Callees(Top) \subseteq Top.done
    /\ stack' = [stack EXCEPT ![Len(stack)].phase = @ + 1,
                              ![Len(stack)].done = {}]
    /\ UNCHANGED <<graph, pending, fields, evalCount, error, yxrrset>>

(* _populate_rrsig_status_all (1086-1119) sets the C4 maps, and zsks and  *)
(* ksks only for a zone (1094-1096); _finalize_key_roles (1121-1124) sets  *)
(* published_keys and revoked_keys only for a zone.  NODATA and NXDOMAIN   *)
(* status are set by 595-596.                                              *)
RRSIGFields(n) == {"rrsig", "neg"} \cup (IF n \in graph.zone THEN {"keys", "roles"} ELSE {})

(* _populate_delegation_status (1241-1253) resets the delegation fields,   *)
(* dnskey_with_ds included; populate_status calls it unless is_dlv.        *)
DelegationFields(dlvMode) == IF dlvMode THEN {} ELSE {"ds"}

(* _populate_ds_status(DS) re-raises the KeyError of a zone with a parent  *)
(* and no (name, DS) query (1258, 1274-1279).                              *)
DsStatusRaises(n, dlvMode) ==
    ~dlvMode /\ graph.parent[n] # NoNode /\ n \in graph.zone /\ n \notin graph.dsQuery

(* _populate_ds_status(DLV) (600-601) writes ds_status_by_ds[DLV] (1268),  *)
(* a TypeError while that dict is still None; fs are n's fields by then.   *)
DlvStatusRaises(n, fs) ==
    graph.dlv[n] # NoNode /\ graph.parent[n] # NoNode /\ "ds" \notin fs

(* _populate_dnskey_status (1672-1723) reads revoked_keys (1692) for each  *)
(* DNSKEY, None unless n is a zone, and dnskey_with_ds (1712) for a key    *)
(* that is not a ZSK and is missing from a responsive server.              *)
DnskeyStatusRaises(n, fs) ==
    n \in graph.dnskeys
    /\ ("roles" \notin fs \/ (n \in graph.missingKey /\ "ds" \notin fs))

(* The evaluation of n itself after its name status (592-602), as the    *)
(* fields it sets and the exception it raises, if any.                     *)
Evaluation(n, dlvMode, f) ==
    LET f3 == [f EXCEPT ![n] = @ \cup RRSIGFields(n) \cup DelegationFields(dlvMode)]
    IN  [fields |-> f3,
         error  |-> CASE DsStatusRaises(n, dlvMode)  -> "KeyError"
                      [] DlvStatusRaises(n, f3[n]) \/ DnskeyStatusRaises(n, f3[n])
                                                  -> "TypeError"
                      [] OTHER                    -> "none"]

(* The frame on top has made all its calls: it evaluates its name and     *)
(* returns; an exception unwinds every frame.                              *)
Evaluate ==
    /\ stack # <<>>
    /\ Top.phase = EvalPhase
    /\ \E st \in NameStatusRuns(Top.node, {}, [f |-> fields, y |-> yxrrset]) :
       LET out == Evaluation(Top.node, Top.isDlv, st.f)
       IN  /\ fields' = out.fields
           /\ yxrrset' = st.y
           /\ error' = out.error
           /\ stack' = IF out.error = "none" THEN SubSeq(stack, 1, Len(stack) - 1)
                                             ELSE <<>>
    /\ evalCount' = [evalCount EXCEPT ![Top.node] = @ + 1]
    /\ UNCHANGED <<graph, pending>>

Init ==
    /\ graph \in Graphs
    /\ pending = graph.roots
    /\ stack = <<>>
    /\ fields = [n \in Nodes |-> {}]
    /\ evalCount = [n \in Nodes |-> 0]
    /\ error = "none"
    /\ yxrrset = [n \in Nodes |-> {}]

Next == StartRoot \/ CallChild \/ NextPhase \/ Evaluate

(* The analysis is a single sequential thread: it keeps running until it   *)
(* returns or raises.                                                      *)
Spec == Init /\ [][Next]_vars /\ WF_vars(Next)

Terminated == stack = <<>> /\ (pending = <<>> \/ error # "none")

Completed == Terminated /\ error = "none"

-----------------------------------------------------------------------------
(* Names reached from the roots over CNAME, signer, NS, parent and DLV     *)
(* edges without passing through a stub.                                   *)
NonMxSucc(n) == graph.cname[n] \cup graph.signer[n] \cup graph.ns[n]
                \cup Opt(graph.parent[n]) \cup Opt(graph.dlv[n])

RECURSIVE ReachFrom(_)
ReachFrom(S) ==
    LET next == S \cup UNION {NonMxSucc(n) : n \in S \ graph.stub}
    IN  IF next = S THEN S ELSE ReachFrom(next)

RootSet == {graph.roots[i] : i \in DOMAIN graph.roots}

Required == ReachFrom(RootSet) \ graph.stub

(* The names whose answers n's CNAME chain leads to, n included.          *)
RECURSIVE CnameReach(_)
CnameReach(S) ==
    LET next == S \cup UNION {graph.cname[m] : m \in S}
    IN  IF next = S THEN S ELSE CnameReach(next)

-----------------------------------------------------------------------------
(* Properties.                                                             *)

(* A name evaluates itself at most once however many paths of the name     *)
(* graph lead to it: the rrsig_status memo (551-552) together with the     *)
(* trace (546-548) must stop every second evaluation, also one re-entered  *)
(* through a cycle while the first is still on the stack.                  *)
EvaluatedOnce == \A n \in Nodes : evalCount[n] <= 1

(* When every root call has returned normally, every non-stub name         *)
(* reachable from a root without an MX edge has been evaluated, so the     *)
(* component-status and serialisation passes find its fields set.          *)
ReachableEvaluated == Completed => \A n \in Required : "rrsig" \in fields[n]

(* No evaluator step reads a field that is still None (a read of None      *)
(* raises TypeError and aborts the analysis of every name).                *)
NoNoneFieldRead == error # "TypeError"

(* When the analysis completes, the yxrrset of every name whose name      *)
(* status was populated holds the RRsets of every name its CNAME chain     *)
(* leads to, and no others (spec 4.1: CNAME-target yxrrsets propagate back *)
(* to the alias, transitively).  _populate_name_status copies a target's   *)
(* yxrrset as it is at that moment (675), which in a CNAME cycle, or when  *)
(* a trace hit reruns a name (548), may be a yxrrset still being rebuilt.  *)
YxrrsetIsCnameClosure ==
    Completed =>
        \A n \in Nodes :
            "name" \in fields[n] =>
                yxrrset[n] = UNION {OwnRRsets(m) : m \in CnameReach({n})}

(* Every root handed to populate_status is evaluated as a root: its        *)
(* delegation status is populated and its non-stub MX targets are          *)
(* evaluated, whatever roots were analysed before it.                      *)
RootsFullyEvaluated ==
    Completed =>
        \A r \in RootSet \ graph.stub :
            /\ "ds" \in fields[r]
            /\ \A m \in graph.mx[r] \ graph.stub : "rrsig" \in fields[m]
=============================================================================
