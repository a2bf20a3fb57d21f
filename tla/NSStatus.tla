------------------------------ MODULE NSStatus ------------------------------
(***************************************************************************)
(* _populate_ns_status (offline.py 1126-1239): the parent-vs-child NS-name *)
(* and glue diagnostics of one zone, appended to delegation_warnings[DS]   *)
(* and delegation_errors[DS].  The corpus is fixed by Init; one step per   *)
(* NS name visits the names in the (unspecified) set order; a last step    *)
(* sorts the lists and emits the diagnostics.  NS names are naturals so    *)
(* that the sort of the code has an order to follow; an address is a model *)
(* value.  The diagnostics are only those this call appends.               *)
(***************************************************************************)
EXTENDS Naturals, Sequences, FiniteSets, SequencesExt, TLC

CONSTANTS
    NSNames,      \* NS target names, ordered as dns.name.Name sorts them
    Addrs,        \* IP addresses
    NoMapping,    \* a name absent from get_auth_ns_ip_mapping() (resolution error)
    Corpora,      \* the analysed states of the zone this call may see
    DELEGATION_STATUS_INCOMPLETE  \* Status.DELEGATION_STATUS_INCOMPLETE

ASSUME NSNames \subseteq Nat

(* The values delegation_status[DS] takes (the Status.DELEGATION_STATUS   *)
(* constants).                                                             *)
DelegationStatuses ==
    {"SECURE", "INSECURE", "BOGUS", "LAME", DELEGATION_STATUS_INCOMPLETE}

(* What the call reads of the zone:                                        *)
(*  isZone, hasParent, authoritative: the three early-return tests;        *)
(*  fromChild, fromParent: get_ns_names_in_child / _in_parent;             *)
(*  authNS: is_valid_complete_authoritative_response_any() of the NS query;*)
(*  auth[n]: auth_mapping[n], or NoMapping; glue[n]: glue_mapping[n];      *)
(*  inZone: the names n with n.is_subdomain(self.name);                    *)
(*  delegationStatus: the dict self.delegation_status by rdtype;           *)
(*  parentV4, childV4: whether parent / child servers include IPv4.        *)
CorpusType ==
    [isZone: BOOLEAN, hasParent: BOOLEAN, authoritative: BOOLEAN,
     fromChild: SUBSET NSNames, fromParent: SUBSET NSNames, authNS: BOOLEAN,
     auth: [NSNames -> SUBSET Addrs \cup {NoMapping}], glue: [NSNames -> SUBSET Addrs],
     inZone: SUBSET NSNames, delegationStatus: [{"DS"} -> DelegationStatuses],
     parentV4: BOOLEAN, childV4: BOOLEAN]

ASSUME Corpora \subseteq CorpusType

(* v is a set of addresses (compared by equality, which TLC also decides  *)
(* for the NoMapping sentinel).                                            *)
IsAddrSet(v) == \E s \in SUBSET Addrs : v = s

(* A glue mismatch entry: name, glue addresses, authoritative addresses.   *)
IsMismatch(m) ==
    /\ DOMAIN m = {"name", "glue", "auth"}
    /\ m.name \in NSNames /\ IsAddrSet(m.glue) /\ IsAddrSet(m.auth)

NameListKinds ==
    {"NSNameNotInChild", "NSNameNotInParent", "ErrorResolvingNSName",
     "MissingGlueForNSName", "NoAddressForNSName"}

IsDiagnostic(d) ==
    \/ d \in [kind: NameListKinds, names: Seq(NSNames)]
    \/ d.kind = "GlueMismatchError" /\ IsMismatch([f \in {"name", "glue", "auth"} |-> d[f]])
    \/ d \in [kind: {"NoNSAddressesForIPv4"}, reference: {"parent", "child", "parent or child"}]

VARIABLES
    c,          \* the corpus
    pc,         \* "start", "loop" (the for loop at 1152), "done"
    todo,       \* names of all_names not yet visited
    notInChild, notInParent, errorResolving, glueMismatch, missingGlue, missingAuth,
                \* the six lists of 1145-1150, in append order
    warnings,   \* what this call appends to delegation_warnings[DS]
    errors      \* what this call appends to delegation_errors[DS]

vars == <<c, pc, todo, notInChild, notInParent, errorResolving, glueMismatch,
          missingGlue, missingAuth, warnings, errors>>

lists == <<notInChild, notInParent, errorResolving, glueMismatch, missingGlue, missingAuth>>

TypeOK ==
    /\ c \in CorpusType
    /\ pc \in {"start", "loop", "done"}
    /\ todo \subseteq NSNames
    /\ \A i \in {1, 2, 3, 5, 6} : lists[i] \in Seq(NSNames)
    /\ \A i \in DOMAIN glueMismatch : IsMismatch(glueMismatch[i])
    /\ \A i \in DOMAIN warnings : IsDiagnostic(warnings[i])
    /\ \A i \in DOMAIN errors : IsDiagnostic(errors[i])

-----------------------------------------------------------------------------
(* get_ns_names(): the union of the names the parent and the child serve.  *)
AllNames(x) == x.fromParent \cup x.fromChild

(* Mutant: an unknown parent NS set taken as "not in parent".             *)
NameInParentNoneAsFalse(x, name) ==
    IF x.fromParent # {} /\ name \in x.fromParent THEN "True" ELSE "False"

(* The three-valued name_in_parent of 1164-1169.  The test at 1166         *)
(* compares the whole dict delegation_status with a status constant.       *)
NameInParent(x, name) ==
    IF x.fromParent # {} THEN IF name \in x.fromParent THEN "True" ELSE "False"
    ELSE IF x.delegationStatus = DELEGATION_STATUS_INCOMPLETE THEN "False"
    ELSE "None"

(* Mutant: auth_mapping[name] read without the membership test.          *)
AuthAddrsNoDefault(x, name) == x.auth[name]

(* auth_addrs of 1154-1158: the empty set when resolution failed.          *)
AuthAddrs(x, name) == IF x.auth[name] = NoMapping THEN {} ELSE x.auth[name]

Init ==
    /\ c \in Corpora
    /\ pc = "start"
    /\ todo = {}
    /\ notInChild = <<>> /\ notInParent = <<>> /\ errorResolving = <<>>
    /\ glueMismatch = <<>> /\ missingGlue = <<>> /\ missingAuth = <<>>
    /\ warnings = <<>> /\ errors = <<>>

(* The early returns of 1127-1134.                                         *)
EarlyReturn ==
    /\ pc = "start"
    /\ ~(c.isZone /\ c.hasParent /\ c.authoritative)
    /\ pc' = "done"
    /\ UNCHANGED <<c, todo, notInChild, notInParent, errorResolving, glueMismatch,
                   missingGlue, missingAuth, warnings, errors>>

(* 1136-1150: read the name sets and start the loop.                       *)
BeginLoop ==
    /\ pc = "start"
    /\ c.isZone /\ c.hasParent /\ c.authoritative
    /\ pc' = "loop"
    /\ todo' = AllNames(c)
    /\ UNCHANGED <<c, notInChild, notInParent, errorResolving, glueMismatch,
                   missingGlue, missingAuth, warnings, errors>>

(* One iteration of the loop at 1152-1184, for name.                       *)
VisitName(name) ==
    LET inP  == NameInParent(c, name)
        addr == AuthAddrs(c, name)
        g    == c.glue[name]
    IN
    /\ pc = "loop"
    /\ name \in todo
    /\ todo' = todo \ {name}
    /\ errorResolving' = IF c.auth[name] = NoMapping THEN Append(errorResolving, name)
                         ELSE errorResolving
    /\ missingAuth' = IF c.auth[name] = {} THEN Append(missingAuth, name) ELSE missingAuth
    /\ missingGlue' = IF inP = "True" /\ name \in c.inZone /\ g = {}
                      THEN Append(missingGlue, name) ELSE missingGlue
    /\ glueMismatch' = IF inP = "True" /\ g # {} /\ addr # {} /\ g # addr
                       THEN Append(glueMismatch, [name |-> name, glue |-> g, auth |-> addr])
                       ELSE glueMismatch
    /\ notInParent' = IF inP = "False" THEN Append(notInParent, name) ELSE notInParent
    /\ notInChild' = IF name \notin c.fromChild /\ c.authNS THEN Append(notInChild, name)
                     ELSE notInChild
    /\ UNCHANGED <<c, pc, warnings, errors>>

(* A diagnostic carrying a list of names, if the list is non-empty.       *)
Emit(kind, names) == IF names = <<>> THEN <<>> ELSE <<[kind |-> kind, names |-> names]>>

ByName(a, b) == a < b
ByNameField(a, b) == a.name < b.name

(* 1186-1239 as one step: each non-empty list is sorted and reported.  The *)
(* sort at 1191 is applied to ns_names_not_in_child, already sorted, so    *)
(* ns_names_not_in_parent is reported in visiting order.  With the         *)
(* default warn_no_ipv4=True and warn_no_ipv6=False only the IPv4 warning  *)
(* can be emitted; its reference is computed inside a branch where neither *)
(* side has IPv4.                                                          *)
Report ==
    LET mism == SortSeq(glueMismatch, ByNameField)
        v4   == IF ~(c.parentV4 \/ c.childV4)
                THEN <<[kind |-> "NoNSAddressesForIPv4",
                        reference |-> CASE c.parentV4 -> "child"
                                        [] c.childV4  -> "parent"
                                        [] OTHER      -> "parent or child"]>>
                ELSE <<>>
    IN
    /\ pc = "loop"
    /\ todo = {}
    /\ pc' = "done"
    /\ warnings' = warnings \o Emit("NSNameNotInChild", SortSeq(notInChild, ByName))
                            \o Emit("NSNameNotInParent", notInParent)
                            \o [i \in 1..Len(mism) |-> [kind |-> "GlueMismatchError"] @@ mism[i]]
                            \o Emit("MissingGlueForNSName", SortSeq(missingGlue, ByName))
                            \o v4
    /\ errors' = errors \o Emit("ErrorResolvingNSName", SortSeq(errorResolving, ByName))
                        \o Emit("NoAddressForNSName", SortSeq(missingAuth, ByName))
    /\ UNCHANGED <<c, todo, notInChild, notInParent, errorResolving, glueMismatch,
                   missingGlue, missingAuth>>

Next ==
    \/ EarlyReturn
    \/ BeginLoop
    \/ \E name \in NSNames : VisitName(name)
    \/ Report

Spec == Init /\ [][Next]_vars

-----------------------------------------------------------------------------
(* Reference: the diagnostics as spec section 4.6 step 4 states them, as   *)
(* set differences of the parent's and the child's NS names.  The parent's *)
(* NS set is known when it returned names, and is empty when the          *)
(* delegation is INCOMPLETE (the parent does not delegate the zone, the    *)
(* case 1166-1167 is written for); otherwise nothing is said.             *)
Runs(x) == x.isZone /\ x.hasParent /\ x.authoritative

ParentKnown(x) ==
    x.fromParent # {} \/ x.delegationStatus["DS"] = DELEGATION_STATUS_INCOMPLETE

Expected(x) ==
    LET all == AllNames(x) IN
    IF ~Runs(x) THEN [k \in NameListKinds |-> {}]
    ELSE [NSNameNotInChild     |-> IF x.authNS THEN all \ x.fromChild ELSE {},
          NSNameNotInParent    |-> IF ParentKnown(x) THEN all \ x.fromParent ELSE {},
          ErrorResolvingNSName |-> {n \in all : x.auth[n] = NoMapping},
          MissingGlueForNSName |-> {n \in x.fromParent \cap x.inZone : x.glue[n] = {}},
          NoAddressForNSName   |-> {n \in all : x.auth[n] = {}}]

ExpectedMismatch(x) ==
    LET resolved(n) == IF x.auth[n] = NoMapping THEN {} ELSE x.auth[n] IN
    IF ~Runs(x) THEN {}
    ELSE {[name |-> n, glue |-> x.glue[n], auth |-> resolved(n)] :
            n \in {m \in x.fromParent :
                     x.glue[m] # {} /\ resolved(m) # {} /\ x.glue[m] # resolved(m)}}

ErrorKinds == {"ErrorResolvingNSName", "NoAddressForNSName"}

Reported == ToSet(warnings) \cup ToSet(errors)

(* When the call returns, each parent-vs-child, resolution and glue        *)
(* diagnostic is reported once, exactly when its set of names is           *)
(* non-empty, naming exactly that set, in delegation_errors for the        *)
(* resolution failures and delegation_warnings otherwise; glue mismatches  *)
(* are one warning per name with its glue and authoritative addresses;    *)
(* NoNSAddressesForIPv4 is reported exactly when neither side has IPv4.    *)
NSDiagnosticsExact ==
    pc = "done" =>
    /\ \A k \in NameListKinds :
         LET R == {d \in Reported : d.kind = k} IN
         IF Expected(c)[k] = {} THEN R = {}
         ELSE \E d \in R :
                /\ R = {d}
                /\ ToSet(d.names) = Expected(c)[k] /\ Len(d.names) = Cardinality(Expected(c)[k])
                /\ d \in IF k \in ErrorKinds THEN ToSet(errors) ELSE ToSet(warnings)
    /\ {[name |-> d.name, glue |-> d.glue, auth |-> d.auth] :
          d \in {e \in Reported : e.kind = "GlueMismatchError"}} = ExpectedMismatch(c)
    /\ (\E d \in Reported : d.kind = "NoNSAddressesForIPv4")
         <=> Runs(c) /\ ~(c.parentV4 \/ c.childV4)

====
