---------------------------- MODULE MCNSStatus ------------------------------
(***************************************************************************)
(* Corpora for NSStatus.  Two NS names: 1 is inside the zone (needs glue), *)
(* 2 is outside it; two addresses a1, a2.                                  *)
(***************************************************************************)
EXTENDS NSStatus

CONSTANTS a1, a2

MCNSNames == {1, 2}
MCAddrs == {a1, a2}

Corpus(z, p, a, ch, pa, an, au, gl, ds, p4, c4) ==
    [isZone |-> z, hasParent |-> p, authoritative |-> a, fromChild |-> ch,
     fromParent |-> pa, authNS |-> an, auth |-> au, glue |-> gl, inZone |-> {1},
     delegationStatus |-> [r \in {"DS"} |-> ds], parentV4 |-> p4, childV4 |-> c4]

AuthChoices == {NoMapping, {}, {a1}, {a2}}
GlueChoices == {{}, {a1}, {a2}}

(* Names served by the parent and the child, at least one name in all.     *)
NameSplits == {sp \in (SUBSET MCNSNames) \X (SUBSET MCNSNames) : sp[1] \cup sp[2] # {}}

(* Every NS-name split, resolution outcome and glue, with the parent       *)
(* either returning names or being an INCOMPLETE (non-)delegation with no  *)
(* names, and a SECURE delegation otherwise.                               *)
CorporaWith(Statuses) ==
    {Corpus(TRUE, TRUE, TRUE, sp[1], sp[2], an, au, gl, ds, p4, c4) :
        sp \in NameSplits, an \in BOOLEAN,
        au \in [MCNSNames -> AuthChoices], gl \in [MCNSNames -> GlueChoices],
        ds \in Statuses, p4 \in BOOLEAN, c4 \in BOOLEAN}

(* The calls that return early.                                            *)
EarlyCorpora ==
    {Corpus(z, p, a, {1}, {2}, TRUE, [n \in MCNSNames |-> {}], [n \in MCNSNames |-> {}],
            "SECURE", FALSE, FALSE) :
        z \in BOOLEAN, p \in BOOLEAN, a \in BOOLEAN}

(* Parent returned NS names, or no names without INCOMPLETE.               *)
PassCorpora ==
    {x \in CorporaWith({"SECURE", DELEGATION_STATUS_INCOMPLETE}) :
        ~(x.fromParent = {} /\ x.delegationStatus["DS"] = DELEGATION_STATUS_INCOMPLETE)}
    \cup EarlyCorpora

(* The parent has no NS names and the delegation is INCOMPLETE.            *)
IncompleteCorpora ==
    {x \in CorporaWith({DELEGATION_STATUS_INCOMPLETE}) : x.fromParent = {}}

====
