-------------------------- MODULE DelegationStatus --------------------------
(***************************************************************************)
(* The delegation evaluator, _populate_ds_status (src/dnsviz/analysis/     *)
(* offline.py 1255-1463), for one rdtype (DS or DLV) of one zone.          *)
(*                                                                         *)
(* Inputs (fixed by Init, as the collected corpus is): the answers to the  *)
(* DS query in answer_info order, each a DS RRset or a CNAME; the zone's   *)
(* DNSKEY RRsets with the RRSIGs over each; the DNSKEY responses that are  *)
(* valid, complete and not referrals (dnskey_server_client_responses);     *)
(* whether the parent is signed and proves the DS absent; the state of the *)
(* zone's servers; whether the DS query got NXDOMAIN.                      *)
(*                                                                         *)
(* One step per DS RRset begins it, one step per DS rdata of it runs the   *)
(* loops over the DNSKEY RRsets, their keys and self-signatures, one step  *)
(* closes it; the order of the rdata of a set is Python set order and      *)
(* left free.  A last step assigns the fallback status and overrides.      *)
(***************************************************************************)
EXTENDS DnssecRecords

CONSTANTS
    Inputs,        \* the corpora to evaluate (records of InputType)
    CnameAnswer,   \* a CNAME RRset in the DS answer_info
    NoResponse,    \* None as the server/client/response of a diagnostic
    NoAlg          \* no algorithm parameter on a diagnostic

InputType ==
    [answers: Seq(SUBSET DSRecord(Nat, Nat, Nat) \cup {CnameAnswer}),
     dnskeySets: Seq(SUBSET Keys),
     sigs: Seq(SUBSET RRSIGRecord(Nat, Nat)),
     usable: SUBSET Responses,
     dsQuery: BOOLEAN,       \* a (name, rdtype) query exists (1274-1281)
     parentSigned: BOOLEAN,  \* self.parent.signed
     nsecProof: BOOLEAN,     \* a VALID NSEC status proves the DS absent
     servers: {"ok", "none", "unresponsive", "invalid", "noauth"},
     dsNxdomain: BOOLEAN,    \* an NXDOMAIN answer to the DS query
     rdtype: {"DS", "DLV"}]

ASSUME Inputs \subseteq InputType

Statuses == {"NONE", "SECURE", "INSECURE", "BOGUS", "LAME", "INCOMPLETE"}

Diagnostic == [kind: {"NoSEP", "MissingSEPForAlg", "NoNSInParent"},
               resp: Responses \cup {NoResponse}, alg: Nat \cup {NoAlg}]

VARIABLES
    inp,         \* the corpus
    pc,          \* "answers", "rdata", "done"
    idx,         \* how many entries of inp.answers the loop has begun
    todo,        \* DS rdata of the current RRset not yet processed
    dsAlgs,      \* ds_algs of the current RRset
    suppAlgs,    \* supported_ds_algs of the current RRset
    signing,     \* algs_signing_sep: response -> algorithms (deleted once covered)
    validating,  \* algs_validating_sep, likewise
    securePath,  \* secure_path
    status,      \* delegation_status[rdtype] ("NONE" for None)
    errors,      \* delegation_errors[rdtype]
    withDs,      \* dnskey_with_ds
    dsStatus     \* ds_status_by_ds[rdtype] as <<ds, key, validation_status>>

vars == <<inp, pc, idx, todo, dsAlgs, suppAlgs, signing, validating,
          securePath, status, errors, withDs, dsStatus>>

TypeOK ==
    /\ inp \in Inputs
    /\ pc \in {"answers", "rdata", "done"}
    /\ idx \in 0..Len(inp.answers)
    /\ DOMAIN signing \subseteq Responses
    /\ DOMAIN validating \subseteq Responses
    /\ securePath \in BOOLEAN
    /\ status \in Statuses
    /\ errors \subseteq Diagnostic
    /\ withDs \subseteq Keys

-----------------------------------------------------------------------------
(* The keys of the i-th DNSKEY RRset that DS ds matches (1344-1346).       *)
Match(ds, i) == {k \in inp.dnskeySets[i] : TagMatches(ds, k)}

(* The self-signatures over the i-th DNSKEY RRset that the 1357-1365      *)
(* filters let through for key k: k is bound to the RRSIG in rrsig_status  *)
(* and the RRSIG carries k's current key tag.                              *)
SepSigs(i, k) ==
    {s \in inp.sigs[i] : k \in SelfSigBound(inp.dnskeySets, i, s) /\ s.tag = KeyTag[k]}

(* The <<key, RRSIG>> pairs the rrsig loop (1357-1385) reaches for DS ds. *)
DSSepPairs(ds) ==
    UNION {UNION {{<<k, s>> : s \in SepSigs(i, k)} : k \in Match(ds, i)} :
             i \in DOMAIN inp.dnskeySets}

(* What DS ds adds, per response, to algs_signing_sep (1366-1372) and to   *)
(* algs_validating_sep (1374-1385).                                        *)
SigningAdds(ds, r) == {p[2].alg : p \in {p \in DSSepPairs(ds) : r \in p[2].served}}

(* A faulty variant: the validating set ignores whether the DS digest    *)
(* matched.                                                                *)
ValidatingAddsNoDigest(ds, r) ==
    {p[2].alg : p \in {p \in DSSepPairs(ds) : /\ r \in p[2].served
                                             /\ RRSIGStatusOf(p[2], p[1]) = "VALID"}}

ValidatingAdds(ds, r) ==
    {p[2].alg : p \in {p \in DSSepPairs(ds) : /\ r \in p[2].served
                                             /\ DSStatusOf(ds, p[1]) = "VALID"
                                             /\ RRSIGStatusOf(p[2], p[1]) = "VALID"}}

(* Add to each remaining response's set, and delete the responses whose    *)
(* set now holds every DS algorithm (the "del" at 1372 and 1385).          *)
Cover(m, adds) ==
    LET upd == [r \in DOMAIN m |-> m[r] \cup adds[r]]
    IN  [r \in {x \in DOMAIN m : ~(dsAlgs \subseteq upd[x])} |-> upd[r]]

(* The bindings recorded for ds: per DNSKEY RRset the first priority group *)
(* by digest_valid (1387-1393), or the no-DNSKEY sentinel (1395-1401).     *)
DSBindings(ds) ==
    LET rec == UNION {{<<ds, k, DSStatusOf(ds, k)>> :
                         k \in BestGroup(Match(ds, i), [k \in Match(ds, i) |-> DSDigestValid(ds, k)])} :
                       i \in DOMAIN inp.dnskeySets}
    IN  IF rec = {} THEN {<<ds, NoKey, DSStatusOf(ds, NoKey)>>} ELSE rec

-----------------------------------------------------------------------------
(* A non-zone name with no query for (name, rdtype) returns (1276-1281).   *)
NoDsQuery ==
    /\ pc = "answers" /\ idx = 0 /\ ~inp.dsQuery
    /\ pc' = "done"
    /\ UNCHANGED <<inp, idx, todo, dsAlgs, suppAlgs, signing, validating,
                   securePath, status, errors, withDs, dsStatus>>

(* A faulty variant of SkipCname that also passes over the next answer.   *)
SkipCnameTwice ==
    /\ pc = "answers" /\ inp.dsQuery /\ idx < Len(inp.answers)
    /\ inp.answers[idx + 1] = CnameAnswer
    /\ idx' = idx + 2
    /\ UNCHANGED <<inp, pc, todo, dsAlgs, suppAlgs, signing, validating,
                   securePath, status, errors, withDs, dsStatus>>

(* A CNAME in the DS answer_info is skipped (1306-1307).                   *)
SkipCname ==
    /\ pc = "answers" /\ inp.dsQuery /\ idx < Len(inp.answers)
    /\ inp.answers[idx + 1] = CnameAnswer
    /\ idx' = idx + 1
    /\ UNCHANGED <<inp, pc, todo, dsAlgs, suppAlgs, signing, validating,
                   securePath, status, errors, withDs, dsStatus>>

(* A faulty variant of BeginRRset that keeps algs_signing_sep from the     *)
(* previous DS RRset.                                                      *)
BeginRRsetKeepSigning ==
    /\ pc = "answers" /\ inp.dsQuery /\ idx < Len(inp.answers)
    /\ inp.answers[idx + 1] # CnameAnswer
    /\ LET A    == inp.answers[idx + 1]
           supp == {d.alg : d \in {x \in A : x.alg \in SupportedAlgs
                                             /\ x.digest \in SupportedDigests}}
       IN  /\ todo' = A
           /\ dsAlgs' = {d.alg : d \in A}
           /\ suppAlgs' = supp
           /\ securePath' = (securePath \/ supp # {})
    /\ signing' = IF idx = 0 THEN [r \in inp.usable |-> {}] ELSE signing
    /\ validating' = [r \in inp.usable |-> {}]
    /\ idx' = idx + 1
    /\ pc' = "rdata"
    /\ UNCHANGED <<inp, status, errors, withDs, dsStatus>>

(* Begin a DS RRset: its algorithms, the supported ones, secure_path, and  *)
(* fresh per-response tracking sets (1304-1326).                           *)
BeginRRset ==
    /\ pc = "answers" /\ inp.dsQuery /\ idx < Len(inp.answers)
    /\ inp.answers[idx + 1] # CnameAnswer
    /\ LET A    == inp.answers[idx + 1]
           supp == {d.alg : d \in {x \in A : x.alg \in SupportedAlgs
                                             /\ x.digest \in SupportedDigests}}
       IN  /\ todo' = A
           /\ dsAlgs' = {d.alg : d \in A}
           /\ suppAlgs' = supp
           /\ securePath' = (securePath \/ supp # {})
    /\ signing' = [r \in inp.usable |-> {}]
    /\ validating' = [r \in inp.usable |-> {}]
    /\ idx' = idx + 1
    /\ pc' = "rdata"
    /\ UNCHANGED <<inp, status, errors, withDs, dsStatus>>

(* One DS rdata of the RRset against every key of every DNSKEY RRset and   *)
(* each key's self-signatures (1328-1401).                                 *)
ProcessDS ==
    /\ pc = "rdata"
    /\ \E ds \in todo :
         LET matched == UNION {Match(ds, i) : i \in DOMAIN inp.dnskeySets}
         IN  /\ dsStatus' = {t \in dsStatus : t[1] # ds} \cup DSBindings(ds)
             /\ withDs' = withDs \cup
                  {k \in matched : DSStatusOf(ds, k) \notin
                      {"INDETERMINATE_NO_DNSKEY", "INDETERMINATE_MATCH_PRE_REVOKE"}}
             /\ signing' = Cover(signing, [r \in DOMAIN signing |-> SigningAdds(ds, r)])
             /\ validating' = Cover(validating, [r \in DOMAIN validating |-> ValidatingAdds(ds, r)])
             /\ todo' = todo \ {ds}
    /\ UNCHANGED <<inp, pc, idx, dsAlgs, suppAlgs, securePath, status, errors>>

(* Close the RRset: SECURE if some response validates, NoSEP for the      *)
(* others, MissingSEPForAlg for every algorithm a response lacks           *)
(* (1403-1419).                                                            *)
EndRRset ==
    /\ pc = "rdata" /\ todo = {}
    /\ LET validates(r) == r \notin DOMAIN validating \/ suppAlgs \cap validating[r] # {}
           noSep     == IF suppAlgs = {} THEN {}
                        ELSE {r \in inp.usable : ~validates(r)}
           missing   == UNION {{[kind |-> "MissingSEPForAlg", resp |-> r, alg |-> a] :
                                    a \in dsAlgs \ signing[r]} : r \in DOMAIN signing}
       IN  IF inp.usable # {}
           THEN /\ status' = IF DOMAIN validating = {} \/ \E r \in inp.usable : validates(r)
                             THEN "SECURE" ELSE status
                /\ errors' = errors \cup missing \cup
                             {[kind |-> "NoSEP", resp |-> r, alg |-> NoAlg] : r \in noSep}
           ELSE /\ errors' = errors \cup {[kind |-> "NoSEP", resp |-> NoResponse, alg |-> NoAlg]}
                /\ UNCHANGED status
    /\ pc' = "answers"
    /\ UNCHANGED <<inp, idx, todo, dsAlgs, suppAlgs, signing, validating,
                   securePath, withDs, dsStatus>>

(* After the last answer: the fallback status (1421-1435), the LAME        *)
(* override of INSECURE (1437-1451) and, for DS, NoNSInParent with the     *)
(* INSECURE -> INCOMPLETE downgrade (1453-1463).                           *)
Finalize ==
    /\ pc = "answers" /\ inp.dsQuery /\ idx = Len(inp.answers)
    /\ LET s1 == CASE status # "NONE"       -> status
                   [] inp.answers # <<>>    -> IF securePath THEN "BOGUS" ELSE "INSECURE"
                   [] inp.parentSigned      -> IF inp.nsecProof THEN "INSECURE" ELSE "BOGUS"
                   [] OTHER                 -> "INSECURE"
           s2 == IF inp.servers # "ok" /\ s1 = "INSECURE" THEN "LAME" ELSE s1
           nx == inp.rdtype = "DS" /\ inp.dsNxdomain
       IN  /\ status' = IF nx /\ s2 = "INSECURE" THEN "INCOMPLETE" ELSE s2
           /\ errors' = IF nx THEN errors \cup {[kind |-> "NoNSInParent",
                                                 resp |-> NoResponse, alg |-> NoAlg]}
                        ELSE errors
    /\ pc' = "done"
    /\ UNCHANGED <<inp, idx, todo, dsAlgs, suppAlgs, signing, validating,
                   securePath, withDs, dsStatus>>

(* The initialisation at 1268-1272, secure_path (1283) and the usable     *)
(* DNSKEY responses (1295-1302), here an input.                            *)
Init ==
    /\ inp \in Inputs
    /\ pc = "answers"
    /\ idx = 0
    /\ todo = {}
    /\ dsAlgs = {}
    /\ suppAlgs = {}
    /\ signing = <<>>
    /\ validating = <<>>
    /\ securePath = FALSE
    /\ status = "NONE"
    /\ errors = {}
    /\ withDs = {}
    /\ dsStatus = {}

Next == NoDsQuery \/ SkipCname \/ BeginRRset \/ ProcessDS \/ EndRRset \/ Finalize

(* _populate_ds_status is a sequential loop: it runs to its end.          *)
Spec == Init /\ [][Next]_vars /\ WF_vars(Next)

-----------------------------------------------------------------------------
(* The delegation as the specification (section 4.6) states it.            *)

AnswerRRsets == {inp.answers[j] : j \in DOMAIN inp.answers} \ {CnameAnswer}

(* The loop implements DelegationVerdict: until _populate_ds_status       *)
(* returns its status is not the verdict, and the step that returns        *)
(* (Finalize or NoDsQuery) is the abstract Decide.                         *)
Verdict == INSTANCE DelegationVerdict
               WITH verdict <- IF pc = "done" THEN status ELSE "NONE",
                    decided <- pc = "done"

(* Some self-signature served in r, by a key bound to it that matches a DS *)
(* of A, has algorithm a.                                                   *)
SignedSep(A, r, a) ==
    \E ds \in A : \E p \in DSSepPairs(ds) : r \in p[2].served /\ p[2].alg = a

-----------------------------------------------------------------------------
(* Properties.                                                             *)

(* _populate_ds_status implements the abstract evaluator: whatever the    *)
(* order of the DS rdata, the per-response deletions from                  *)
(* algs_validating_sep and the stickiness of SECURE across RRsets, it      *)
(* returns, and with SECURE exactly when some usable DNSKEY response       *)
(* carries a valid self-signature by a key that a DS of one RRset digests, *)
(* else with the fallback, LAME and INCOMPLETE status.                     *)
DelegationRefinesVerdict == Verdict!ASpec

(* MissingSEPForAlg is reported for response r and algorithm a exactly     *)
(* when some DS RRset has a DS of algorithm a and r returned no            *)
(* self-signature of algorithm a by a key matching that RRset: the         *)
(* per-RRset algs_signing_sep is reset, filled and deleted correctly.      *)
MissingSEPExact ==
    pc = "done" =>
        {e \in errors : e.kind = "MissingSEPForAlg"} =
        {[kind |-> "MissingSEPForAlg", resp |-> r, alg |-> a] :
            <<r, a>> \in {<<r, a>> \in inp.usable \X UNION {{d.alg : d \in A} : A \in AnswerRRsets} :
                            \E A \in AnswerRRsets :
                                a \in {d.alg : d \in A} /\ ~SignedSep(A, r, a)}}

(* Spec scenario 2: a DS RRset is published but no DNSKEY response         *)
(* validates a secure entry point, so NoSEP is reported.                   *)
NoSEPWhenNoSecureEntry ==
    (pc = "done" /\ AnswerRRsets # {} /\ inp.usable # {} /\ status # "SECURE")
        => \E e \in errors : e.kind = "NoSEP"
=============================================================================
