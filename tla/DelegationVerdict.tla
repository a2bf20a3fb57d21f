------------------------- MODULE DelegationVerdict --------------------------
(***************************************************************************)
(* What the delegation evaluator promises (spec section 4.6), with no loop *)
(* state: for a collected corpus it reaches, in one step, the delegation   *)
(* status the specification assigns, and it does reach it.  The loop of    *)
(* _populate_ds_status in DelegationStatus is shown to implement this      *)
(* specification under a refinement mapping (DelegationStatus!Verdict).    *)
(***************************************************************************)
EXTENDS DnssecRecords

CONSTANTS
    Inputs,       \* the corpora (DelegationStatus!InputType)
    CnameAnswer   \* a CNAME RRset in the DS answer_info

VARIABLES
    inp,          \* the corpus
    verdict,      \* the delegation status, "NONE" until decided
    decided       \* whether the evaluator has returned

avars == <<inp, verdict, decided>>

AnswerRRsets == {inp.answers[j] : j \in DOMAIN inp.answers} \ {CnameAnswer}

(* Response r proves a secure entry point for DS RRset A: it returned an   *)
(* unexpired self-signature, verifying under a supported algorithm, made   *)
(* by a key of the signed DNSKEY RRset under its current key tag, whose    *)
(* digest appears in A with a supported digest type under that tag.        *)
ValidSep(A, r) ==
    \E ds \in A, i \in DOMAIN inp.dnskeySets : \E s \in inp.sigs[i] :
        LET k == s.by IN
        /\ k \in inp.dnskeySets[i] /\ r \in s.served
        /\ s.tag = KeyTag[k] /\ s.alg = KeyAlg[k] /\ s.alg \in SupportedAlgs
        /\ ~s.forged /\ ~s.expired
        /\ ds.of = k /\ ds.tag = KeyTag[k] /\ ds.alg = KeyAlg[k]
        /\ ds.digest \in SupportedDigests

(* The status: SECURE on a valid SEP; else BOGUS for a usable but         *)
(* unproven DS, the NSEC-proof rule for a signed parent without DS, LAME  *)
(* for INSECURE behind broken servers, INCOMPLETE for a DS query that got *)
(* NXDOMAIN; NONE for a name without a DS query.                           *)
AbstractStatus ==
    LET secure == \E A \in AnswerRRsets, r \in inp.usable : ValidSep(A, r)
        usableDs == \E A \in AnswerRRsets : \E d \in A :
                        d.alg \in SupportedAlgs /\ d.digest \in SupportedDigests
        base == CASE secure               -> "SECURE"
                  [] inp.answers # <<>>   -> IF usableDs THEN "BOGUS" ELSE "INSECURE"
                  [] inp.parentSigned     -> IF inp.nsecProof THEN "INSECURE" ELSE "BOGUS"
                  [] OTHER                -> "INSECURE"
        lame == IF inp.servers # "ok" /\ base = "INSECURE" THEN "LAME" ELSE base
    IN  CASE ~inp.dsQuery                                       -> "NONE"
          [] inp.rdtype = "DS" /\ inp.dsNxdomain /\ lame = "INSECURE" -> "INCOMPLETE"
          [] OTHER                                              -> lame

AInit ==
    /\ inp \in Inputs
    /\ verdict = "NONE"
    /\ decided = FALSE

(* The evaluator returns with the specified status.                        *)
Decide ==
    /\ ~decided
    /\ decided' = TRUE
    /\ verdict' = AbstractStatus
    /\ UNCHANGED inp

(* The evaluator is a terminating sequential computation.                  *)
ASpec == AInit /\ [][Decide]_avars /\ WF_avars(Decide)
=============================================================================
