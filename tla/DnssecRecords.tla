--------------------------- MODULE DnssecRecords ----------------------------
(***************************************************************************)
(* The DNSSEC records the offline analysis reasons about, abstracted to    *)
(* what steers its control: a DNSKEY is a model value with an algorithm,  *)
(* a key tag and the key tag it had before its revoke bit was set; a DS    *)
(* names the key its digest was computed from; an RRSIG names the key that *)
(* made it and whether its bytes verify.  The verdicts of Status.DSStatus  *)
(* and Status.RRSIGStatus (dnsviz/analysis/status.py, outside src/) are    *)
(* modelled from the specification; the binding of an RRSIG over a DNSKEY  *)
(* RRset to its candidate keys is translated from _populate_rrsig_status.  *)
(***************************************************************************)
EXTENDS Naturals, Sequences, FiniteSets

CONSTANTS
    Keys,             \* DNSKEY records (DNSKEYMeta objects)
    NoKey,            \* None, the "no DNSKEY" sentinel
    KeyAlg,           \* KeyAlg[k]: algorithm of k
    KeyTag,           \* KeyTag[k]: key tag of k as published
    KeyTagNoRevoke,   \* KeyTagNoRevoke[k]: key tag with the revoke bit cleared
    SupportedAlgs,    \* crypto._supported_algs (intersected with the caller's)
    SupportedDigests, \* crypto._supported_digest_algs
    Responses         \* (server, client, response) triples of DNSKEY queries

ASSUME NoKey \notin Keys

-----------------------------------------------------------------------------
(* Three-valued outcome of a digest or signature check (True/False/None).  *)
Valid == "valid"
Invalid == "invalid"
Indeterminate == "indeterminate"

(* The priority order of the groups in validation_status_mapping           *)
(* (for status in True, False, None).                                      *)
GroupOrder == <<Valid, Invalid, Indeterminate>>

(* A DS rdata: its algorithm, key tag and digest type, and the DNSKEY its  *)
(* digest was computed over (NoKey for a digest that matches no key).      *)
DSRecord(Algs, Tags, Digests) ==
    [alg: Algs, tag: Tags, digest: Digests, of: Keys \cup {NoKey}]

(* An RRSIG over the DNSKEY RRset: algorithm, key tag, the key whose       *)
(* private half made it, whether its bytes were altered, whether it is     *)
(* past its expiration, and the responses that returned it.                *)
RRSIGRecord(Algs, Tags) ==
    [alg: Algs, tag: Tags, by: Keys, forged: BOOLEAN, expired: BOOLEAN,
     served: SUBSET Responses]

-----------------------------------------------------------------------------
(* Status.DSStatus (modelled from the specification, section 3): digest_valid *)
(* and validation_status of DS ds bound to key k.                          *)
DSDigestValid(ds, k) ==
    IF ds.digest \notin SupportedDigests THEN Indeterminate
    ELSE IF ds.of = k THEN Valid ELSE Invalid

DSStatusOf(ds, k) ==
    CASE k = NoKey                  -> "INDETERMINATE_NO_DNSKEY"
      [] ds.tag # KeyTag[k]         -> "INDETERMINATE_MATCH_PRE_REVOKE"
      [] ds.digest \notin SupportedDigests -> "ALGORITHM_IGNORED"
      [] ds.of = k                  -> "VALID"
      [] OTHER                      -> "INVALID_DIGEST"

(* Status.RRSIGStatus (modelled from the specification): signature_valid   *)
(* and validation_status of RRSIG s checked with key k.                    *)
SigValid(s, k) ==
    IF s.alg \notin SupportedAlgs THEN Indeterminate
    ELSE IF k = s.by /\ ~s.forged THEN Valid ELSE Invalid

RRSIGStatusOf(s, k) ==
    CASE k = NoKey                  -> "INDETERMINATE_NO_DNSKEY"
      [] s.tag # KeyTag[k]          -> "INDETERMINATE_MATCH_PRE_REVOKE"
      [] s.alg \notin SupportedAlgs -> "ALGORITHM_IGNORED"
      [] SigValid(s, k) = Invalid   -> "INVALID_SIG"
      [] s.expired                  -> "EXPIRED"
      [] OTHER                      -> "VALID"

(* A key matches a DS or RRSIG by algorithm and by its current or          *)
(* pre-revoke key tag (lines 1000-1002 and 1344-1346).                     *)
TagMatches(x, k) ==
    x.tag \in {KeyTag[k], KeyTagNoRevoke[k]} /\ x.alg = KeyAlg[k]

(* The first non-empty priority group of the candidates C, chk[k] being   *)
(* the three-valued check of k, or {} (the "for status in True, False,     *)
(* None: ... break" loops).                                                *)
BestGroup(C, chk) ==
    LET groups == [g \in 1..3 |-> {k \in C : chk[k] = GroupOrder[g]}]
        firsts == {g \in 1..3 : groups[g] # {} /\ \A h \in 1..(g - 1) : groups[h] = {}}
    IN  UNION {groups[g] : g \in firsts}

-----------------------------------------------------------------------------
(* The keys that RRSIG s over the i-th DNSKEY RRset of a zone is bound to  *)
(* in rrsig_status (lines 984-1022), the RRset being signed by its own     *)
(* zone: the zone's DNSKEY sets are visited in order; a key already seen   *)
(* in an earlier set is skipped (checked_keys), as is a key not in the     *)
(* signed RRset (self_sig); the candidates of one set are those matching   *)
(* the RRSIG, and of them only the first priority group is recorded.       *)
(* dnskeySets is the sequence of the zone's DNSKEY sets.                   *)
SelfSigBound(dnskeySets, i, s) ==
    LET inSigned(j) == dnskeySets[j] \cap dnskeySets[i]
        checked(j)  == UNION {inSigned(m) : m \in 1..(j - 1)}
        cands(j)    == {k \in inSigned(j) \ checked(j) : TagMatches(s, k)}
    IN  UNION {BestGroup(cands(j), [k \in cands(j) |-> SigValid(s, k)]) :
                 j \in DOMAIN dnskeySets}
=============================================================================
