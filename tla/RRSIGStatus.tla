---------------------------- MODULE RRSIGStatus -----------------------------
(***************************************************************************)
(* _populate_rrsig_status_all and _populate_rrsig_status (offline.py       *)
(* 913-1045, 1086-1117) for the answer RRsets of one name, followed by    *)
(* _populate_dnskey_status (1672-1723), which reads the key roles they     *)
(* leave.  The RRsets are visited in the (dict) order of self.queries,   *)
(* the RRSIGs of an RRset in the order of rrset_info.rrsig_info; each      *)
(* RRSIG step counts the algorithm per response, binds the RRSIG to       *)
(* DNSKEYs and marks key roles;                                            *)
(* the last step of an RRset reports missing RRSIGs per response.  The    *)
(* wildcard handler and the response-error classifier (1047-1052) are      *)
(* other components and are left out.  Every DNSKEY has protocol 3.        *)
(***************************************************************************)
EXTENDS DnssecRecords, FiniteSets

CONSTANTS
    RRsetIds,     \* the rrset_info objects of the name's answers
    NoRRset,      \* no RRset (before the first one is visited)
    Corpora,      \* the analysed states this evaluation may see
    TrustedKeyChoices, \* the trust anchors of this name the caller may pass
    WithDsChoices      \* the dnskey_with_ds sets C6 may have left

(* An RRSIG of the corpus: the DnssecRecords fields (served by the         *)
(* responses in served) and how its signer name resolves: a fully analysed *)
(* name ("name"), a stub ("stub"), or no name of the analysis ("unknown"). *)
SigType ==
    [alg: Nat, tag: Nat, by: Keys, forged: BOOLEAN, expired: BOOLEAN,
     served: SUBSET Responses, signer: {"name", "stub", "unknown"}]

(* An answer RRset: its type, whether it is owned by the name itself (the  *)
(* zone apex when the name is a zone), the keys it holds (for DNSKEY),     *)
(* the responses that returned it, those of them whose answer was          *)
(* synthesised from a DNAME, and its RRSIGs.                               *)
RRsetType ==
    [rdtype: {"DNSKEY", "SOA", "CNAME", "A", "DS", "DLV"}, apex: BOOLEAN, members: SUBSET Keys,
     served: SUBSET Responses, dname: SUBSET Responses, sigs: SUBSET SigType]

(* The name: whether it is a zone; the DNSKEY sets of the signer           *)
(* (get_dnskey_sets); the zone's dnssec_algorithms_in_{dnskey,ds,dlv};     *)
(* the responses with DNSSEC requested and those whose server is           *)
(* responsive with DO; the RRsets.                                         *)
CorpusType ==
    [isZone: BOOLEAN, keySets: Seq(SUBSET Keys),
     algsDnskey: SUBSET Nat, algsDs: SUBSET Nat, algsDlv: SUBSET Nat,
     dnssecRequested: SUBSET Responses, doResponsive: SUBSET Responses,
     rrsets: [RRsetIds -> RRsetType]]

ASSUME Corpora \subseteq CorpusType

ASSUME NoRRset \notin RRsetIds

ErrorKinds == {"MissingRRSIG", "UnableToRetrieveDNSSECRecords", "MissingRRSIGForAlgDNSKEY",
               "MissingRRSIGForAlgDS", "MissingRRSIGForAlgDLV"}

VARIABLES
    c,            \* the corpus
    pc,           \* "next" (choose the next RRset), "sig" (RRSIG loop at 963)
    todoRR,       \* RRsets not yet evaluated
    cur,          \* the RRset being evaluated
    todoSigs,     \* its RRSIGs not yet visited
    algsSigning,  \* algs_signing_rrset: response -> algorithms seen
    entries,      \* <<x, s>>: rrsig_status[x][s] exists
    bindings,     \* <<x, s, k>>: rrsig_status[x][s][k] exists (k = NoKey for None)
    rrsetErrors,  \* <<x, r, kind, alg>>: diagnostics in rrset_errors[x] for response r
    ksks, zsks,
    anchors,      \* trusted_keys_rdata: the trust anchors of the name
    withDs,       \* dnskey_with_ds, as C6 left it
    keyErrors,    \* <<k, kind>>: the diagnostics in dnskey.errors
    keyWarnings,  \* <<k, kind>>: the diagnostics in dnskey.warnings
    exc           \* the exception _populate_dnskey_status raised, or "none"

vars == <<c, pc, todoRR, cur, todoSigs, algsSigning, entries, bindings, rrsetErrors,
          ksks, zsks, anchors, withDs, keyErrors, keyWarnings, exc>>

(* DNSKEYNotAtZoneApex (1695-1698) is left out: it is filed only for a    *)
(* name that is not a zone, where 1692 has already raised.                 *)
KeyErrorKinds == {"RevokedNotSigning", "DNSKEYMissingFromServers", "TrustAnchorNotSigning"}

TypeOK ==
    /\ c \in CorpusType
    /\ pc \in {"next", "sig", "end"}
    /\ todoRR \subseteq RRsetIds
    /\ cur \in RRsetIds \cup {NoRRset}
    /\ todoSigs \subseteq SigType
    /\ DOMAIN algsSigning \subseteq Responses
    /\ \A r \in DOMAIN algsSigning : algsSigning[r] \subseteq Nat
    /\ entries \subseteq RRsetIds \X SigType
    /\ bindings \subseteq RRsetIds \X SigType \X (Keys \cup {NoKey})
    /\ rrsetErrors \subseteq RRsetIds \X Responses \X ErrorKinds \X Nat
    /\ ksks \subseteq Keys /\ zsks \subseteq Keys
    /\ anchors \subseteq Keys /\ withDs \subseteq Keys
    /\ keyErrors \subseteq Keys \X KeyErrorKinds
    /\ keyWarnings \subseteq Keys \X KeyErrorKinds
    /\ exc \in {"none", "TypeError"}

-----------------------------------------------------------------------------
(* Mutant: the DS and DLV sets kept for a DLV RRset.                       *)
ExpectedAlgsNoDlvReset(x) == <<c.algsDnskey, c.algsDs, c.algsDlv>>

(* The expected signing algorithms of 921-932 as <<dnskey, ds, dlv>>: the  *)
(* zone's, with the DS and DLV sets emptied for a DLV RRset.               *)
ExpectedAlgs(x) ==
    IF c.rrsets[x].rdtype = "DLV" THEN <<c.algsDnskey, {}, {}>>
    ELSE <<c.algsDnskey, c.algsDs, c.algsDlv>>

(* Whether algorithm set A leaves none of the expected algorithms out.     *)
CoversAll(x, A) == \A i \in 1..3 : ExpectedAlgs(x)[i] \subseteq A

(* Mutant: no self-signature filter (997-998).                             *)
BoundNoSelfSig(x, s) ==
    LET checked(j) == UNION {c.keySets[m] : m \in 1..(j - 1)}
        cands(j)   == {k \in c.keySets[j] \ checked(j) : TagMatches(s, k)}
    IN  UNION {BestGroup(cands(j), [k \in cands(j) |-> SigValid(s, k)]) :
                 j \in DOMAIN c.keySets}

(* The keys an RRSIG s over x is bound to (984-1022), translated for any   *)
(* signer: the signer's DNSKEY sets are visited in order, a key seen in an *)
(* earlier set is skipped (checked_keys), for a self-signature only keys   *)
(* of the signed RRset are tried, a key must match tag and algorithm, and  *)
(* of each set only the first non-empty priority group is kept.            *)
Bound(x, s) ==
    LET selfSig     == c.rrsets[x].rdtype = "DNSKEY" /\ c.rrsets[x].apex
        inSigned(j) == IF selfSig THEN c.keySets[j] \cap c.rrsets[x].members
                       ELSE c.keySets[j]
        checked(j)  == UNION {inSigned(m) : m \in 1..(j - 1)}
        cands(j)    == {k \in inSigned(j) \ checked(j) : TagMatches(s, k)}
    IN  UNION {BestGroup(cands(j), [k \in cands(j) |-> SigValid(s, k)]) :
                 j \in DOMAIN c.keySets}

(* Whether the keys bound over x take a role (1013-1015): x is owned by    *)
(* the zone itself and is not a DS RRset.                                  *)
MarksRoles(x) == c.isZone /\ c.rrsets[x].apex /\ c.rrsets[x].rdtype # "DS"

(* The diagnostics of 1030-1045 for response r, algs being what           *)
(* algs_signing_rrset[r] holds at the end.                                 *)
MissingErrors(x, r, algs) ==
    LET E == ExpectedAlgs(x)
        kinds == <<"MissingRRSIGForAlgDNSKEY", "MissingRRSIGForAlgDS", "MissingRRSIGForAlgDLV">>
    IN
    IF algs = {}
    THEN IF r \in c.dnssecRequested THEN {<<x, r, "MissingRRSIG", 0>>}
         ELSE IF r \in c.doResponsive THEN {<<x, r, "UnableToRetrieveDNSSECRecords", 0>>}
         ELSE {}
    ELSE UNION {{<<x, r, kinds[i], a>> : a \in E[i] \ algs} : i \in 1..3}

-----------------------------------------------------------------------------
(* _populate_rrsig_status_all resets the fields (1087-1096); rrsig_status  *)
(* is empty and ksks, zsks are empty sets.                                 *)
Init ==
    /\ c \in Corpora
    /\ pc = "next"
    /\ todoRR = RRsetIds
    /\ cur = NoRRset
    /\ todoSigs = {}
    /\ algsSigning = <<>>
    /\ entries = {} /\ bindings = {} /\ rrsetErrors = {}
    /\ ksks = {} /\ zsks = {}
    /\ anchors = {} /\ withDs = {}
    /\ keyErrors = {} /\ keyWarnings = {} /\ exc = "none"

(* has_dname (934-950): the responses whose CNAME was synthesised from a   *)
(* DNAME; only a CNAME RRset is looked at.                                 *)
HasDname(x) == IF c.rrsets[x].rdtype = "CNAME" THEN c.rrsets[x].dname ELSE {}

(* 913-962 for the next RRset x: initialise its maps and, when the zone    *)
(* has any DNSSEC algorithm, track every response that returned x other    *)
(* than through a DNAME.                                                   *)
BeginRRset(x) ==
    /\ pc = "next"
    /\ x \in todoRR
    /\ todoRR' = todoRR \ {x}
    /\ cur' = x
    /\ todoSigs' = c.rrsets[x].sigs
    /\ algsSigning' =
         IF \E i \in 1..3 : ExpectedAlgs(x)[i] # {}
         THEN [r \in c.rrsets[x].served \ HasDname(x) |-> {}]
         ELSE <<>>
    /\ pc' = "sig"
    /\ UNCHANGED <<c, entries, bindings, rrsetErrors, ksks, zsks,
                   anchors, withDs, keyErrors, keyWarnings, exc>>

(* The keys rrsig_status[x][s] ends up with (1004-1027): none for a stub  *)
(* signer, which ends the iteration at 971-972; the bound keys of a known  *)
(* signer; None (NoKey) when there are none or the signer is unknown.      *)
Binding(x, s) ==
    CASE s.signer = "stub"                          -> {}
      [] s.signer = "name" /\ Bound(x, s) # {}      -> Bound(x, s)
      [] OTHER                                      -> {NoKey}

(* Mutant: the key of every recorded binding takes the role, None too.     *)
RoleKeysNoNoneCheck(x, s) == Binding(x, s)

(* The keys that take a role from RRSIG s over x (1013-1019): the bound    *)
(* DNSKEYs, never None.                                                    *)
RoleKeys(x, s) == {k \in Binding(x, s) : k # NoKey}

(* One iteration of the loop at 963-1027 for RRSIG s of the current RRset: *)
(* with a known signer the algorithm is counted for each tracked response  *)
(* that returned s, and a response is dropped once it covers every         *)
(* expected algorithm (974-982); then s gets its bindings, and the keys    *)
(* their roles when x is owned by the zone.                                *)
ProcessSig(s) ==
    LET x      == cur
        hit    == s.served \cap DOMAIN algsSigning
        grown  == [r \in DOMAIN algsSigning |->
                     IF r \in hit THEN algsSigning[r] \cup {s.alg} ELSE algsSigning[r]]
        kept   == {r \in DOMAIN algsSigning : ~(r \in hit /\ CoversAll(x, grown[r]))}
    IN
    /\ pc = "sig"
    /\ s \in todoSigs
    /\ todoSigs' = todoSigs \ {s}
    /\ entries' = entries \cup {<<x, s>>}
    /\ algsSigning' = IF s.signer = "name" THEN [r \in kept |-> grown[r]] ELSE algsSigning
    /\ bindings' = bindings \cup {<<x, s, k>> : k \in Binding(x, s)}
    /\ ksks' = IF MarksRoles(x) /\ c.rrsets[x].rdtype = "DNSKEY"
               THEN ksks \cup RoleKeys(x, s) ELSE ksks
    /\ zsks' = IF MarksRoles(x) /\ c.rrsets[x].rdtype # "DNSKEY"
               THEN zsks \cup RoleKeys(x, s) ELSE zsks
    /\ UNCHANGED <<c, pc, todoRR, cur, rrsetErrors, anchors, withDs, keyErrors, keyWarnings, exc>>

(* 1029-1045: the RRSIG loop is over; report per tracked response.         *)
EndRRset ==
    /\ pc = "sig"
    /\ todoSigs = {}
    /\ rrsetErrors' = rrsetErrors \cup
                        UNION {MissingErrors(cur, r, algsSigning[r]) : r \in DOMAIN algsSigning}
    /\ pc' = "next"
    /\ UNCHANGED <<c, todoRR, cur, todoSigs, algsSigning, entries, bindings, ksks, zsks,
                   anchors, withDs, keyErrors, keyWarnings, exc>>

Done == pc \in {"next", "end"} /\ todoRR = {}

(* The DNSKEY answers of the name: the apex DNSKEY RRsets (whose presence  *)
(* stands for the (name, DNSKEY) query), get_dnskeys() (the union of its   *)
(* DNSKEY sets), the responses that returned each key, and the servers     *)
(* that answered the DNSKEY query (servers_responsive, 1680-1683).          *)
DnskeyRRsets == {x \in RRsetIds : c.rrsets[x].rdtype = "DNSKEY" /\ c.rrsets[x].apex}
Dnskeys == UNION {c.keySets[j] : j \in DOMAIN c.keySets}
KeyServed(k) == UNION {c.rrsets[x].served : x \in {y \in DnskeyRRsets : k \in c.rrsets[y].members}}
ServersResponsive == UNION {c.rrsets[x].served : x \in DnskeyRRsets}

(* revoked_keys (_finalize_key_roles, 1121-1124): keys with the revoke     *)
(* bit, whose tag differs from their pre-revoke tag.                       *)
RevokedKeys == {k \in Dnskeys : KeyTag[k] # KeyTagNoRevoke[k]}

(* Mutant: TrustAnchorNotSigning for every non-signing trust anchor, even  *)
(* when another trust anchor signs.                                        *)
TrustAnchorErrorsPerKey(existing, notSigning) == notSigning

(* 1719-1723: the trust anchors that do not sign are reported only when    *)
(* no trust anchor present signs the DNSKEY RRset.                         *)
TrustAnchorErrors(existing, notSigning) ==
    IF existing \ notSigning = {} THEN notSigning ELSE {}

(* _populate_dnskey_status (1672-1723) once the RRSIGs are evaluated, for  *)
(* trust anchors ta and dnskey_with_ds wds.  Without a DNSKEY query it      *)
(* returns (1673-1674).  For a name that is not a zone revoked_keys is     *)
(* None and the first DNSKEY raises TypeError at 1692.  Otherwise each key *)
(* gets RevokedNotSigning when revoked and not a KSK, and                  *)
(* DNSKEYMissingFromServers when a responsive server did not return it: an *)
(* error for a ZSK, a key with a DS or a trust anchor, else a warning.      *)
DnskeyStatus ==
    /\ Done /\ pc = "next"
    /\ pc' = "end"
    /\ \E ta \in TrustedKeyChoices, wds \in WithDsChoices :
         LET existing   == Dnskeys \cap ta
             notSigning == existing \ ksks
             missing    == {k \in Dnskeys : ServersResponsive \ KeyServed(k) # {}}
             severe     == zsks \cup wds \cup existing
         IN
         /\ anchors' = ta /\ withDs' = wds
         /\ CASE DnskeyRRsets = {} ->
                   UNCHANGED <<keyErrors, keyWarnings, exc>>
               [] ~c.isZone /\ Dnskeys # {} ->
                   /\ exc' = "TypeError"
                   /\ UNCHANGED <<keyErrors, keyWarnings>>
               [] OTHER ->
                   /\ keyErrors' =
                        {<<k, "RevokedNotSigning">> : k \in RevokedKeys \ ksks}
                        \cup {<<k, "DNSKEYMissingFromServers">> : k \in missing \cap severe}
                        \cup {<<k, "TrustAnchorNotSigning">> : k \in TrustAnchorErrors(existing, notSigning)}
                   /\ keyWarnings' = {<<k, "DNSKEYMissingFromServers">> : k \in missing \ severe}
                   /\ UNCHANGED exc
    /\ UNCHANGED <<c, todoRR, cur, todoSigs, algsSigning, entries, bindings, rrsetErrors, ksks, zsks>>

Next ==
    \/ \E x \in RRsetIds : BeginRRset(x)
    \/ \E s \in todoSigs : ProcessSig(s)
    \/ EndRRset
    \/ DnskeyStatus

Spec == Init /\ [][Next]_vars

-----------------------------------------------------------------------------
(* Reference, spec section 4.3.  A response that returned x is checked     *)
(* unless its answer came from a DNAME, and only when the zone has DNSSEC  *)
(* algorithms; the DS and DLV sets do not apply to a DLV RRset.            *)
RefExpected(x) ==
    LET dlv == c.rrsets[x].rdtype = "DLV" IN
    <<c.algsDnskey, IF dlv THEN {} ELSE c.algsDs, IF dlv THEN {} ELSE c.algsDlv>>

RefChecked(x) ==
    IF c.algsDnskey \cup RefExpected(x)[2] \cup RefExpected(x)[3] = {} THEN {}
    ELSE c.rrsets[x].served \ c.rrsets[x].dname

(* The algorithms of the RRSIGs over x that response r returned, of every  *)
(* signer that resolves to a name of the analysis (stub or not).           *)
SignedAlgs(x, r) ==
    {s.alg : s \in {t \in c.rrsets[x].sigs : r \in t.served /\ t.signer # "unknown"}}

RefErrors(x, r) ==
    LET A == SignedAlgs(x, r)
        kind == <<"MissingRRSIGForAlgDNSKEY", "MissingRRSIGForAlgDS", "MissingRRSIGForAlgDLV">>
    IN
    CASE A = {} /\ r \in c.dnssecRequested -> {<<x, r, "MissingRRSIG", 0>>}
      [] A = {} /\ r \in c.doResponsive    -> {<<x, r, "UnableToRetrieveDNSSECRecords", 0>>}
      [] A = {}                             -> {}
      [] OTHER -> UNION {{<<x, r, kind[i], a>> : a \in RefExpected(x)[i] \ A} : i \in 1..3}

(* When every RRset has been evaluated, rrset_errors holds exactly, per    *)
(* checked response, MissingRRSIG (or UnableToRetrieveDNSSECRecords) when  *)
(* it returned no RRSIG, and otherwise one MissingRRSIGForAlg* per         *)
(* expected algorithm none of its RRSIGs has; the early deletion of a      *)
(* covered response (982) and the RRSIG visiting order do not matter.      *)
MissingRRSIGExact ==
    Done => rrsetErrors = UNION {UNION {RefErrors(x, r) : r \in RefChecked(x)} : x \in RRsetIds}

-----------------------------------------------------------------------------
(* Spec 4.3 and the KSK/ZSK invariant of spec section 8, from the corpus. *)
(* RRSIGs that can give a role: those whose signer is a name of the        *)
(* analysis, over the zone's apex DNSKEY RRset (KSK) or over another apex  *)
(* RRset that is not a DS (ZSK), as <<RRset, RRSIG>> pairs.                *)
KskSigs == IF ~c.isZone THEN {}
           ELSE {<<x, s>> \in DnskeyRRsets \X UNION {c.rrsets[y].sigs : y \in DnskeyRRsets} :
                   s \in c.rrsets[x].sigs /\ s.signer = "name"}

ZskRRsets == {y \in RRsetIds : c.rrsets[y].apex /\ c.rrsets[y].rdtype \notin {"DNSKEY", "DS"}}

ZskSigs == IF ~c.isZone THEN {}
           ELSE {<<x, s>> \in ZskRRsets \X UNION {c.rrsets[y].sigs : y \in ZskRRsets} :
                   s \in c.rrsets[x].sigs /\ s.signer = "name"}

(* RRSIG s names key k: same algorithm, and its tag is k's tag before or   *)
(* after the revoke bit.  s was really made by k: k is the key the corpus  *)
(* says signed, the signature is not forged and its algorithm supported.   *)
Claims(s, k) == s.alg = KeyAlg[k] /\ s.tag \in {KeyTag[k], KeyTagNoRevoke[k]}
MadeBy(s, k) == s.by = k /\ ~s.forged /\ s.alg \in SupportedAlgs

(* The keys an RRSIG of P names (Claims) or was made by (MadeBy); a KSK    *)
(* must also be in the DNSKEY RRset it signs.                              *)
ClaimedIn(P) == {k \in Dnskeys : \E p \in P : Claims(p[2], k) /\
                   (p[1] \in DnskeyRRsets => k \in c.rrsets[p[1]].members)}
MadeIn(P)    == {k \in Dnskeys : \E p \in P : MadeBy(p[2], k) /\
                   (p[1] \in DnskeyRRsets => k \in c.rrsets[p[1]].members)}

(* Once every RRset of the zone is evaluated, in whatever RRset, RRSIG and *)
(* DNSKEY-set order, every key that really made an RRSIG over the apex     *)
(* DNSKEY RRset holding it is a KSK, and every key that made one over      *)
(* another apex RRset (not DS) is a ZSK: the spec's KSK/ZSK invariant the  *)
(* other way.  A key has a role only if such an RRSIG names it by          *)
(* algorithm and tag: that invariant, weakened by exactly the tag          *)
(* collisions and forged RRSIGs that 1007-1019 bind by priority group.     *)
(* checked_keys, the self-signature filter and the per-set priority        *)
(* groups must together give this.                                         *)
RolesFromApexSignatures ==
    Done /\ c.isZone =>
        /\ MadeIn(KskSigs) \subseteq ksks /\ ksks \subseteq ClaimedIn(KskSigs)
        /\ MadeIn(ZskSigs) \subseteq zsks /\ zsks \subseteq ClaimedIn(ZskSigs)

(* When the DNSKEY status of a zone is populated (1685-1723), from the     *)
(* roles the bindings left (1688, 1710): TrustAnchorNotSigning goes only   *)
(* to trust anchors of the zone, never while one of them really made a     *)
(* self-signature, and to all of them when no self-signature even names    *)
(* one; DNSKEYMissingFromServers is an error for every missing key that    *)
(* really signed another apex RRset, has a DS or is a trust anchor, and    *)
(* for no missing key that no such RRSIG names and that has neither.  A    *)
(* forged RRSIG or a colliding tag may move a key between the two sides,   *)
(* never outside them.                                                     *)
KeyDiagnosticsFromSigners ==
    pc = "end" /\ exc = "none" /\ DnskeyRRsets # {} =>
        LET existing == Dnskeys \cap anchors
            missing  == {k \in Dnskeys : ServersResponsive \ KeyServed(k) # {}}
            taErr    == {k \in Keys : <<k, "TrustAnchorNotSigning">> \in keyErrors}
            missErr  == {k \in Keys : <<k, "DNSKEYMissingFromServers">> \in keyErrors}
        IN  /\ taErr \subseteq existing
            /\ existing \cap MadeIn(KskSigs) # {} => taErr = {}
            /\ existing \cap ClaimedIn(KskSigs) = {} => taErr = existing
            /\ missing \cap (MadeIn(ZskSigs) \cup withDs \cup existing) \subseteq missErr
            /\ missErr \subseteq missing \cap (ClaimedIn(ZskSigs) \cup withDs \cup existing)
====
