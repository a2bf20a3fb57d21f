--------------------------- MODULE MCRRSIGStatus ----------------------------
(***************************************************************************)
(* Corpora for RRSIGStatus.  Keys kA (algorithm 8, tag 10), kB (13, 20)    *)
(* and kX (8, 10): kX collides with kA on algorithm and key tag.  Two      *)
(* responses r1, r2; two answer RRsets, xK (the apex DNSKEY RRset) and xS  *)
(* (another RRset).                                                        *)
(***************************************************************************)
EXTENDS RRSIGStatus, TLC

CONSTANTS kA, kB, kX, r1, r2, xK, xS

MCKeys == {kA, kB, kX}
MCKeyAlg == (kA :> 8) @@ (kB :> 13) @@ (kX :> 8)
MCKeyTag == (kA :> 10) @@ (kB :> 20) @@ (kX :> 10)
MCSupportedAlgs == {8, 13}
MCSupportedDigests == {2}
MCResponses == {r1, r2}
MCRRsetIds == {xK, xS}

(* Trust anchors: none, a signing key, one that may not sign, the          *)
(* colliding kX (never in the DNSKEY RRset), both kA and kB.  kX as the   *)
(* one key C6 bound to a DS, or none.                                      *)
MCTrustedKeyChoices == {{}, {kA}, {kB}, {kX}, {kA, kB}}
MCWithDsChoices == {{}, {kX}}

Sig(by, forged, signer, served) ==
    [alg |-> MCKeyAlg[by], tag |-> MCKeyTag[by], by |-> by, forged |-> forged,
     expired |-> FALSE, served |-> served, signer |-> signer]

(* Each RRSIG kind absent, returned by r1 only, or by both responses.      *)
SigSets(kinds) ==
    {{Sig(k[1], k[2], k[3], f[k]) : k \in {y \in kinds : f[y] # {}}} :
        f \in [kinds -> {{}, {r1}, {r1, r2}}]}

RRset(rdtype, apex, members, dname, sigs) ==
    [rdtype |-> rdtype, apex |-> apex, members |-> members, served |-> {r1, r2},
     dname |-> dname, sigs |-> sigs]

Corpus(isZone, sets, dk, ds, req, rK, rS) ==
    [isZone |-> isZone, keySets |-> sets, algsDnskey |-> dk, algsDs |-> ds, algsDlv |-> {},
     dnssecRequested |-> req, doResponsive |-> {r2}, rrsets |-> (xK :> rK) @@ (xS :> rS)]

(* kA signs the DNSKEY RRset (or a forged RRSIG claims it did), kB signs   *)
(* both; an RRSIG over xS may also name a signer outside the analysis.     *)
KSigKinds == {<<kA, FALSE, "name">>, <<kA, TRUE, "name">>, <<kB, FALSE, "name">>}
SSigKinds == {<<kB, FALSE, "name">>, <<kA, FALSE, "name">>, <<kB, FALSE, "unknown">>}

(* Signer DNSKEY sets: one set, one set holding the colliding kX (not a    *)
(* member of the DNSKEY RRset, so the self-signature filter drops it), two *)
(* overlapping sets.                                                       *)
KeySetChoices == {<<{kA, kB}>>, <<{kA, kB, kX}>>, <<{kA}, {kA, kB}>>}

(* The second RRset: the zone's SOA, or, with responses in dn, a CNAME of *)
(* another owner that those responses synthesised from a DNAME.          *)
SecondRRset(dn, ss) ==
    IF dn = {} THEN RRset("SOA", TRUE, {}, {}, ss) ELSE RRset("CNAME", FALSE, {}, dn, ss)

PassCorpora ==
    {Corpus(TRUE, sets, {8, 13}, ds, req,
            RRset("DNSKEY", TRUE, {kA, kB}, {}, sk), SecondRRset(dn, ss)) :
        sets \in KeySetChoices, ds \in {{}, {8}}, req \in {{r1}, {r1, r2}},
        dn \in {{}, {r2}}, sk \in SigSets(KSigKinds), ss \in SigSets(SSigKinds)}
    \cup
    (* the other RRset types and owners, a non-zone, a zone without DNSSEC *)
    {Corpus(z, <<{kA, kB}>>, dk, {8}, {r1},
            RRset("DNSKEY", TRUE, {kA, kB}, {}, {Sig(kA, FALSE, "name", {r1, r2})}),
            RRset(t, apex, {}, {}, {Sig(kB, FALSE, "name", {r1}), Sig(kA, FALSE, "name", {r2})})) :
        z \in BOOLEAN, dk \in {{}, {8, 13}}, t \in {"A", "DS", "DLV"}, apex \in BOOLEAN}

(* An RRSIG over xS by kB whose signer is a stub, returned by r1 only.     *)
StubCorpora ==
    {Corpus(TRUE, <<{kA, kB}>>, {8, 13}, {}, {r1, r2},
            RRset("DNSKEY", TRUE, {kA, kB}, {},
                  {Sig(kA, FALSE, "name", {r1, r2}), Sig(kB, FALSE, "name", {r1, r2})}),
            RRset("SOA", TRUE, {}, {},
                  {Sig(kB, FALSE, "stub", {r1}), Sig(kA, FALSE, "name", {r1, r2})}))}

(* kX, which made the RRSIG over xS, was returned only by a second server  *)
(* (the second DNSKEY set); kA, with the same tag, is in the first.        *)
CollisionCorpora ==
    {Corpus(TRUE, <<{kA, kB}, {kX}>>, {8, 13}, {}, {r1, r2},
            RRset("DNSKEY", TRUE, {kA, kB}, {},
                  {Sig(kA, FALSE, "name", {r1, r2}), Sig(kB, FALSE, "name", {r1, r2})}),
            RRset("SOA", TRUE, {}, {},
                  {Sig(kX, FALSE, "name", {r1, r2}), Sig(kB, FALSE, "name", {r1, r2})}))}

(* One DNSKEY set holding kA, kB and kX, which share algorithm and tag.    *)
(* kX is in the DNSKEY RRset, or only in another server's (so it is       *)
(* missing from r1 and r2 and the self-signature filter drops it).  Any    *)
(* subset of RRSIGs: valid ones by kA, kB or kX, forged ones claiming kA   *)
(* or kX, over the DNSKEY RRset and over the SOA RRset.                    *)
ForgedCollisionCorpora ==
    {Corpus(TRUE, <<{kA, kB, kX}>>, {8, 13}, {}, {r1, r2},
            RRset("DNSKEY", TRUE, mem, {}, sk), RRset("SOA", TRUE, {}, {}, ss)) :
        mem \in {{kA, kB}, {kA, kB, kX}},
        sk \in SUBSET {Sig(kA, FALSE, "name", {r1, r2}), Sig(kA, TRUE, "name", {r1, r2}),
                       Sig(kB, FALSE, "name", {r1, r2}), Sig(kX, TRUE, "name", {r1, r2})},
        ss \in SUBSET {Sig(kA, FALSE, "name", {r1, r2}), Sig(kA, TRUE, "name", {r1, r2}),
                       Sig(kX, FALSE, "name", {r1, r2}), Sig(kX, TRUE, "name", {r1, r2})}}

(* The corpora of rrsig_pass.                                              *)
RRSIGPassCorpora == PassCorpora \cup CollisionCorpora \cup ForgedCollisionCorpora
====
