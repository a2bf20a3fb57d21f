------------------------- MODULE MCDelegationStatus -------------------------
(***************************************************************************)
(* Corpora for DelegationStatus.  Three keys:                              *)
(*   kA  algorithm 8, tag 10;                                              *)
(*   kB  algorithm 13, tag 20;                                             *)
(*   kR  algorithm 8, revoked: tag 31, tag 30 before the revoke bit.       *)
(* Two DNSKEY responses r1, r2.  Digest type 2 is supported, 99 is not.    *)
(***************************************************************************)
EXTENDS DelegationStatus, TLC

CONSTANTS kA, kB, kR, r1, r2

MCKeys == {kA, kB, kR}
MCKeyAlg == (kA :> 8) @@ (kB :> 13) @@ (kR :> 8)
MCKeyTag == (kA :> 10) @@ (kB :> 20) @@ (kR :> 31)
MCKeyTagNoRevoke == (kA :> 10) @@ (kB :> 20) @@ (kR :> 30)
MCSupportedAlgs == {8, 13}
MCSupportedDigests == {2}
MCResponses == {r1, r2}

DS(alg, tag, digest, of) == [alg |-> alg, tag |-> tag, digest |-> digest, of |-> of]

dA   == DS(8, 10, 2, kA)       \* the DS of kA
dAx  == DS(8, 10, 2, NoKey)    \* tag and algorithm of kA, digest of no key
dA99 == DS(8, 10, 99, kA)      \* kA under an unsupported digest type
dB   == DS(13, 20, 2, kB)      \* the DS of kB
dR   == DS(8, 30, 2, kR)       \* the DS of kR minted before its revocation

(* RRSIGs over the DNSKEY RRset, without the responses that served them.   *)
Sig(by, tag, forged, expired) ==
    [alg |-> MCKeyAlg[by], tag |-> tag, by |-> by, forged |-> forged, expired |-> expired]

SigKinds ==
    {Sig(kA, 10, FALSE, FALSE), Sig(kA, 10, TRUE, FALSE), Sig(kA, 10, FALSE, TRUE),
     Sig(kB, 20, FALSE, FALSE), Sig(kR, 31, FALSE, FALSE)}

Served(x, srv) == [alg |-> x.alg, tag |-> x.tag, by |-> x.by, forged |-> x.forged,
                   expired |-> x.expired, served |-> srv]

(* Every choice, per kind of RRSIG, of absent / returned by r1 / by both.  *)
SigSets(kinds) ==
    {{Served(x, c[x]) : x \in {y \in kinds : c[y] # {}}} :
        c \in [kinds -> {{}, {r1}, {r1, r2}}]}

Corpus(answers, sets, sigs, usable, parentSigned, nsecProof, servers, nx, rdtype, q) ==
    [answers |-> answers, dnskeySets |-> sets, sigs |-> sigs, usable |-> usable,
     dsQuery |-> q, parentSigned |-> parentSigned, nsecProof |-> nsecProof,
     servers |-> servers, dsNxdomain |-> nx, rdtype |-> rdtype]

(* The SEP logic: one or two DS RRsets against one DNSKEY RRset holding    *)
(* all keys, or against two RRsets where a second server returned kA only. *)
SepInputs ==
    {Corpus(ans, <<MCKeys>>, <<sg>>, {r1, r2}, TRUE, FALSE, "ok", FALSE, "DS", TRUE) :
        ans \in {<<{dA}>>, <<{dAx}>>, <<{dA99}>>, <<{dA, dB}>>, <<{dR}>>,
                 <<{dAx, dB}>>, <<{dA}, {dA, dB}>>, <<CnameAnswer, {dB}>>},
        sg \in SigSets(SigKinds)}
    \cup
    {Corpus(ans, <<{kA, kB}, {kA}>>, <<sg1, sg2>>, {r1, r2}, TRUE, FALSE, "ok", FALSE, "DS", TRUE) :
        ans \in {<<{dA}>>, <<{dA, dB}>>},
        sg1 \in SigSets({Sig(kA, 10, TRUE, FALSE), Sig(kB, 20, FALSE, FALSE)}),
        sg2 \in SigSets({Sig(kA, 10, FALSE, FALSE)})}

(* The fallback rules: no or unusable DS RRsets under every combination of *)
(* parent signedness, NSEC proof, server state, NXDOMAIN and rdtype; no    *)
(* usable DNSKEY response; a name without a DS query.                      *)
FallbackInputs ==
    {Corpus(ans, <<{kA}>>, <<{Served(Sig(kA, 10, FALSE, FALSE), {r1})}>>, us,
            ps, np, sv, nx, rt, TRUE) :
        ans \in {<<>>, <<CnameAnswer>>, <<{dA99}>>, <<{dAx}>>, <<{dA}>>},
        us \in {{}, {r1}}, ps \in BOOLEAN, np \in BOOLEAN,
        sv \in {"ok", "none", "unresponsive", "invalid", "noauth"},
        nx \in BOOLEAN, rt \in {"DS", "DLV"}}
    \cup
    {Corpus(<<>>, <<>>, <<>>, {}, FALSE, FALSE, "ok", FALSE, "DS", FALSE)}

MCInputs == SepInputs \cup FallbackInputs

(* Spec scenario 2: the secure chain of scenario 1 with digest type 99.    *)
Scenario2Inputs ==
    {Corpus(<<{dA99}>>, <<{kA, kB}>>,
            <<{Served(Sig(kA, 10, FALSE, FALSE), {r1, r2}),
               Served(Sig(kB, 20, FALSE, FALSE), {r1, r2})}>>,
            {r1, r2}, TRUE, FALSE, "ok", FALSE, "DS", TRUE)}
=============================================================================
