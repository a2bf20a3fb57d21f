------------------------- MODULE MCNegativeResponse -------------------------
(***************************************************************************)
(* Corpora for NegativeResponse: two triples r1, r2 returned the negative  *)
(* answer, each behaving as one of five profiles; up to two SOA RRsets     *)
(* and up to two NSEC sets, in each order that matters; the same NSEC     *)
(* lists for one wildcard name.                                            *)
(***************************************************************************)
EXTENDS NegativeResponse

CONSTANTS r1, r2

MCResps == {r1, r2}

DO == 32768   \* the DO bit of the EDNS flags

(* A response with EDNS 0 and DO echoed unchanged, no retry cause.        *)
Plain(auth, rd, ra) ==
    [qEdns |-> 0, mEdns |-> 0, effEdns |-> 0, cause |-> "none",
     causeRcode |-> "REFUSED", qFlags |-> DO, effFlags |-> DO, pmtu |-> FALSE,
     probe |-> TRUE, auth |-> auth, rd |-> rd, ra |-> ra]

Prof(rdra, up, dr, dw, na) ==
    [upward |-> up, doReq |-> dr, doResp |-> dw, msg |-> Plain(~na, rdra, rdra)]

(* Plain authoritative with DO; an upward referral flagged not            *)
(* authoritative; recursive without DO; not authoritative without DO to a *)
(* server that drops DO; a recursive upward referral without DO.          *)
Profiles ==
    {Prof(FALSE, FALSE, TRUE, TRUE, FALSE), Prof(FALSE, TRUE, TRUE, TRUE, TRUE),
     Prof(TRUE, FALSE, FALSE, TRUE, FALSE), Prof(FALSE, FALSE, FALSE, FALSE, TRUE),
     Prof(TRUE, TRUE, FALSE, FALSE, TRUE)}

(* A query of the name with the given infos; answers and NODATA infos    *)
(* with their responses, those with RD and RA, and the upward referrals. *)
Qry(qn, t, I, ref) == [qn |-> qn, rdtype |-> t, infos |-> I, referral |-> ref]
Ans(o, S) == [kind |-> "ans", qname |-> o, sc |-> S, rdra |-> {}, upward |-> {}]
Nd(o, S, R, U) == [kind |-> "nodata", qname |-> o, sc |-> S, rdra |-> R, upward |-> U]
Nx(o, S) == [kind |-> "nx", qname |-> o, sc |-> S, rdra |-> {}, upward |-> {}]

(* The info, for a query for the name or for another name, alone.        *)
Alone(isQ) == [qname |-> "N", q |-> Qry(IF isQ THEN "N" ELSE "P", "A", {}, FALSE),
               others |-> {}, qErrors |-> {}]

Soa(o, S) == [owner |-> o, served |-> S]
Nsec(v, S) == [valid |-> v, served |-> S]

(* No SOA; the zone's for one triple; another owner's for both; one of    *)
(* each; and r1 in two SOA RRsets (servers that disagree on the SOA).     *)
SoaLists ==
    {<<>>, <<Soa("zone", {r1})>>, <<Soa("other", {r1, r2})>>,
     <<Soa("zone", {r1}), Soa("other", {r2})>>,
     <<Soa("zone", {r1}), Soa("other", {r1})>>}

(* No NSEC set; one valid; one invalid for both; valid then invalid for   *)
(* r1; invalid for r2 then valid for both.                                *)
NsecLists ==
    {<<>>, <<Nsec(TRUE, {r1})>>, <<Nsec(FALSE, {r1, r2})>>,
     <<Nsec(TRUE, {r1}), Nsec(FALSE, {r1, r2})>>,
     <<Nsec(FALSE, {r2}), Nsec(TRUE, {r1, r2})>>}

NegativeCorpora ==
    {[kind |-> k, qnameObj |-> TRUE, all |-> MCResps, isQname |-> q, signed |-> sg,
      atype |-> "authoritative", resp |-> rp, soas |-> so, nsecs |-> ns] @@ Alone(q) :
        k \in {"NODATA", "NXDOMAIN"}, q \in BOOLEAN, sg \in BOOLEAN,
        rp \in [MCResps -> Profiles], so \in SoaLists, ns \in NsecLists}

(* One wildcard name of an answer RRset, with or without a qname_obj.     *)
WildcardCorpora ==
    {[kind |-> "WILDCARD", qnameObj |-> qo, all |-> MCResps, isQname |-> FALSE,
      signed |-> TRUE, atype |-> "authoritative", resp |-> rp, soas |-> <<>>, nsecs |-> ns]
        @@ Alone(FALSE) :
        qo \in BOOLEAN, rp \in [MCResps -> Profiles], ns \in NsecLists}

(* Retry causes, with a legitimate and an illegitimate RCODE.            *)
Causes == {<<"none", "REFUSED">>, <<"NETWORK_ERROR", "REFUSED">>,
           <<"FORMERR", "REFUSED">>, <<"TIMEOUT", "REFUSED">>,
           <<"RCODE", "SERVFAIL">>, <<"RCODE", "REFUSED">>, <<"OTHER", "REFUSED">>}

(* Requested and effective EDNS flags: unchanged; DO dropped; only bit 0  *)
(* dropped; DO and bit 0 dropped; bit 0 dropped with DO kept.             *)
FlagPairs == {<<DO, DO>>, <<DO, 0>>, <<1, 0>>, <<DO + 1, 0>>, <<DO + 1, DO>>}

(* AA, RD, RA: authoritative; RD without RA; recursive.                   *)
Bits == {<<TRUE, FALSE, FALSE>>, <<FALSE, TRUE, FALSE>>, <<TRUE, TRUE, TRUE>>}

Msg(qe, me, ee, ca, fl, pm, pr, b) ==
    [qEdns |-> qe, mEdns |-> me, effEdns |-> ee, cause |-> ca[1],
     causeRcode |-> ca[2], qFlags |-> fl[1], effFlags |-> fl[2], pmtu |-> pm,
     probe |-> pr, auth |-> b[1], rd |-> b[2], ra |-> b[3]]

(* No EDNS requested; EDNS dropped by the server or by the fallback; EDNS *)
(* used, with a version, payload or flag difference.                      *)
Msgs ==
    {Msg(-1, -1, -1, <<"none", "REFUSED">>, <<0, 0>>, FALSE, TRUE, b) : b \in Bits}
    \cup {Msg(0, -1, ee, ca, <<DO, DO>>, FALSE, pr, b) :
            ee \in {-1, 0}, ca \in Causes, pr \in BOOLEAN, b \in Bits}
    \cup {Msg(0, me, 0, ca, fl, pm, pr, b) :
            me \in {0, 1}, ca \in Causes, fl \in FlagPairs, pm \in BOOLEAN,
            pr \in BOOLEAN, b \in Bits}

(* Every response shape for r1, next to a plain r2, in a NODATA answer    *)
(* both returned with SOA and a valid NSEC set.                           *)
ClassifierCorpora ==
    {[kind |-> "NODATA", qnameObj |-> TRUE, all |-> MCResps, isQname |-> TRUE,
      signed |-> sg, atype |-> at,
      resp |-> (r1 :> [upward |-> FALSE, doReq |-> TRUE, doResp |-> TRUE, msg |-> m])
            @@ (r2 :> [upward |-> FALSE, doReq |-> TRUE, doResp |-> TRUE,
                       msg |-> Plain(TRUE, FALSE, FALSE)]),
      soas |-> <<Soa("zone", MCResps)>>, nsecs |-> <<Nsec(TRUE, MCResps)>>] @@ Alone(TRUE) :
        sg \in BOOLEAN, at \in {"authoritative", "recursive"}, m \in Msgs}

(* What C3 tells apart: plain authoritative, an upward referral, and a    *)
(* recursive response.                                                    *)
NameProfiles ==
    {Prof(FALSE, FALSE, TRUE, TRUE, FALSE), Prof(FALSE, TRUE, TRUE, TRUE, TRUE),
     Prof(TRUE, FALSE, FALSE, TRUE, FALSE)}

(* The name's other queries, around a negative answer for Q: none; an   *)
(* answer owned by Q at r1 to an MX query, or to a DS query (proof of     *)
(* existence the cross-check skips); a NODATA for Q from an upward        *)
(* referral at r2, alone or with that DS answer; a recursive NODATA for Q *)
(* at r2; a proper referral to N, or to the probe P; an NXDOMAIN for the   *)
(* probe; two MX queries answering Q at r1 and r2.                         *)
OtherChoices(Q) ==
    {{}, {Qry("N", "MX", {Ans(Q, {r1})}, FALSE)}, {Qry("N", "DS", {Ans(Q, {r1})}, FALSE)},
     {Qry("N", "MX", {Nd(Q, {r2}, {}, {r2})}, FALSE)},
     {Qry("N", "MX", {Nd(Q, {r2}, {}, {r2})}, FALSE), Qry("N", "DS", {Ans(Q, {r1})}, FALSE)},
     {Qry("P", "MX", {Nd(Q, {r2}, {r2}, {})}, FALSE)},
     {Qry("N", "NS", {}, TRUE)}, {Qry("P", "NS", {}, TRUE)},
     {Qry("P", "A", {Nx("P", {r1})}, FALSE)},
     {Qry("N", "MX", {Ans(Q, {r1})}, FALSE), Qry("P", "MX", {Ans(Q, {r2})}, FALSE)}}

(* An NXDOMAIN or NODATA answer for N or P, to a query for N or P of an   *)
(* ordinary, DS or DLV type, with SOA and a valid NSEC set from both      *)
(* triples, among each choice of the name's other queries.                *)
NameCorpora ==
    UNION {{[kind |-> k, qnameObj |-> TRUE, all |-> MCResps, isQname |-> Q = qn,
             signed |-> TRUE, atype |-> "authoritative", resp |-> rp,
             soas |-> <<Soa("zone", MCResps)>>, nsecs |-> <<Nsec(TRUE, MCResps)>>,
             qname |-> Q, q |-> Qry(qn, t, {}, FALSE), others |-> O, qErrors |-> {}] :
               k \in {"NODATA", "NXDOMAIN"}, rp \in [MCResps -> NameProfiles],
               O \in {X \in OtherChoices(Q) : \A o \in X : <<o.qn, o.rdtype>> # <<qn, t>>}} :
           Q \in Names, qn \in Names, t \in {"A", "DS", "DLV"}}

(* Error infos: one per code, with every retry history of up to two      *)
(* entries for a timeout and every EDNS version and RCODE for an invalid  *)
(* RCODE; and a FORMERR with a timeout.                                   *)
EI(code, ee, rc, h) == [code |-> code, effEdns |-> ee, rcode |-> rc, history |-> h]

Histories == {<<>>} \cup {<<a>> : a \in RetryActions} \cup
             {<<a, b>> : a \in RetryActions, b \in RetryActions}

ErrorChoices ==
    {{EI("NETWORK_ERROR", 0, "REFUSED", <<>>)}, {EI("FORMERR", 0, "REFUSED", <<>>)},
     {EI("OTHER", 0, "REFUSED", <<>>)},
     {EI("FORMERR", 0, "REFUSED", <<>>), EI("TIMEOUT", 0, "REFUSED", <<"OTHER">>)}}
    \cup {{EI("TIMEOUT", 0, "REFUSED", h)} : h \in Histories}
    \cup {{EI("INVALID_RCODE", ee, rc, <<>>)} :
            ee \in {-1, 0, 1}, rc \in {"FORMERR", "SERVFAIL", "NOTIMP", "BADVERS", "REFUSED"}}

(* A plain NODATA answer to a query that also has those error infos.      *)
InvalidCorpora ==
    {[kind |-> "NODATA", qnameObj |-> TRUE, all |-> MCResps, isQname |-> TRUE,
      signed |-> TRUE, atype |-> "authoritative",
      resp |-> [r \in MCResps |-> Prof(FALSE, FALSE, TRUE, TRUE, FALSE)],
      soas |-> <<Soa("zone", MCResps)>>, nsecs |-> <<Nsec(TRUE, MCResps)>>]
     @@ [Alone(TRUE) EXCEPT !.qErrors = E] : E \in ErrorChoices}

MCCorpora == NegativeCorpora \cup WildcardCorpora \cup ClassifierCorpora \cup NameCorpora
             \cup InvalidCorpora
====
