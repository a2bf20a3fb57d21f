--------------------------- MODULE ResponseErrors ---------------------------
(***************************************************************************)
(* The response-error classifier, _populate_response_errors               *)
(* (src/dnsviz/analysis/offline.py 689-858), as operators over one        *)
(* response: what it files as warnings and as errors, and whether it      *)
(* raises.  Spec section 4.7 gives the reference (SpecResponseErrors).     *)
(*                                                                         *)
(* A response keeps the fields the classifier reads: the EDNS version of   *)
(* the request, of the response message and of the effective request, the *)
(* retry cause at responsive_cause_index ("none" for None) and its RCODE,  *)
(* the requested and effective EDNS flags (16-bit integers), a payload     *)
(* mismatch, the answer of the server_responsive_* probe that decides      *)
(* query_specific, and the AA, RD and RA bits.  Error texts (errno names,  *)
(* message sizes, attempt counts) are left out.                            *)
(*                                                                         *)
(* It also models _populate_invalid_response_status (1054-1084), which    *)
(* files the errors of a query's error infos: there the Timeout attempt   *)
(* count is kept, since it is computed from the retry history.            *)
(***************************************************************************)
EXTENDS Integers, Bitwise, Sequences, FiniteSetsExt

CONSTANT
    InvalidResponseKinds   \* the error classes derived from InvalidResponseError

RetryCauses == {"NETWORK_ERROR", "FORMERR", "TIMEOUT", "RCODE", "OTHER"}

ResponseFieldsType ==
    [qEdns: {-1, 0}, mEdns: {-1, 0, 1}, effEdns: {-1, 0},
     cause: RetryCauses \cup {"none"},
     causeRcode: {"FORMERR", "SERVFAIL", "NOTIMP", "REFUSED"},
     qFlags: 0..65535, effFlags: 0..65535, pmtu: BOOLEAN, probe: BOOLEAN,
     auth: BOOLEAN, rd: BOOLEAN, ra: BOOLEAN]

(* The highest EDNS flag bit the flag loop tests (range(15, -1, -1)).      *)
TopFlagBit == 15

(* An error: its class, the wrapped response error, the flag and          *)
(* query_specific where the class has them.                               *)
NoErr == [kind |-> "none", inner |-> "none", flag |-> 0, qs |-> FALSE]
Err(k) == [NoErr EXCEPT !.kind = k]

(* The response error each retry cause stands for.                        *)
CauseInner ==
    [k \in RetryCauses |->
        CASE k = "NETWORK_ERROR" -> "NetworkError"
          [] k = "FORMERR"       -> "FormError"
          [] k = "TIMEOUT"       -> "Timeout"
          [] k = "RCODE"         -> "InvalidRcode"
          [] k = "OTHER"         -> "UnknownResponseError"]

(* RCODEs that are a legitimate reason to fall back from EDNS (727).      *)
LegitFallbackRcodes == {"FORMERR", "SERVFAIL", "NOTIMP"}

-----------------------------------------------------------------------------
(* The fallback taxonomy without the legitimate-RCODE exemption of 727.    *)
EdnsFallbackErrorAnyRcode(x) ==
    CASE x.effEdns >= 0 -> Err("EDNSIgnored")
      [] x.cause = "none" -> NoErr
      [] OTHER          -> [kind |-> "ResponseErrorWithEDNS",
                            inner |-> CauseInner[x.cause], flag |-> 0, qs |-> x.probe]

(* 697-759: the response has no EDNS.  If the effective request had none  *)
(* either, the cause that made EDNS be dropped is wrapped in              *)
(* ResponseErrorWithEDNS (none for a legitimate RCODE or no cause); if it *)
(* had EDNS, the server ignored it.                                       *)
EdnsFallbackError(x) ==
    CASE x.effEdns >= 0 -> Err("EDNSIgnored")
      [] x.cause = "none" \/ (x.cause = "RCODE" /\ x.causeRcode \in LegitFallbackRcodes)
                        -> NoErr
      [] OTHER          -> [kind |-> "ResponseErrorWithEDNS",
                            inner |-> CauseInner[x.cause], flag |-> 0, qs |-> x.probe]

(* 768-775: the response used EDNS: a version other than the request's,   *)
(* and a payload other than the request's, are warnings.                   *)
EdnsUsageWarnings(x) ==
    (IF x.mEdns # x.qEdns THEN {Err("UnsupportedEDNSVersion")} ELSE {}) \cup
    (IF x.pmtu THEN {Err("PMTUExceeded")} ELSE {})

(* 779-832: the flags from bit i down to bit lo; the first flag that      *)
(* differs between request and effective request, when a retry cause is   *)
(* known, gives a ResponseErrorWithEDNSFlag and ends the loop.             *)
RECURSIVE FlagLoop(_, _, _)
FlagLoop(x, i, lo) ==
    IF i < lo THEN NoErr
    ELSE LET f == 2^i IN
         IF (x.qFlags & f) # (x.effFlags & f) /\ x.cause \in RetryCauses
         THEN [kind |-> "ResponseErrorWithEDNSFlag", inner |-> CauseInner[x.cause],
               flag |-> f, qs |-> x.probe]
         ELSE FlagLoop(x, i - 1, lo)

(* The loop as range(15, 0, -1), which never tests bit 0.                 *)
FlagErrorSkipBit0(x, i) == FlagLoop(x, i, 1)

(* 777-778: for i in range(15, -1, -1).                                    *)
FlagError(x, i) == FlagLoop(x, i, 0)

(* 689-858 for a qname_obj that is not None: the one EDNS error is filed   *)
(* as a warning if it is an InvalidResponseError or the zone is unsigned,  *)
(* else as an error; 835-836 raise when flags differ, a cause is known and *)
(* no flag error was found; then NotAuthoritative (authoritative analysis) *)
(* or RecursionNotAvailable (recursive analysis).                         *)
Classify(x, signed, atype) ==
    LET fallback == x.qEdns >= 0 /\ x.mEdns < 0
        used == x.qEdns >= 0 /\ x.mEdns >= 0
        flagsDiffer == used /\ x.qFlags # x.effFlags
        err == CASE fallback    -> EdnsFallbackError(x)
                 [] flagsDiffer -> FlagError(x, TopFlagBit)
                 [] OTHER       -> NoErr
        toWarnings == err.kind \in InvalidResponseKinds \/ ~signed
        filed == IF err = NoErr THEN {} ELSE {err}
    IN  [warnings |-> (IF used THEN EdnsUsageWarnings(x) ELSE {}) \cup
                      (IF toWarnings THEN filed ELSE {}),
         errors   |-> (IF toWarnings THEN {} ELSE filed) \cup
                      (IF atype = "recursive" /\ x.rd /\ ~x.ra
                       THEN {Err("RecursionNotAvailable")} ELSE {}),
         notAuth  |-> atype = "authoritative" /\ ~x.auth,
         raises   |-> flagsDiffer /\ err = NoErr /\ x.cause # "none"]

-----------------------------------------------------------------------------
(* Q.RESPONSE_ERROR_* codes of an error info.                             *)
ErrorCodes == {"NETWORK_ERROR", "FORMERR", "TIMEOUT", "INVALID_RCODE", "OTHER"}

(* Retry actions of a history entry: a switch of transport, or any other. *)
RetryActions == {"USE_TCP", "USE_UDP", "OTHER"}

(* An error info with the response it carries: its effective EDNS        *)
(* version, RCODE and retry history.                                       *)
ErrorInfoType ==
    [code: ErrorCodes, effEdns: {-1, 0, 1},
     rcode: {"FORMERR", "SERVFAIL", "NOTIMP", "BADVERS", "REFUSED"},
     history: Seq(RetryActions)]

(* An entry of response_errors[query].                                    *)
RespErr(k, n, rc) == [kind |-> k, attempts |-> n, rcode |-> rc]

(* The backward loop that never meets the transport switch.               *)
RECURSIVE TimeoutAttempts(_, _)
TimeoutAttemptsNoBreak(h, i) == IF i < 1 THEN 1 ELSE 1 + TimeoutAttempts(h, i - 1)

(* 1064-1068: attempts starts at 1 and counts the history entries from    *)
(* the last back to the first one whose action switched transport.        *)
TimeoutAttempts(h, i) ==
    IF i < 1 \/ h[i] \in {"USE_TCP", "USE_UDP"} THEN 1
    ELSE 1 + TimeoutAttempts(h, i - 1)

(* 1071-1080: an invalid RCODE is legitimate with EDNS for FORMERR,        *)
(* SERVFAIL and NOTIMP, and with an EDNS version above 0 for BADVERS.      *)
LegitInvalidRcode(e) ==
    \/ e.effEdns >= 0 /\ e.rcode \in LegitFallbackRcodes
    \/ e.effEdns > 0 /\ e.rcode = "BADVERS"

(* 1056-1084: the error one error info files in response_errors[query].   *)
(* insert_into_list merges equal errors, so a query's list is a set.      *)
InvalidResponseErrors(e) ==
    CASE e.code = "NETWORK_ERROR" -> {RespErr("NetworkError", 0, "none")}
      [] e.code = "FORMERR"       -> {RespErr("FormError", 0, "none")}
      [] e.code = "TIMEOUT"       ->
             {RespErr("Timeout", TimeoutAttempts(e.history, Len(e.history)), "none")}
      [] e.code = "INVALID_RCODE" ->
             IF LegitInvalidRcode(e) THEN {} ELSE {RespErr("InvalidRcode", 0, e.rcode)}
      [] e.code = "OTHER"         -> {RespErr("UnknownResponseError", 0, "none")}

-----------------------------------------------------------------------------
(* Spec section 4.7, read as a reference: the EDNS fallback taxonomy, the  *)
(* usage warnings, and one ResponseErrorWithEDNSFlag per flag the          *)
(* effective query disabled, with the same cause-to-error taxonomy; filed  *)
(* as errors in a signed zone unless an InvalidResponseError.              *)
SpecResponseErrors(x, signed, atype) ==
    LET fallback == x.qEdns >= 0 /\ x.mEdns < 0
        used == x.qEdns >= 0 /\ x.mEdns >= 0
        disabled == {i \in 0..TopFlagBit :
                        (x.qFlags & 2^i) # 0 /\ (x.effFlags & 2^i) = 0}
        innerOf == [k \in RetryCauses |->
                       CASE k = "NETWORK_ERROR" -> "NetworkError"
                         [] k = "FORMERR"       -> "FormError"
                         [] k = "TIMEOUT"       -> "Timeout"
                         [] k = "RCODE"         -> "InvalidRcode"
                         [] k = "OTHER"         -> "UnknownResponseError"]
        skipped == x.cause = "RCODE" /\ x.causeRcode \in {"FORMERR", "SERVFAIL", "NOTIMP"}
        E == (IF fallback /\ x.effEdns >= 0 THEN {Err("EDNSIgnored")} ELSE {}) \cup
             (IF fallback /\ x.effEdns < 0 /\ x.cause \in RetryCauses /\ ~skipped
              THEN {[kind |-> "ResponseErrorWithEDNS", inner |-> innerOf[x.cause],
                     flag |-> 0, qs |-> x.probe]}
              ELSE {}) \cup
             (IF used /\ x.cause \in RetryCauses
              THEN {[kind |-> "ResponseErrorWithEDNSFlag", inner |-> innerOf[x.cause],
                     flag |-> 2^i, qs |-> x.probe] : i \in disabled}
              ELSE {})
        W == {e \in E : e.kind \in InvalidResponseKinds \/ ~signed}
    IN  [warnings |-> (IF used THEN EdnsUsageWarnings(x) ELSE {}) \cup W,
         errors   |-> (E \ W) \cup
                      (IF atype = "recursive" /\ x.rd /\ ~x.ra
                       THEN {Err("RecursionNotAvailable")} ELSE {}),
         notAuth  |-> atype = "authoritative" /\ ~x.auth,
         raises   |-> FALSE]

(* The flag bits in which request and effective request differ.           *)
DifferingFlags(x) ==
    {i \in 0..TopFlagBit : (x.qFlags & 2^i) # (x.effFlags & 2^i)}
(* A reference for _populate_invalid_response_status: each error code   *)
(* names its error; a timeout counts the queries sent since the history   *)
(* last switched transport, the timed-out one included; an invalid RCODE  *)
(* is not reported for the legitimate cases spec section 8 lists (EDNS    *)
(* with FORMERR, SERVFAIL or NOTIMP; BADVERS with EDNS above version 0).  *)
SpecInvalidResponseErrors(e) ==
    LET h == e.history
        lastSwitch == Max({0} \cup {k \in 1..Len(h) : h[k] # "OTHER"})
        named == CASE e.code = "NETWORK_ERROR" -> "NetworkError"
                   [] e.code = "FORMERR"       -> "FormError"
                   [] e.code = "TIMEOUT"       -> "Timeout"
                   [] e.code = "INVALID_RCODE" -> "InvalidRcode"
                   [] e.code = "OTHER"         -> "UnknownResponseError"
    IN  IF e.code = "INVALID_RCODE" /\ e.effEdns >= 0 /\
           (e.rcode \in {"FORMERR", "SERVFAIL", "NOTIMP"} \/ (e.rcode = "BADVERS" /\ e.effEdns # 0))
        THEN {}
        ELSE {[kind |-> named,
               attempts |-> IF e.code = "TIMEOUT" THEN Len(h) + 1 - lastSwitch ELSE 0,
               rcode |-> IF e.code = "INVALID_RCODE" THEN e.rcode ELSE "none"]}
====
