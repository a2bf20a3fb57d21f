-------------------------- MODULE NegativeResponse --------------------------
(***************************************************************************)
(* The negative-response evaluator, _populate_negative_response_status    *)
(* (src/dnsviz/analysis/offline.py 1507-1608), for one NegativeResponseInfo *)
(* of one query, as _populate_nodata_status (1654-1670) and                *)
(* _populate_nxdomain_status (1610-1626) call it.                          *)
(*                                                                         *)
(* The corpus fixes the (server, client, response) triples that returned   *)
(* the negative answer and what each did, the SOA RRsets of the answer    *)
(* (owner and responses) and the NSEC sets (validity and responses), in    *)
(* list order.  Dicts and sets are iterated in an order the model leaves  *)
(* free; the loop variables server, client, response keep the last triple *)
(* a loop bound (Python scoping), which the NSEC status constructors read *)
(* at 1574 and 1577.  NSEC and NSEC3 statuses (status.py, outside src/)    *)
(* are abstracted to their validity; a status is identified by its set.   *)
(*                                                                         *)
(* The same module models _populate_wildcard_status (859-906) for one      *)
(* wildcard name of an answer RRset (kind "WILDCARD"): it runs the same    *)
(* NSEC loop with every triple relevant and the zone name fixed, and has   *)
(* no SOA steps.                                                           *)
(***************************************************************************)
EXTENDS Naturals, Sequences, FiniteSetsExt, TLC, ResponseErrors, NameStatus

CONSTANTS
    Resps,     \* (server, client, response) triples
    NoResp,    \* no triple bound yet
    Corpora    \* the negative responses to evaluate

(* upward: is_upward_referral of the zone; doReq: dnssec_requested();     *)
(* doResp: the zone's server answers with DO (server_responsive_with_do); *)
(* msg: what _populate_response_errors reads of the response.             *)
RespType == [upward: BOOLEAN, doReq: BOOLEAN, doResp: BOOLEAN,
             msg: ResponseFieldsType]

CorpusType ==
    [kind: {"NODATA", "NXDOMAIN", "WILDCARD"},
     qnameObj: BOOLEAN,       \* qname_obj is not None
     all: SUBSET Resps,       \* neg_response_info.servers_clients
     isQname: BOOLEAN,        \* neg_response_info.qname == query.qname
     signed: BOOLEAN,         \* qname_obj.zone.signed
     atype: {"authoritative", "recursive"},   \* qname_obj.analysis_type
     resp: [Resps -> RespType],
     soas: Seq([owner: {"zone", "other"}, served: SUBSET Resps]),
     nsecs: Seq([valid: BOOLEAN, served: SUBSET Resps]),
     qname: Names,            \* neg_response_info.qname
     q: QueryType(Resps),     \* the query, without this info
     others: SUBSET QueryType(Resps),   \* the name's other queries
     qErrors: SUBSET ErrorInfoType]     \* the error infos of the query

ErrorKinds == {"BadSOA", "MissingSOA", "UpwardReferral", "MissingNSEC",
               "UnableToRetrieveDNSSECRecords", "MissingNSECForWildcard"}

VARIABLES
    c,            \* the corpus
    pc,           \* the loop being run, "done" on return or exception
    idx,          \* SOA RRsets or NSEC sets handled so far
    withoutSoa,   \* servers_without_soa
    missingNsec,  \* servers_missing_nsec
    soaOwner,     \* soa_owner_name_for_servers, "none" where absent
    errs,         \* the errors list: error class -> its triples
    notAuth,      \* triples still carried by a NotAuthoritative notice
    last,         \* the triple bound to server, client, response
    statuses,     \* indices of the NSEC sets whose status is returned
    byResp,       \* status_by_response: triple -> NSEC set index
    usedOwner,    \* usedOwner[j]: the SOA owner NSEC set j's status got
    exc,          \* the exception raised, else "none"
    respWarn,     \* respWarn[r], respErr[r]: what _populate_response_errors
    respErr,      \* filed for triple r, NotAuthoritative aside (notAuth)
    yxdomain,     \* the name's yxdomain, nxrrset and status (C3)
    nxrrset,
    nameStatus,
    incons,       \* the InconsistentNXDOMAIN errors filed for this info
    responseErrors  \* response_errors[query] of the info's query

queryVars == <<yxdomain, nxrrset, nameStatus, incons, responseErrors>>

vars == <<c, pc, idx, withoutSoa, missingNsec, soaOwner, errs, notAuth, last,
          statuses, byResp, usedOwner, exc, respWarn, respErr, queryVars>>

TypeOK ==
    /\ c \in CorpusType
    /\ pc \in {"name", "invalid", "checked", "resperr", "wstart", "soa", "nosoa", "upward", "nsec", "nonsec", "done"}
    /\ withoutSoa \subseteq Resps /\ missingNsec \subseteq Resps
    /\ soaOwner \in [Resps -> {"zone", "other", "none"}]
    /\ DOMAIN errs \subseteq ErrorKinds
    /\ \A k \in DOMAIN errs : errs[k] \subseteq Resps
    /\ notAuth \subseteq Resps
    /\ last \in Resps \cup {NoResp}
    /\ idx \in 0..Len(c.nsecs) \cup 0..Len(c.soas)
    /\ statuses \subseteq DOMAIN c.nsecs
    /\ DOMAIN byResp \subseteq Resps
    /\ \A r \in DOMAIN byResp : byResp[r] \in DOMAIN c.nsecs
    /\ DOMAIN usedOwner \subseteq DOMAIN c.nsecs
    /\ \A j \in DOMAIN usedOwner : usedOwner[j] \in {"zone", "other"}
    /\ exc \in {"none", "KeyError", "NameError", "Exception"}
    /\ DOMAIN respWarn = DOMAIN respErr /\ DOMAIN respWarn \subseteq Resps
    /\ yxdomain \subseteq Names /\ nxrrset \subseteq Names \X RdTypes
    /\ nameStatus \in {"none", "NOERROR", "NXDOMAIN", "INDETERMINATE"}
    /\ \A e \in incons : e.noerror \in RdTypes /\ e.sc \subseteq Resps
    /\ \A e \in responseErrors : e.attempts \in Nat

-----------------------------------------------------------------------------
(* The triples the code reports on: all for the queried name, else those   *)
(* with recursion desired and available (1535, 1540, 1546, 1593, 1602);   *)
(* the wildcard loop records every triple's invalid status (890-891).     *)
Relevant(r) == c.kind = "WILDCARD" \/ c.isQname \/
               (c.resp[r].msg.rd /\ c.resp[r].msg.ra)

(* The error classes _populate_nodata_status and _populate_nxdomain_status *)
(* pass: only NODATA has an UpwardReferral class (1623, 1667).             *)
HasUpwardClass == c.kind = "NODATA"

(* The triples that get an UpwardReferral error (1546-1549).               *)
UpwardResps(S) == {r \in S : Relevant(r) /\ HasUpwardClass /\ c.resp[r].upward}

(* The last element a loop over S binds, in the free order; S may be empty. *)
LastOf(S) == IF S = {} THEN {last} ELSE S

(* insert_into_list: an error of class k already in the list absorbs the  *)
(* triples, else a new one is appended (with no triples if S is empty).    *)
AddErr(e, k, S) == IF k \in DOMAIN e THEN [e EXCEPT ![k] = @ \cup S]
                                     ELSE e @@ (k :> S)

(* Add an error of class k only when some triple carries it (1549, 1551,  *)
(* 1604, 1606 insert one per triple).                                      *)
AddErrFor(e, k, S) == IF S = {} THEN e ELSE AddErr(e, k, S)

-----------------------------------------------------------------------------
(* 1515-1523: every triple starts without SOA and without NSEC; the       *)
(* response errors of each are populated (only NotAuthoritative is kept). *)
Init ==
    /\ c \in Corpora
    /\ pc = IF c.kind = "WILDCARD" THEN "wstart" ELSE "name"
    /\ idx = 0
    /\ withoutSoa = c.all /\ missingNsec = c.all
    /\ soaOwner = [r \in Resps |-> "none"]
    /\ errs = <<>>
    /\ notAuth = {}
    /\ last \in c.all
    /\ statuses = {} /\ byResp = <<>> /\ usedOwner = <<>>
    /\ exc = "none"
    /\ respWarn = <<>> /\ respErr = <<>>
    /\ yxdomain = {} /\ nxrrset = {} /\ nameStatus = "none" /\ incons = {}
    /\ responseErrors = {}

(* This info as C3 sees it: its responses with RD and RA, and those that  *)
(* were upward referrals (C3 judges them against the zone of the query's *)
(* name, 623-627, C5 against that of the info's name, 1511; one flag     *)
(* stands for both).                                                      *)
CInfo == [kind |-> IF c.kind = "NXDOMAIN" THEN "nx" ELSE "nodata", qname |-> c.qname,
          sc |-> c.all, rdra |-> {r \in c.all : c.resp[r].msg.rd /\ c.resp[r].msg.ra},
          upward |-> {r \in c.all : c.resp[r].upward}]

(* self.queries: the info's query, holding the info, and the others.      *)
NameQueries == c.others \cup {[c.q EXCEPT !.infos = @ \cup {CInfo}]}

(* _populate_name_status (604-687) runs first in populate_status (592);   *)
(* its CNAME loop only adds to yxrrset (PopulateStatus).                  *)
PopulateNameStatus ==
    /\ pc = "name"
    /\ yxdomain' = YxdomainOf(NameQueries)
    /\ nxrrset' = NxrrsetOf(NameQueries)
    /\ nameStatus' = NameStatusOf(NameQueries)
    /\ pc' = "invalid"
    /\ UNCHANGED <<incons, responseErrors, respWarn, respErr, c, idx, withoutSoa, missingNsec, soaOwner, errs,
                   notAuth, last, statuses, byResp, usedOwner, exc>>

(* 1523: _populate_response_errors for each triple, into the warnings and *)
(* errors of the negative response; the first triple that raises aborts.  *)
PopulateResponseErrors ==
    /\ pc = "resperr"
    /\ LET cl == [r \in c.all |-> Classify(c.resp[r].msg, c.signed, c.atype)] IN
       IF \E r \in c.all : cl[r].raises
       THEN /\ exc' = "Exception" /\ pc' = "done"
            /\ UNCHANGED <<notAuth, respWarn, respErr>>
       ELSE /\ respWarn' = [r \in c.all |-> cl[r].warnings]
            /\ respErr' = [r \in c.all |-> cl[r].errors]
            /\ notAuth' = {r \in c.all : cl[r].notAuth}
            /\ pc' = "soa" /\ exc' = exc
    /\ UNCHANGED <<queryVars, c, idx, withoutSoa, missingNsec, soaOwner, errs, last,
                   statuses, byResp, usedOwner>>

(* SoaStep with the BadSOA error given all the SOA RRset's triples, as    *)
(* the queried-name branch does, whatever the name.                       *)
SoaStepAllServers ==
    /\ pc = "soa" /\ exc = "none" /\ idx < Len(c.soas)
    /\ LET s == c.soas[idx + 1] IN
       IF ~(s.served \subseteq withoutSoa)
       THEN /\ exc' = "KeyError" /\ pc' = "done"
            /\ \E r \in s.served : last' = r
            /\ UNCHANGED <<queryVars, respWarn, respErr, c, idx, withoutSoa, missingNsec, soaOwner, errs,
                           notAuth, statuses, byResp, usedOwner>>
       ELSE /\ withoutSoa' = withoutSoa \ s.served
            /\ soaOwner' = [r \in Resps |-> IF r \in s.served THEN s.owner
                                                             ELSE soaOwner[r]]
            /\ errs' = IF s.owner = "zone" THEN errs
                       ELSE AddErr(errs, "BadSOA", s.served)
            /\ \E r \in s.served : last' = r
            /\ idx' = idx + 1
            /\ UNCHANGED <<queryVars, respWarn, respErr, c, pc, missingNsec, notAuth, statuses, byResp,
                           usedOwner, exc>>

(* 1525-1543, one SOA RRset: its triples leave servers_without_soa (set.  *)
(* remove raises KeyError for a triple an earlier SOA RRset removed) and   *)
(* record its owner; an owner other than the zone is a BadSOA error, for  *)
(* all its triples on the queried name, else for those with RD and RA.    *)
SoaStep ==
    /\ pc = "soa" /\ exc = "none" /\ idx < Len(c.soas)
    /\ LET s == c.soas[idx + 1] IN
       IF ~(s.served \subseteq withoutSoa)
       THEN /\ exc' = "KeyError" /\ pc' = "done"
            /\ \E r \in s.served : last' = r
            /\ UNCHANGED <<queryVars, respWarn, respErr, c, idx, withoutSoa, missingNsec, soaOwner, errs,
                           notAuth, statuses, byResp, usedOwner>>
       ELSE /\ withoutSoa' = withoutSoa \ s.served
            /\ soaOwner' = [r \in Resps |-> IF r \in s.served THEN s.owner
                                                             ELSE soaOwner[r]]
            /\ errs' = IF s.owner = "zone" THEN errs
                       ELSE AddErr(errs, "BadSOA",
                                   {r \in s.served : Relevant(r)})
            /\ \E r \in s.served : last' = r
            /\ idx' = idx + 1
            /\ UNCHANGED <<queryVars, respWarn, respErr, c, pc, missingNsec, notAuth, statuses, byResp,
                           usedOwner, exc>>

SoaDone ==
    /\ pc = "soa" /\ exc = "none" /\ idx = Len(c.soas)
    /\ pc' = "nosoa" /\ idx' = 0
    /\ UNCHANGED <<queryVars, respWarn, respErr, c, withoutSoa, missingNsec, soaOwner, errs, notAuth, last,
                   statuses, byResp, usedOwner, exc>>

(* 1545-1551: each relevant triple without SOA is an UpwardReferral error *)
(* if it was one (NODATA only), else a MissingSOA error.                  *)
MissingSoa ==
    /\ pc = "nosoa"
    /\ LET up == UpwardResps(withoutSoa)
           miss == {r \in withoutSoa : Relevant(r)} \ up
       IN  errs' = AddErrFor(AddErrFor(errs, "UpwardReferral", up),
                             "MissingSOA", miss)
    /\ last' \in LastOf(withoutSoa)
    /\ pc' = "upward"
    /\ UNCHANGED <<queryVars, respWarn, respErr, c, idx, withoutSoa, missingNsec, soaOwner, notAuth,
                   statuses, byResp, usedOwner, exc>>

(* 1553-1567: the triples of the UpwardReferral error are taken out of    *)
(* every NotAuthoritative notice; a notice left empty is removed.  The    *)
(* inner loop, and so its binding of the loop variables, runs only when   *)
(* such a notice exists.                                                  *)
SuppressNotAuth ==
    /\ pc = "upward"
    /\ IF HasUpwardClass /\ "UpwardReferral" \in DOMAIN errs /\ notAuth # {}
       THEN /\ notAuth' = notAuth \ errs["UpwardReferral"]
            /\ last' \in errs["UpwardReferral"]
       ELSE UNCHANGED <<queryVars, respWarn, respErr, notAuth, last>>
    /\ pc' = "nsec"
    /\ UNCHANGED <<queryVars, respWarn, respErr, c, idx, withoutSoa, missingNsec, soaOwner, errs, statuses,
                   byResp, usedOwner, exc>>

(* The owner looked up without the zone-name default.                    *)
StatusOwnerNoDefault == IF last \in Resps /\ c.kind # "WILDCARD" THEN soaOwner[last]
                        ELSE "zone"

(* soa_owner_name_for_servers.get((server, client, response), zone name): *)
(* the triple is whichever the loop variables last held (1574, 1577).     *)
StatusOwner == IF last \in Resps /\ soaOwner[last] # "none" /\ c.kind # "WILDCARD"
               THEN soaOwner[last] ELSE "zone"

(* NsecStep with a valid set leaving status_by_response alone.            *)
NsecStepNoDelete ==
    /\ pc = "nsec" /\ idx < Len(c.nsecs)
    /\ LET j == idx + 1
           n == c.nsecs[j]
           rel == {r \in n.served : Relevant(r)}
       IN  /\ usedOwner' = usedOwner @@ (j :> StatusOwner)
           /\ statuses' = IF n.valid THEN statuses \cup {j} ELSE statuses
           /\ missingNsec' = missingNsec \ n.served
           /\ byResp' =
                IF n.valid
                THEN byResp
                ELSE [r \in DOMAIN byResp \cup rel |->
                        IF r \in rel THEN j ELSE byResp[r]]
           /\ \E r \in n.served : last' = r
           /\ idx' = idx + 1
    /\ UNCHANGED <<queryVars, respWarn, respErr, c, pc, withoutSoa, soaOwner, errs, notAuth, exc>>

(* 1571-1594, one NSEC set: its status is built with StatusOwner; a valid *)
(* status is returned; its triples leave servers_missing_nsec; a valid    *)
(* set deletes their status_by_response entries, an invalid one records   *)
(* itself for the relevant ones.                                          *)
NsecStep ==
    /\ pc = "nsec" /\ idx < Len(c.nsecs)
    /\ LET j == idx + 1
           n == c.nsecs[j]
           rel == {r \in n.served : Relevant(r)}
       IN  /\ usedOwner' = usedOwner @@ (j :> StatusOwner)
           /\ statuses' = IF n.valid THEN statuses \cup {j} ELSE statuses
           /\ missingNsec' = missingNsec \ n.served
           /\ byResp' =
                IF n.valid
                THEN [r \in DOMAIN byResp \ n.served |-> byResp[r]]
                ELSE [r \in DOMAIN byResp \cup rel |->
                        IF r \in rel THEN j ELSE byResp[r]]
           /\ \E r \in n.served : last' = r
           /\ idx' = idx + 1
    /\ UNCHANGED <<queryVars, respWarn, respErr, c, pc, withoutSoa, soaOwner, errs, notAuth, exc>>

(* 1596-1598: the status recorded for each triple is returned as well.    *)
CollectStatuses ==
    /\ pc = "nsec" /\ idx = Len(c.nsecs)
    /\ statuses' = statuses \cup {byResp[r] : r \in DOMAIN byResp}
    /\ pc' = "nonsec"
    /\ UNCHANGED <<queryVars, respWarn, respErr, c, idx, withoutSoa, missingNsec, soaOwner, errs, notAuth,
                   last, byResp, usedOwner, exc>>

(* 1600-1606: in a signed zone, a relevant triple that returned no NSEC   *)
(* set is a MissingNSEC error if it asked for DNSSEC, else an             *)
(* UnableToRetrieveDNSSECRecords error if the server answers with DO.     *)
MissingNsec ==
    /\ pc = "nonsec" /\ c.kind # "WILDCARD"
    /\ LET rel == {r \in missingNsec : c.signed /\ Relevant(r)}
           asked == {r \in rel : c.resp[r].doReq}
           unable == {r \in rel \ asked : c.resp[r].doResp}
       IN  errs' = AddErrFor(AddErrFor(errs, "MissingNSEC", asked),
                             "UnableToRetrieveDNSSECRecords", unable)
    /\ last' \in LastOf(missingNsec)
    /\ pc' = "done"
    /\ UNCHANGED <<queryVars, respWarn, respErr, c, idx, withoutSoa, missingNsec, soaOwner, notAuth,
                   statuses, byResp, usedOwner, exc>>

(* 860-868: zone_name is the zone's name, or, when qname_obj is None,     *)
(* wildcard_info.parent(): a name bound nowhere in the method, so Python  *)
(* raises NameError; else every triple starts without NSEC.               *)
WildcardStart ==
    /\ pc = "wstart"
    /\ IF c.qnameObj THEN pc' = "nsec" /\ exc' = exc
                     ELSE pc' = "done" /\ exc' = "NameError"
    /\ UNCHANGED <<queryVars, respWarn, respErr, c, idx, withoutSoa, missingNsec, soaOwner, errs, notAuth,
                   last, statuses, byResp, usedOwner>>

(* 900-906: the statuses are stored, and each triple that returned no     *)
(* NSEC set is a MissingNSECForWildcard error (DNSSEC was requested).     *)
WildcardMissingNsec ==
    /\ pc = "nonsec" /\ c.kind = "WILDCARD"
    /\ errs' = AddErrFor(errs, "MissingNSECForWildcard", missingNsec)
    /\ last' \in LastOf(missingNsec)
    /\ pc' = "done"
    /\ UNCHANGED <<queryVars, respWarn, respErr, c, idx, withoutSoa, missingNsec, soaOwner, notAuth,
                   statuses, byResp, usedOwner, exc>>

(* _populate_rrsig_status_all (594) ends each query with                 *)
(* _populate_invalid_response_status (1119, 1054-1084): response_errors  *)
(* of the info's query from its error infos.                              *)
PopulateInvalidResponseStatus ==
    /\ pc = "invalid"
    /\ responseErrors' = UNION {InvalidResponseErrors(e) : e \in c.qErrors}
    /\ pc' = "resperr"
    /\ UNCHANGED <<yxdomain, nxrrset, nameStatus, incons, respWarn, respErr, c, idx, withoutSoa,
                   missingNsec, soaOwner, errs, notAuth, last, statuses, byResp, usedOwner, exc>>

(* 1628-1652, once the NXDOMAIN info's status is populated: its          *)
(* InconsistentNXDOMAIN errors, from yxdomain and the name's queries.     *)
InconsistentNxdomain ==
    /\ pc = "done" /\ exc = "none" /\ c.kind = "NXDOMAIN"
    /\ incons' = InconsistentFor(NameQueries, c.q, CInfo, yxdomain)
    /\ pc' = "checked"
    /\ UNCHANGED <<yxdomain, nxrrset, nameStatus, responseErrors, respWarn, respErr, c, idx,
                   withoutSoa, missingNsec, soaOwner, errs, notAuth, last, statuses, byResp,
                   usedOwner, exc>>

Next ==
    \/ PopulateNameStatus \/ PopulateInvalidResponseStatus \/ InconsistentNxdomain
    \/ PopulateResponseErrors \/ SoaStep \/ SoaDone \/ MissingSoa \/ SuppressNotAuth
    \/ WildcardStart \/ NsecStep \/ CollectStatuses \/ MissingNsec
    \/ WildcardMissingNsec

Spec == Init /\ [][Next]_vars

-----------------------------------------------------------------------------
(* What the evaluator returns, stated over the corpus alone.              *)
Finished == pc = "done" /\ exc = "none"

NoSoaResps == c.all \ UNION {c.soas[i].served : i \in DOMAIN c.soas}
NoNsecResps == c.all \ UNION {c.nsecs[j].served : j \in DOMAIN c.nsecs}
Sets(r) == {j \in DOMAIN c.nsecs : r \in c.nsecs[j].served}

(* For a wildcard, spec section 4.4: MissingNSECForWildcard for each     *)
(* triple no NSEC set accounts for.  Otherwise the errors of spec 4.5: BadSOA for an SOA owned elsewhere,     *)
(* UpwardReferral or MissingSOA per relevant triple without SOA, and      *)
(* MissingNSEC or UnableToRetrieveDNSSECRecords per relevant triple        *)
(* without NSEC in a signed zone.                                         *)
SpecErrors ==
    LET bad == {i \in DOMAIN c.soas : c.soas[i].owner = "other"}
        up == UpwardResps(NoSoaResps)
        noNsec == {r \in NoNsecResps : c.signed /\ Relevant(r)}
        asked == {r \in noNsec : c.resp[r].doReq}
        E == [k \in {"UpwardReferral"} |-> up] @@
             [k \in {"MissingSOA"} |-> {r \in NoSoaResps : Relevant(r)} \ up] @@
             [k \in {"MissingNSEC"} |-> asked] @@
             [k \in {"UnableToRetrieveDNSSECRecords"} |->
                    {r \in noNsec \ asked : c.resp[r].doResp}]
    IN  IF c.kind = "WILDCARD"
        THEN [k \in IF NoNsecResps = {} THEN {} ELSE {"MissingNSECForWildcard"}
                 |-> NoNsecResps]
        ELSE [k \in {x \in DOMAIN E : E[x] # {}} |-> E[k]] @@
             [k \in IF bad = {} THEN {} ELSE {"BadSOA"} |->
                    UNION {{r \in c.soas[i].served : Relevant(r)} : i \in bad}]

(* The diagnostics _populate_negative_response_status and                 *)
(* _populate_wildcard_status leave, whatever order their dicts and sets   *)
(* are iterated in, are those of spec sections 4.4 and 4.5 steps 2, 3 and *)
(* 5 (SpecErrors); and a NotAuthoritative notice keeps *)
(* exactly the triples that were not upward referrals (step 3).           *)
NegativeDiagnosticsAsSpecified ==
    Finished =>
        /\ errs = SpecErrors
        /\ notAuth = {r \in c.all : c.kind # "WILDCARD" /\ c.atype = "authoritative"
                                     /\ ~c.resp[r].msg.auth} \ UpwardResps(NoSoaResps)

(* The request and effective request differ in at most one EDNS flag,    *)
(* one the effective request dropped.                                     *)
OneFlagDropped(x) ==
    \A i \in DifferingFlags(x) : DifferingFlags(x) = {i} /\ (x.qFlags & 2^i) # 0

(* What _populate_response_errors files for each triple (1523) is what    *)
(* spec section 4.7 lists: the EDNS fallback error or EDNSIgnored, the     *)
(* version and payload warnings, the flag error, RecursionNotAvailable,    *)
(* each filed by the zone's signedness, whenever at most one flag was      *)
(* dropped (with more, the code reports only the highest; see hazards).   *)
(* Checked in the state PopulateResponseErrors leads to: nothing changes   *)
(* respWarn and respErr afterwards.                                       *)
ResponseErrorsAsSpecified ==
    pc = "soa" /\ idx = 0 /\ DOMAIN respWarn = c.all =>
        \A r \in c.all :
            LET x == c.resp[r].msg
                spec == SpecResponseErrors(x, c.signed, c.atype)
            IN  OneFlagDropped(x) =>
                    respWarn[r] = spec.warnings /\ respErr[r] = spec.errors

(* The 'Unknown EDNS-flag-related error' raised at 836 never happens: for  *)
(* 16-bit EDNS flags that differ, the loop over bits 15..0 finds the       *)
(* first differing one whenever a retry cause is known.                   *)
NoUnknownFlagException == exc # "Exception"

(* The NSEC statuses returned (1569-1608): every valid one, and for each  *)
(* relevant triple whose last NSEC set (in nsec_set_info order) is        *)
(* invalid, that set's status: the latest set a triple returned decides.  *)
StatusesLatestSetWins ==
    Finished =>
        statuses = {j \in DOMAIN c.nsecs : c.nsecs[j].valid} \cup
                   {Max(Sets(r)) : r \in {x \in c.all : Relevant(x) /\ Sets(x) # {}
                                            /\ ~c.nsecs[Max(Sets(x))].valid}}

(* Spec section 4.5 step 4: per triple, the first valid status wins,      *)
(* otherwise the latest invalid one; so an invalid status is returned     *)
(* only for a relevant triple none of whose NSEC sets is valid.           *)
StatusesFirstValidWins ==
    Finished =>
        statuses = {j \in DOMAIN c.nsecs : c.nsecs[j].valid} \cup
                   {Max(Sets(r)) : r \in {x \in c.all : Relevant(x) /\ Sets(x) # {}
                                            /\ \A j \in Sets(x) : ~c.nsecs[j].valid}}

-----------------------------------------------------------------------------
(* What _populate_invalid_response_status files for the query (checked   *)
(* where it has just run) is SpecInvalidResponseErrors of its error      *)
(* infos: the error each code names, the Timeout attempts counted since  *)
(* the last transport switch, and no InvalidRcode for the legitimate      *)
(* EDNS cases of spec section 8.                                          *)
InvalidResponseErrorsAsSpecified ==
    pc = "resperr" =>
        responseErrors = UNION {SpecInvalidResponseErrors(e) : e \in c.qErrors}

-----------------------------------------------------------------------------
(* Spec section 4.1 (and invariant 3 of section 3): a name exists when an *)
(* answer RRset of some query is owned by it, when a NODATA answer for it *)
(* came in a response that is for the queried name or recursive, and not *)
(* an upward referral, or, for the analysed name, when a referral-type    *)
(* query for it got a proper referral.                                    *)
ExistenceProved(n) ==
    \E q \in NameQueries :
        \/ \E i \in q.infos : i.kind = "ans" /\ i.qname = n
        \/ \E i \in q.infos :
               /\ i.kind = "nodata" /\ i.qname = n
               /\ \E r \in i.sc \ i.upward : i.qname = q.qn \/ r \in i.rdra
        \/ n = "N" /\ q.qn = n /\ q.rdtype = "NS" /\ q.referral

(* The name status _populate_name_status leaves (679-687) is NOERROR      *)
(* exactly when spec 4.1 shows the name exists, whichever query proves    *)
(* it; and a name shown not to exist by an NXDOMAIN answer to a query for *)
(* it (other than DS) is NXDOMAIN.                                         *)
NoerrorIffExistenceProved ==
    nameStatus # "none" =>
        /\ nameStatus = "NOERROR" <=> ExistenceProved("N")
        /\ (~ExistenceProved("N") /\
            \E q \in NameQueries : q.qn = "N" /\ q.rdtype # "DS" /\
                \E i \in q.infos : i.kind = "nx" /\ i.qname = "N")
           => nameStatus = "NXDOMAIN"

(* Spec section 4.5 and scenario 5: after _populate_nxdomain_status,      *)
(* InconsistentNXDOMAIN is carried by exactly those responses of the      *)
(* NXDOMAIN answer (to a query other than DS or DLV) whose server-client  *)
(* also gave, in a query other than DS or DLV, an answer RRset owned by   *)
(* the qname or a NODATA answer for it, provided the name's responses     *)
(* show the qname exists; and on the other side each such answer carries *)
(* those same responses, under its own query's rdtype.                    *)
InconsistentNxdomainAsSpecified ==
    pc = "checked" =>
        LET Q == c.qname
            Plain == {q \in NameQueries : q.rdtype \notin {"DS", "DLV"}}
            Flagged == ExistenceProved(Q) /\ c.q.rdtype \notin {"DS", "DLV"}
        IN  /\ \A r \in c.all :
                   (\E e \in incons : r \in e.sc) <=>
                       Flagged /\ \E q \in Plain : \E x \in q.infos :
                           x.kind \in {"ans", "nodata"} /\ x.qname = Q /\ r \in x.sc
            /\ \A q \in Plain : \A x \in q.infos :
                   (x.kind \in {"ans", "nodata"} /\ x.qname = Q /\ Flagged
                    /\ x.sc \cap c.all # {})
                   => \E e \in incons : e.other = <<q, x>> /\ e.noerror = q.rdtype
                                        /\ e.sc = x.sc \cap c.all
====
