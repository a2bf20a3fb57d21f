----------------------------- MODULE NameStatus -----------------------------
(***************************************************************************)
(* What _populate_name_status (src/dnsviz/analysis/offline.py 604-687)    *)
(* computes from one name's queries, apart from the CNAME loop (669-677,  *)
(* modelled in PopulateStatus), and the NOERROR/NXDOMAIN cross-check of   *)
(* _populate_nxdomain_status (1628-1652) that reads its yxdomain.          *)
(*                                                                         *)
(* A query of the name is a record: its qname, its rdtype, its answer     *)
(* RRsets, NODATA and NXDOMAIN infos (kind "ans", "nodata", "nx"), and    *)
(* whether some response to it is a proper referral to the name (656).    *)
(* An info has a qname (the owner, for an answer), the server-client      *)
(* pairs that returned it, and, among them, those whose response had      *)
(* recursion desired and available, and those that were upward referrals  *)
(* of the zone the code judges it against (parent for DS, 624-627).       *)
(* Each server-client pair stands for one response.                       *)
(***************************************************************************)

(* N is the name analysed; P is another name one of its queries asks (an   *)
(* NXDOMAIN probe below it, its DLV name) or an answer leads to.          *)
Names == {"N", "P"}

(* "NS" stands for the referral types (referral_rdtype and NS, 652);      *)
(* "A" and "MX" for any others.                                           *)
RdTypes == {"A", "MX", "NS", "DS", "DLV"}

InfoType(Resps) == [kind: {"ans", "nodata", "nx"}, qname: Names, sc: SUBSET Resps,
                    rdra: SUBSET Resps, upward: SUBSET Resps]

QueryType(Resps) == [qn: Names, rdtype: RdTypes, infos: SUBSET InfoType(Resps),
                     referral: BOOLEAN]

InfosOf(q, k) == {i \in q.infos : i.kind = k}

(* 640, 646: a negative response counts when its info is for the query's  *)
(* own qname, or when recursion was desired and available.                *)
Counted(q, i, r) == i.qname = q.qn \/ r \in i.rdra

(* ProvesName counting upward referrals as well.                         *)
ProvesNameAnyResponse(q, i) == \E r \in i.sc : Counted(q, i, r)

(* 641-642: a counted NODATA response that is not an upward referral     *)
(* puts the info's qname in yxdomain.                                     *)
ProvesName(q, i) == \E r \in i.sc : Counted(q, i, r) /\ r \notin i.upward

(* 621-660: yxdomain over all queries.  The referral test (650-660) runs  *)
(* only while the name is not yet in yxdomain and only adds the name, so  *)
(* the query order the dict gives does not change the result.            *)
YxdomainOf(Qs) ==
    UNION {{i.qname : i \in InfosOf(q, "ans")}
           \cup {i.qname : i \in {j \in InfosOf(q, "nodata") : ProvesName(q, j)}} :
               q \in Qs}
    \cup (IF \E q \in Qs : q.qn = "N" /\ q.rdtype = "NS" /\ q.referral
          THEN {"N"} ELSE {})

(* 636-647: (qname, rdtype) of every NODATA or NXDOMAIN info with a       *)
(* counted response.                                                      *)
NxrrsetOf(Qs) ==
    UNION {{<<i.qname, q.rdtype>> :
              i \in {j \in InfosOf(q, "nodata") \cup InfosOf(q, "nx") :
                       \E r \in j.sc : Counted(q, j, r)}} : q \in Qs}

(* 679-687: NOERROR when the name is in yxdomain, else NXDOMAIN when a    *)
(* query other than DS had an NXDOMAIN info for its own qname.            *)
NameStatusOf(Qs) ==
    IF "N" \in YxdomainOf(Qs) THEN "NOERROR"
    ELSE IF \E q \in Qs : q.rdtype # "DS" /\ \E i \in InfosOf(q, "nx") : i.qname = q.qn
         THEN "NXDOMAIN"
         ELSE "INDETERMINATE"

(* InconsistentFor without the yxdomain test of 1629.                     *)
InconsistentForNoGuard(Qs, q, i, yx) ==
    IF q.rdtype \notin {"DS", "DLV"}
    THEN UNION {{[noerror |-> q2.rdtype, other |-> <<q2, x>>, sc |-> x.sc \cap i.sc] :
                   x \in {y \in InfosOf(q2, "ans") \cup InfosOf(q2, "nodata") :
                            y.qname = i.qname /\ y.sc \cap i.sc # {}}} :
                 q2 \in {p \in Qs : p.rdtype \notin {"DS", "DLV"}}}
    ELSE {}

(* 1629-1652 for NXDOMAIN info i of query q: when i's qname is in         *)
(* yxdomain and q is not DS or DLV, every answer RRset owned by that      *)
(* qname and every NODATA info for it, in a query other than DS or DLV,   *)
(* that shares server-client pairs with i yields an InconsistentNXDOMAIN  *)
(* error, keyed by the noerror query's rdtype, carrying i's responses     *)
(* for the shared pairs.                                                  *)
InconsistentFor(Qs, q, i, yx) ==
    IF i.qname \in yx /\ q.rdtype \notin {"DS", "DLV"}
    THEN UNION {{[noerror |-> q2.rdtype, other |-> <<q2, x>>, sc |-> x.sc \cap i.sc] :
                   x \in {y \in InfosOf(q2, "ans") \cup InfosOf(q2, "nodata") :
                            y.qname = i.qname /\ y.sc \cap i.sc # {}}} :
                 q2 \in {p \in Qs : p.rdtype \notin {"DS", "DLV"}}}
    ELSE {}
====
