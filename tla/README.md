# TLA+ models of the DNSViz offline analysis

These modules model `src/dnsviz/analysis/offline.py`, the offline DNSSEC
evaluator (`OfflineDomainNameAnalysis`). It reads a corpus of DNS queries and
responses collected earlier and fills in each name's status fields.

## The system

The evaluator is a single sequential thread. It starts with every result field
of every `DomainNameAnalysis` node set to `None` (`__init__`, lines 62-107).
The caller then runs `populate_status` on each name it analysed, in order.

| Part | Code | What it does |
|---|---|---|
| C1 driver | `populate_status` 541-602 | Recurses into CNAME targets, MX targets (only when `follow_mx`), external signers, NS dependencies, the parent and the DLV parent (`is_dlv=True`). Each call gets `trace + [self]`. Then it evaluates the name itself. A name on the trace only recomputes its name status; a name whose `rrsig_status` is set is not evaluated again; a stub is skipped. |
| C3 name status | `_populate_name_status` 604-687 | NOERROR / NXDOMAIN, `yxdomain`, `yxrrset`, `nxrrset`. It recurses into CNAME targets whose `yxrrset` is still `None`. C5's InconsistentNXDOMAIN check reads its `yxdomain`. |
| C4 RRSIG status | 908-1124 | Binds each RRSIG to candidate DNSKEYs, by a priority group per DNSKEY set. Also computes `zsks`/`ksks` (zones only), MissingRRSIG diagnostics and key roles. |
| C2 response errors | 689-858, 1054-1089 | Classifies each response's EDNS fallback, EDNS flag and authority problems into warnings and errors. |
| C5 negative / wildcard | 859-906, 1507-1670 | NSEC/NSEC3 proofs for NXDOMAIN, NODATA and wildcards. |
| C6 delegation | 1241-1463 | For DS (and DLV): DS-to-DNSKEY bindings, secure entry points, and the delegation status SECURE / INSECURE / BOGUS / LAME / INCOMPLETE. |
| NS / server status | 1126-1239, 1465-1505 | Parent-vs-child NS names, glue, and server responsiveness (not modelled: it only turns the `server_responsive_*` predicates into diagnostics). |
| C7 DNSKEY status | 1672-1723 | Revoked / trust-anchor / missing-key diagnostics. |
| C8 component status | 1725-1822 | Propagates SECURE/BOGUS/... through the trust graph. |
| C9 serialisation | 184-467, 1824-2153 | Nested dictionaries for output. |

How the parts interact:
- C1 orders everything.
- C6 reads C4's `rrsig_status` of the zone's DNSKEY RRsets, C5's NSEC status for the DS name, and the parent's `signed`.
- C5 calls C2 for every response of a negative answer (1523) and of an answer RRset (1052), into the same warning and error lists.
- C5's InconsistentNXDOMAIN check (1629) reads C3's `yxdomain`.
- C7 reads C4's `ksks`/`zsks`, the key roles and C6's `dnskey_with_ds`.
- C8 and C9 run after C1. C8 gives every name it reaches the one shared status dict. C9 emits an entry per name and reads the fields C1 set and the dict C8 assigned.

Status.DSStatus and Status.RRSIGStatus live in `dnsviz/analysis/status.py`,
which is not in `src/`. Their verdicts are modelled from the specification and
marked `spec_modelled`.

## Modules

**`PopulateStatus`** (C1, with the field effects of C3, C4, C6 and C7). It is
parameterised by the name graphs `Graphs`.

State:
- `stack` holds the active `populate_status` frames. A frame records its name, its `is_dlv` and `follow_mx`, which loop (phase 1-6) it is in, and which targets that loop has already called.
- `fields[n]` holds the evaluator fields of `n` that are no longer `None`.
- `evalCount`, `error` and `pending` (the roots not yet called).
- `yxrrset[n]`: the C3 `yxrrset` of `n`. Each name's own answers are one tag, the name itself, so `yxrrset[n]` is the set of names whose answers `n`'s CNAME chain has brought in.

Actions:
- `StartRoot`: the caller's next call.
- `CallChild`: one recursive call. The order within a dependency map is dict order and is left free.
- `NextPhase`: a loop is finished.
- `Evaluate`: lines 591-602 as one step, which sets the fields of `RRSIGFields` and `DelegationFields` and raises as `DsStatusRaises`, `DlvStatusRaises` or `DnskeyStatusRaises` say. An exception unwinds every frame.

`Enter` is the entry checks at 542-556.

C3 (`_populate_name_status`, 604-687) is `NameStatusRuns` with `CnameLoop`,
a pair of recursive operators that return every outcome over the dict order
of `cname_targets`. A call resets `yxrrset` to the name's own answers, then
for each CNAME target evaluates it first if its `yxrrset` is `None`
(trace + [self]), and copies the target's `yxrrset` as it stands at that
moment. It runs inside `Enter` for a name on the trace (548) and inside
`Evaluate` (591), both with an empty trace. The `yxdomain`/`nxrrset` sets and
the NOERROR/NXDOMAIN decision are a per-name function of the query data and
are abstracted to the `"name"` field being set.

**`DnssecRecords`** holds the records:
- A DNSKEY is a model value with an algorithm, a key tag and a pre-revoke tag.
- A DS names the key its digest was computed over.
- An RRSIG names its signing key, whether it was forged, whether it has expired, and the responses that served it.

It also holds the spec-modelled Status verdicts and `SelfSigBound`, a
translation of the binding loop 984-1022 for self-signatures over a DNSKEY
RRset: `checked_keys`, the `self_sig` filter, tag and algorithm matching, and
the per-set `BestGroup`.

**`DelegationStatus`** (C6, `_populate_ds_status` for one rdtype). The corpus
`inp` is fixed by `Init`. The per-call variables mirror the locals:
`algs_signing_sep`, `algs_validating_sep`, `secure_path`, `ds_algs` and
`supported_ds_algs`, and the fields `delegation_status`, `delegation_errors`,
`dnskey_with_ds` and `ds_status_by_ds`.

Actions:
- `NoDsQuery`: the early return at 1280.
- `SkipCname`: 1306-1307.
- `BeginRRset`: 1304-1326.
- `ProcessDS`: one DS rdata through the key and RRSIG loops, 1328-1401, in free order.
- `EndRRset`: 1403-1419.
- `Finalize`: 1421-1463.

`Cover` models the deletion of a response's entry once it covers every DS
algorithm.

**`DelegationVerdict`** is the abstract specification of the delegation
evaluator. It has no loop state: one `Decide` step sets `verdict` to
`AbstractStatus`, under weak fairness. `AbstractStatus` is the delegation status as spec section 4.6 states it, with
its "SECURE iff at least one response validates" reading made precise by
`ValidSep`. A response has a valid SEP for a DS RRset when it returned a
self-signature that:
- is unexpired and verifies under a supported algorithm;
- was made by a key of the signed DNSKEY RRset, under that key's current tag;
- comes from a key whose digest appears in the RRset, with a supported digest type, under that tag.

`AbstractStatus` does not use the loop variables or the binding operator.
`DelegationStatus` defines `Verdict == INSTANCE DelegationVerdict WITH ...`.
The refinement mapping is:
- `decided` is `pc = "done"`;
- `verdict` is `status` once `pc = "done"` and `"NONE"` before that;
- `inp` is the same corpus.

Every loop step is a stuttering step of the abstract spec. `Finalize` (or
`NoDsQuery`) is its `Decide`. `DelegationRefinesVerdict` (`Verdict!ASpec`,
checked as a PROPERTY) says two things: the loop returns, and it returns
with the specified status.

**`NSStatus`** (`_populate_ns_status`, 1126-1239). The zone's corpus `c` is
fixed by `Init`:
- the NS names the parent and the child serve;
- the authoritative and glue addresses per name;
- the delegation status dict;
- IPv4 presence on each side.

NS names are naturals, so that the code's `.sort()` has an order.

Actions:
- `EarlyReturn`: 1127-1134.
- `BeginLoop`: 1136-1150.
- `VisitName(n)`: one iteration of the loop at 1152, in free set order. Its `NameInParent` is the three-valued `name_in_parent`.
- `Report`: 1186-1239, the sorts and the appends to `delegation_warnings[DS]` and `delegation_errors[DS]`.

The test at 1166 is modelled literally: the dict `delegationStatus` is compared
with the model value `DELEGATION_STATUS_INCOMPLETE`, and TLC finds the two
unequal as Python does.

**`RRSIGStatus`** (`_populate_rrsig_status`, 908-1045, and the reset of
`_populate_rrsig_status_all`, 1086-1098). It covers the answer RRsets of one
name. An RRSIG's signer resolves to a full name, a stub, or nothing.

Actions:
- `BeginRRset(x)`: 908-962, the expected algorithm sets and the tracked responses. `HasDname` (934-950) excludes the responses whose CNAME was synthesised from a DNAME, for a CNAME RRset only. RRsets are taken in free order.
- `ProcessSig(s)`: one iteration of 963-1027, in free RRSIG order. It counts the algorithm per tracked response and deletes a response once it covers every expected set. It then records the bindings (`Binding`, built on `Bound`, the per-DNSKEY-set loop with `checked_keys`, the self-signature filter and `BestGroup`) and marks roles (`RoleKeys`).
- `EndRRset`: the MissingRRSIG family, 1029-1045.
- `DnskeyStatus`: `_populate_dnskey_status` (C7, 1672-1723), once every RRset is done, for one choice of trust anchors and `dnskey_with_ds`. It returns early without a DNSKEY RRset, raises TypeError for a non-zone with keys (1692 reads `revoked_keys`, which is `None`), and otherwise files RevokedNotSigning, DNSKEYMissingFromServers (an error for a ZSK, a key with DS or a trust anchor, else a warning) and TrustAnchorNotSigning (for every trust anchor, but only when none of them is a KSK). The keys are the corpus's DNSKEY sets (`_index_dnskeys`, 149-176).

**`AnalysisPipeline`** (C1 composed with C8 and C9) extends `PopulateStatus`.
It runs the three passes over one graph, each over the roots in order:
- `populate_status` (the `PopulateStatus` actions, as `PopulateStep`);
- `_set_response_component_status` (1792-1822): `CStartRoot`, `CCallChild`, `CNextPhase`, `CReturn`;
- `serialize_status` (2043-2153) into one shared dict `d`: `SStartRoot`, `SCallChild`, `SNextPhase`, `SNoneSigner`, `SEmit`.

The caller that sequences the passes is outside `src/`. Its steps (`EndPopulate`,
`EndComponent`, `EndSerialize`, `SStartRoot`) are marked `spec_modelled`.

The C8 traversal has a trace check but no memo and no stub check. `rcs` is
the set of names whose `response_component_status` is set. The dict's contents
come from the authentication graph `G` (outside `src/`) and are not modelled.

The C9 traversal has:
- the trace check, the stub check and the memo on `name_str in d` (`emitted`);
- the level gates (`SCallees`) and the levels passed down (`ChildLevel`);
- `ancestry_only` for the CNAME calls of a recursive analysis (`recursive`, chosen in `PInit`).

`SEmit` checks the fields the entry reads (`SerializeReads`): the name status,
`rrsig_status`, and `ds_status_by_ds` for a zone's DS delegation (not
`is_dlv`) and DLV delegation. A missing field is a `TypeError`. An external
signer that maps to `None` is dereferenced at 2077 (`SNoneSigner`).

**`NegativeResponse`** (C5) models `_populate_negative_response_status`
(1507-1608) for one `NegativeResponseInfo`, called with the error classes of
`_populate_nodata_status` (which has an UpwardReferral class) or of
`_populate_nxdomain_status` (which does not).

The corpus `c` fixes:
- the triples that returned the answer, and what each one did: RD+RA, upward referral, DO requested, server answers with DO, a NotAuthoritative notice;
- the SOA RRsets in list order, each with its owner (the zone's or another name) and its triples;
- the NSEC sets in list order, each with its validity and its triples.

The NSEC proof itself is in `status.py`, outside `src/`, so it is reduced to
the set's validity.

State and actions, one action per loop of the function:
- `PopulateResponseErrors` is the first loop (1518-1523): it seeds `servers_without_soa` and `servers_missing_nsec` and calls the C2 classifier on every response. The classifier's warnings and errors per triple are `respWarn`/`respErr`; its NotAuthoritative notices are `notAuth`; its raise ends the evaluation (`exc = "Exception"`).
- `SoaStep` handles one SOA RRset: it empties `servers_without_soa`, sets `soa_owner_name_for_servers` and raises BadSOA. A triple already removed raises `KeyError` (`exc`, 1530).
- `MissingSoa` raises MissingSOA or UpwardReferral.
- `SuppressNotAuth` removes the upward referrals' triples from the NotAuthoritative notices (`notAuth`).
- `NsecStep` handles one NSEC set: `statuses`, `status_by_response` (`byResp`) and `servers_missing_nsec`.
- `CollectStatuses` adds the `status_by_response` values.
- `MissingNsec` raises MissingNSEC or UnableToRetrieveDNSSECRecords.

The same module models `_populate_wildcard_status` (859-906), for corpora of
kind `WILDCARD`: `WildcardStart` takes the `qname_obj is None` branch, where
the zone name is read from a variable bound only inside the other branch
(a `NameError`, 862), and `WildcardMissingNsec` files MissingNSECForWildcard
for the triples that returned no NSEC set.

C3 and the InconsistentNXDOMAIN cross-check are composed into the same
module, in `populate_status` order (592-596):
- The corpus also gives the info's qname, its query (qname, rdtype) and the name's other queries. These are records of `NameStatus`: answer RRsets, NODATA and NXDOMAIN infos with their server-client pairs (RD+RA and upward referral per pair), and a proper-referral flag.
- `PopulateNameStatus` (604-687, without the CNAME loop that `PopulateStatus` models) runs first. It sets `yxdomain`, `nxrrset` and `nameStatus` from the pure operators of **`NameStatus`**: `YxdomainOf`, `NxrrsetOf` and `NameStatusOf`. The referral test only ever adds the name, so the dict order of the queries does not change the result, and one atomic step is exact.
- `PopulateInvalidResponseStatus` comes next. `_populate_rrsig_status_all` ends each query with `_populate_invalid_response_status` (1119), and this step files `response_errors` of the info's query from its error infos (`qErrors`, `ResponseErrors.InvalidResponseErrors`).
- `InconsistentNxdomain` (1628-1652) runs after an NXDOMAIN info is evaluated without an exception. It files the InconsistentNXDOMAIN errors (`incons`, `NameStatus.InconsistentFor`). Each error is keyed by the noerror query's rdtype and records the answer or NODATA info it is filed against, with the NXDOMAIN info's responses for the shared pairs.

**`ResponseErrors`** (C2) models `_populate_response_errors` (689-858) as
operators over one response: the retry cause at `responsive_cause_index`, the
EDNS versions, the requested and effective EDNS flags as 16-bit integers
(`Bitwise`), the payload mismatch, the answer of the `server_responsive_*`
probe, and the AA/RD/RA bits. `EdnsFallbackError` is the fallback taxonomy
(697-765), `EdnsUsageWarnings` the version and payload warnings,
`FlagLoop` the recursive loop from bit 15 down with its `break`, and
`Classify` the filing into warnings (an `InvalidResponseError`, or an
unsigned zone) or errors, the raise at 836, and NotAuthoritative or
RecursionNotAvailable. `SpecResponseErrors` is spec section 4.7 written out
independently, as the reference. `InvalidResponseErrors` is
`_populate_invalid_response_status` (1054-1084): one error per error info,
with `TimeoutAttempts`, the backward loop over the retry history (1064-1068),
and `LegitInvalidRcode` (1071-1080). `SpecInvalidResponseErrors` is its
reference.

Every set and dict is iterated in a free order. Python's loop variables
outlive their loops, so `last` holds the triple that `server, client,
response` last named. `StatusOwner` reads it at 1574/1577, and `usedOwner`
records what each NSEC status was given.

The MC modules `MCPopulateStatus`, `MCDelegationStatus`, `MCNSStatus`,
`MCRRSIGStatus`, `MCAnalysisPipeline` and `MCNegativeResponse` give the
constants their values.

## Runs

| Run | Expect | What it shows |
|---|---|---|
| `populate_root_order` | violation of `RootsFullyEvaluated` | With roots `[ex, dl]` where `dl` is `ex`'s DLV parent, `dl` is first evaluated with `is_dlv=True` (no delegation status). The later root call returns at the memo, line 551. |
| `populate_nonzone_dnskey` | violation of `NoNoneFieldRead` | A non-zone with DNSKEY answers reads `revoked_keys`, which is `None` (line 1692). The `DNSKEYNotAtZoneApex` branch is therefore dead. |
| `delegation_pass` | pass (15.7k states) | See below. |
| `delegation_nosep` | violation of `NoSEPWhenNoSecureEntry` | Spec scenario 2 (digest type 99) gets no NoSEP, because of the `elif supported_ds_algs` at 1411. |
| `ns_pass` | pass (171k states) | See below. |
| `ns_incomplete` | violation of `NSDiagnosticsExact` | The delegation is INCOMPLETE (the DS query was NXDOMAIN) and the parent has no NS names. No `NSNameNotInParent` is reported, because 1166 compares the whole `delegation_status` dict with a constant. |
| `rrsig_pass` | pass (785k states) | See below. |
| `rrsig_stub` | violation of `MissingRRSIGExact` | An RRSIG by a stub signer is skipped before its algorithm is counted (971), so its response gets `MissingRRSIGForAlgDNSKEY`. |
| `pipeline_pass` | pass (1.25M states) | See below. |
| `negative_pass` | pass (221k states) | See below. |
| `negative_first_valid` | violation of `StatusesFirstValidWins` | Triple `r1` returned a valid NSEC set and then an invalid one. The invalid status is returned too: the invalid set overwrites the `status_by_response` entry that the valid set had deleted (1590-1594). |
| `pipeline_none_signer` | violation of `SerializeNeverRaises` | `ww` has an external signer that maps to `None`. `populate_status` (579) and C8 (1810) skip it; `serialize_status` calls a method on it (2077) and raises AttributeError. |

`delegation_pass` checks, over 2799 corpora and in every order of the DS rdata:
- The DS loop implements `DelegationVerdict` (`DelegationRefinesVerdict`). It returns, and its final status equals `AbstractStatus`. The fairness is `WF_vars(Next)`: `_populate_ds_status` is one sequential call with no waits.
- `MissingSEPForAlg(r, a)` is reported exactly when some DS RRset has algorithm `a` and response `r` returned no self-signature of algorithm `a` by a key bound to a DS of that RRset (`MissingSEPExact`).

`ns_pass` covers every split of two NS names between parent and child, every
resolution and glue outcome, and every visiting order.
- `NSDiagnosticsExact`: each diagnostic is reported once, exactly when its set difference (spec 4.6 step 4) is non-empty, and names exactly that set.
- Glue mismatches carry the right addresses.
- The IPv4 warning appears exactly when neither side has IPv4.
- The INCOMPLETE-without-parent-names case is left to `ns_incomplete`.

`rrsig_pass` covers about 18,000 corpora (`RRSIGPassCorpora`), in every RRset and RRSIG order:
- `MissingRRSIGExact`: the MissingRRSIG family per response equals spec 4.3 step 5, computed from the RRSIGs the response returned. The early deletion at 982 changes nothing.
- `RolesFromApexSignatures` (the KSK/ZSK invariant of spec section 8): every key that really made an RRSIG over the apex DNSKEY RRset holding it is a KSK, and every key that made one over another apex RRset (not DS) is a ZSK. A key has a role only if such an RRSIG names it by algorithm and tag. The upper bound is the claimed signers, not the real ones, because 1007-1019 bind the whole winning priority group of each DNSKEY set: a forged RRSIG, or a key sharing algorithm and tag, still gives a role (see Findings). The reference works from the corpus (`by`, `forged`, tags), not from the bindings.
- `KeyDiagnosticsFromSigners` (C4 composed with C7): TrustAnchorNotSigning goes only to trust anchors of the zone. It goes to none of them while one of them really made a self-signature, and to all of them when no self-signature even names one. DNSKEYMissingFromServers is an error for every missing key that really signed another apex RRset, has a DS or is a trust anchor. It is an error for no missing key that no such RRSIG names and that has neither. The code decides both from `ksks`/`zsks` (1688, 1710), so this checks the role bookkeeping of 1009-1020 through what C7 reports.

`pipeline_pass` covers every graph of `MCPopulateStatus` the collector
normally produces, plus ones whose `ww` has an unanalysed external signer, for
authoritative and recursive analyses. It checks the C1 driver and the two
later passes together:
- A name is evaluated at most once (`EvaluatedOnce`).
- `YxrrsetIsCnameClosure`: when the analysis completes, every name's `yxrrset` holds the answers of exactly the names its CNAME chain reaches. In a CNAME cycle the copy at 675 can read a target that is still being rebuilt further up the recursion; the property shows a later rerun always repairs it. The mutant that copies before evaluating a `None` target breaks it on the three-name cycle `ex -> ww -> dl -> ex`.
- After all roots return, every non-stub name reachable without an MX edge has been evaluated (`ReachableEvaluated`).
- `SerializeReadsPopulated`: the serialiser never emits a name whose fields it reads are None. This covers names `populate_status` skipped and a DLV registry evaluated with `is_dlv=True` from its DS side. Both traversals share the trace, the stub check, the memo and the child order, and the level gates only prune.
- `ComponentStatusCovers`: every emitted name has its component status set, so no RRset or DNSKEY status is silently left out.
- `PipelineTerminates`: the three passes end, `populate_status` included, even on graphs with cycles. The C8 traversal has no memo, so only its trace bounds it.

`negative_pass` covers every corpus of `MCCorpora` (NODATA, NXDOMAIN, wildcard and classifier corpora) in every
iteration order:
- `NegativeDiagnosticsAsSpecified`: the errors equal spec 4.5 steps 2, 3 and 5, computed from the corpus alone: BadSOA, MissingSOA/UpwardReferral, and MissingNSEC/UnableToRetrieveDNSSECRecords, each with exactly its triples. The NotAuthoritative notices keep exactly the triples that were not upward referrals.
- `StatusesLatestSetWins`: the statuses returned are the valid ones, plus, for each relevant triple whose last NSEC set is invalid, that set's status. This is what the code guarantees; `negative_first_valid` shows it differs from spec 4.5 step 4.
- `ResponseErrorsAsSpecified`: for every response with at most one differing EDNS flag, the warnings and errors C2 files equal spec 4.7 (`SpecResponseErrors`), over every cause, RCODE, EDNS version, flag pair, signedness and analysis type of the corpus.
- `NoUnknownFlagException`: the "Unknown EDNS-flag-related error" raise (836) is never reached: whenever a cause is known and the flags differ, the loop finds the differing bit.
- `NoerrorIffExistenceProved` (C3): the name is NOERROR exactly when spec 4.1 proves it exists. The reference is written independently of `YxdomainOf`: an answer it owns, a NODATA for it from a response that is for the queried name or recursive and is not an upward referral, or a proper referral in a referral-type query for the name itself. An NXDOMAIN for the name then gives NXDOMAIN.
- `InvalidResponseErrorsAsSpecified` (C2): for every error code, every retry history of up to two entries, and every EDNS version and RCODE, `response_errors` holds the error spec 4.7 names. The Timeout attempts count the queries since the last transport switch (a closed form, not the code's loop), and there is no InvalidRcode in the legitimate cases of spec section 8.
- `InconsistentNxdomainAsSpecified` (C3 composed with C5): InconsistentNXDOMAIN is carried by exactly the NXDOMAIN responses whose server-client also answered the qname, or sent NODATA for it, in a query other than DS or DLV, provided the qname is proved to exist. Each such answer carries the same responses under its query's rdtype.

Each property of a passing run has a mutant in `PROJECT.json`: a plausible bug
that TLC catches. The mutants are:
- dropping the memo;
- dropping the trace check;
- indenting the signer/NS loops under `if follow_mx`;
- starting frames at phase 0;
- not checking the DS digest before counting a validating SEP;
- not resetting `algs_signing_sep` per RRset;
- skipping one answer too many after a CNAME;
- treating an unknown parent NS set as "not in parent";
- reading `auth_mapping[name]` without the membership test;
- keeping the DS/DLV algorithm sets for a DLV RRset;
- dropping the self-signature filter;
- giving a role to the None binding;
- passing ancestry calls `RDTYPES_DELEGATION`;
- serialising without the stub check;
- leaving the DLV parent out of the C8 traversal;
- dropping the C8 trace check;
- giving BadSOA all of an SOA's triples when the name is not the query's name;
- keeping the `status_by_response` entry when an NSEC set is valid;
- looking up the SOA owner without the zone-name default;
- running the flag loop as `range(15, 0, -1)`, which skips bit 0;
- dropping the legitimate-RCODE exemption of the EDNS fallback;
- a Timeout attempt loop that never meets the transport switch;
- counting an upward-referral NODATA as proof of existence;
- dropping the `yxdomain` test of 1629;
- filing TrustAnchorNotSigning per trust anchor instead of all-or-nothing (1719).

## Bounds and why they are enough

**`MCAnalysisPipeline`** reuses the graphs of `MCPopulateStatus` (3072 graphs,
times two analysis types). It adds the graphs where `ww`'s external signer is
`None`, and 768 graphs (`CnameGraphs`) of CNAME chains and cycles: every
subset of `ex -> ww`, `ww -> dl`, `dl -> ww`, `dl -> ex` and `ww -> ww`, with or
without the MX and NS dependencies of `ex` on `ww`. A cycle of three names
is the smallest in which a copied target is itself only partly rebuilt. The C8 traversal re-enters a name on each path, so a run reaches depth
349 on four names. Larger graphs add paths, not new control.

**`MCPopulateStatus`** has four names:
- `rt`: the root, a zone, optionally a stub;
- `ex`: a zone under `rt`;
- `ww`: a non-zone name under `ex`;
- `dl`: a DLV registry under `rt`.

Any subset of nine optional edges may be present:
- a CNAME cycle `ww`↔`dl`;
- MX `ex`→`ww` and `ww`→`dl`;
- NS dependencies `ex`→`ww` (a cycle through `ww`'s parent link), `ex`→`dl` and `dl`→`ex`;
- an external signer `ww`→`dl`;
- the DLV link `ex`→`dl`.

That gives 3072 graphs. Together they contain:
- a cycle of every dependency kind, including one through a parent link;
- a name reached first through MX and then through a non-MX edge;
- two targets in one loop, so the dict order matters;
- stubs;
- two roots.

Four names are the fewest for which a DLV registry, a zone, a non-zone and a
cycle through a parent can all occur. `MaxDepth = 6` exceeds the number of
names, so the recursion bound never cuts a legal behaviour.

**`MCDelegationStatus`** has three keys:
- `kA`: algorithm 8;
- `kB`: algorithm 13;
- `kR`: algorithm 8, revoked; its pre-revoke tag is 30.

It also has five DS rdata:
- `dA`: valid;
- `dAx`: wrong digest;
- `dA99`: unsupported digest type;
- `dB`: the DS of `kB`;
- `dR`: minted before `kR` was revoked.

The RRSIG kinds are:
- valid by `kA`;
- forged `kA`;
- expired `kA`;
- `kB`;
- the post-revoke `kR`.

Each RRSIG kind is absent, served to `r1` only, or served to both responses.
The corpora include:
- eight DS answer lists, including two RRsets of different algorithms and a CNAME;
- two DNSKEY RRsets where a second server returned `kA` alone, so `checked_keys` and the per-set group matter;
- every combination of the fallback flags.

**`MCNSStatus`** has two NS names:
- 1: inside the zone, so it needs glue;
- 2: outside it.

There are two addresses. Each name is served by the parent, the child or both.
Each name's resolution fails, is empty, or gives one of two addresses. Its
glue is empty or one of two addresses. Two names are the fewest for which a
difference and an intersection of the parent and child sets can both be
non-empty.

`NameCorpora` of `MCNegativeResponse` add the C3 context. An NXDOMAIN or NODATA
info for `N` (the analysed name) or `P` (a probe or DLV name) is returned by
`r1` and `r2`, each plain, an upward referral, or recursive. It belongs to a
query for `N` or `P` of an ordinary, DS or DLV type. Beside it come ten choices
of other queries:
- nothing;
- an answer owned by the qname at `r1`, in an MX query or in a DS query;
- an upward-referral NODATA at `r2`, alone or with that DS answer;
- a recursive NODATA at `r2`, in a query for `P`;
- a proper referral for `N`, or for `P`;
- an NXDOMAIN for the probe;
- two MX queries (for `N` and `P`) answering the qname at `r1` and `r2`.

Together these reach every way into `yxdomain`, both exclusions of DS/DLV,
a shared pair that is and one that is not proof, and the merge of two errors
under one rdtype.

`InvalidCorpora` give a plain NODATA answer's query each error-info choice:
- each code alone;
- a timeout with each of the 13 retry histories of up to two entries (a switch to TCP or UDP, or another action);
- an invalid RCODE with each of five RCODEs and each effective EDNS version -1, 0 and 1;
- a FORMERR together with a timeout.

Two entries are enough to place the switch first, last or nowhere.

**`MCRRSIGStatus`** has three keys:
- `kA`: algorithm 8, tag 10;
- `kB`: algorithm 13, tag 20;
- `kX`: algorithm 8, tag 10, colliding with `kA`.

It has two responses and two RRsets:
- the apex DNSKEY RRset, signed by `kA`, by a forged `kA` RRSIG, and by `kB`;
- a second RRset, signed by `kA`, by `kB`, and by `kB` under an unknown signer. It is the zone's SOA, or a CNAME of another owner that `r2` synthesised from a DNAME.

Each RRSIG is absent, returned by one response, or returned by both. The DNSKEY
sets are one set, one set with the colliding key, or two overlapping sets.
The second RRset also appears:
- as A, DS or DLV;
- owned by the name or not;
- with no DNSSEC algorithms;
- under a name that is not a zone.

Trust anchors are none, `kA`, `kB`, `kX` or `{kA, kB}`; `dnskey_with_ds` is
empty or `{kX}`. Together they give a trust anchor that signs, one that does
not, one outside the served keys, and a mixed pair (the all-or-nothing case).
The corpora hold no revoked key, so RevokedNotSigning is computed but not filed.

`CollisionCorpora` split `kA` and `kX` over two DNSKEY sets, with `kX` making
the RRSIG over the second RRset. `ForgedCollisionCorpora` put `kA`, `kB` and
`kX` in one DNSKEY set, with `kX` inside the signed DNSKEY RRset or only in
another server's. They take any subset of valid RRSIGs by `kA`, `kB` or `kX`
and of forged ones claiming `kA` or `kX`, over both RRsets. These are the
cases where a binding names a key that did not sign. In `PassCorpora` the
one-set choice that holds `kX` leaves it outside the DNSKEY RRset, which
stands for a DNSKEY RRset another server returned.

**`MCNegativeResponse`** has two triples, each with one of five behaviour
profiles. Those profiles cover every branch of the relevance test, the
upward-referral test and the DO test. There are five SOA lists: none, the
zone's, another owner's for both triples, one of each, and `r1` in two RRsets.
There are five NSEC lists: none, one valid, one invalid for both, valid then
invalid, and invalid then valid. Together these give both orders of valid and
invalid sets for one triple, a set shared by both triples, and a triple
without NSEC. A third triple would only repeat a profile. Wildcard corpora
take both values of `qname_obj is None` with the same NSEC lists. For C2,
triple `r1` takes each of the classifier inputs `Msgs`: every retry cause and
RCODE (a legitimate and an illegitimate one), the EDNS versions of request,
response and effective request, and five flag pairs (equal with DO, DO
disabled, bit 0 disabled, two bits disabled, bit 0 disabled with DO kept),
in signed and unsigned zones, for both analysis types. Bit 0 is the bit an
off-by-one in the loop bound misses, and DO is the bit real fallbacks drop.

## Fairness

Every component is a sequential loop or recursion that runs to completion. Weak fairness of
`Next` only says the program does not stop while a step is enabled.
`CHECK_DEADLOCK FALSE` is set because the final states, where the stack is
empty or `pc = "done"`, are the program's return, not a deadlock.
`PipelineTerminates` checks that the return is reached. For the DS loop,
the weak fairness of the abstract `Decide` inside `DelegationRefinesVerdict`
checks the same thing.

## Findings

See `PROJECT.json` `findings`. The main ones:
- The result for a root depends on the order of the roots.
- A read of a `None` field (`revoked_keys` of a non-zone) raises TypeError in `_populate_dnskey_status`.
- Spec scenario 2 ends without the NoSEP diagnostic.
- `NSNameNotInParent` is never reported for an INCOMPLETE delegation (a dict is compared with an int).
- RRSIGs by stub signers produce MissingRRSIG diagnostics.
- `serialize_status` raises AttributeError on an external signer that maps to `None`. The other two traversals skip it.

- A triple that returned a valid NSEC set before an invalid one gets the invalid status returned too (spec 4.5 step 4 says the first valid one wins).

Met while modelling, listed as hazards, without a run of their own:
- `ns_names_not_in_parent` is never sorted: 1191 sorts the other list.
- A key bound through a forged (invalid) RRSIG, and every key of its DNSKEY set sharing its algorithm and tag, still becomes a KSK/ZSK (1017-1019). Spec section 8 says a KSK signs the DNSKEY RRset. To see it, replace `ClaimedIn` by `MadeIn` in the upper bounds of `RolesFromApexSignatures` and check `rrsig_pass.cfg`: TLC finds a forged RRSIG giving a role.
- A DLV registry evaluated with `is_dlv=True` reads `dnskey_with_ds`, which is `None`, for a KSK missing from a server (1712, a TypeError). To see it, check `NoNoneFieldRead` with `Graphs <- DlvMissingKeyGraphs`.
- With colliding key tags in two DNSKEY sets, the RRSIG is bound to the valid key and to the invalid one (1008): the priority group is chosen per set, where spec 4.3 picks one group among all candidates. `CollisionCorpora` show it (the invalid `kA` becomes a ZSK); `RolesFromApexSignatures` allows it, since `kA` is named by the RRSIG.
- The SOA owner name that an NSEC status is built with (1574) comes from stale loop variables: it can be the owner of a triple that never returned that NSEC set. `usedOwner` shows it.
- For `qname_obj is None`, `_populate_wildcard_status` reads `zone_name`, which only the other branch binds: a `NameError` (862).
- The flag loop `break`s after the first differing flag, so a response with two disabled flags gets one ResponseErrorWithEDNSFlag; spec 4.7 says one per disabled flag. To see it, drop the `OneFlagDropped(x) =>` guard of `ResponseErrorsAsSpecified` and check it under `negative_pass.cfg`.
- Spec 4.1 says the CNAME propagation fails with `LoopDetected` when a node appears twice; `_populate_name_status` returns silently (611-612), and with the `None` check at 672 that return is never reached from its own recursion.
- `DNSKEYNotAtZoneApex` (1692-1693) is never filed: for a non-zone the `revoked_keys` read on the line before raises TypeError first.
- An NXDOMAIN to the name's NXDOMAIN-probe or DLV-name query makes the name NXDOMAIN when nothing proved it exists (684 tests `x.qname == qname`, for every rdtype but DS). Spec 4.1 says an NXDOMAIN proof "for it". To see it, make the second conjunct of `NoerrorIffExistenceProved` an equivalence and check it under `negative_pass.cfg`.
- Two SOA RRsets returned by one triple make `servers_without_soa.remove` raise KeyError (1530), and the negative-response evaluation stops with its first SOA half processed. Spec 4.4 step 2 processes every SOA RRset. `SoaStep` keeps the raise: in `negative_pass` TLC reaches it on corpora whose SOA RRsets share a triple.
- In spec scenario 2 the KSK enters `dnskey_with_ds` (1352); the spec says the set is empty.

## Not modelled yet, and plan

The plan, in order:
1. The contents of the C8 status dict (1726-1788). They are a function of the authentication graph `G`, which is built outside `src/`.

Formatting, logging and the server
responsiveness predicates (read-only, inputs here) stay out of scope.
