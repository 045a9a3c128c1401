------------------------------- MODULE Report -------------------------------
(***************************************************************************)
(* The endpoints that combine a report of the aggregator with rule content *)
(* (server/server.go): reportEndpointV1, reportEndpointV2,                 *)
(* singleRuleEndpoint and reportMetainfoEndpoint.                          *)
(*                                                                         *)
(* A request looks rules up one by one, and the goroutine modelled in      *)
(* ContentCache may replace the content between two lookups.  Requests     *)
(* share nothing else, so one request at a time is enough.                 *)
(*                                                                         *)
(* A rule stands for a pair of rule module and error key; what the content *)
(* says of a rule is reduced to whether there is some, and whether it is   *)
(* tagged osd_customer, which is what managed clusters show.               *)
(***************************************************************************)
EXTENDS Naturals, Sequences, FiniteSets

CONSTANTS Rules,          \* the rules that may hit a cluster
          InternalRules,  \* those of the internal rule modules
          MaxSwaps        \* bound: content updates during one request

ASSUME RulesAssumption ==
    /\ IsFiniteSet(Rules)
    /\ InternalRules \subseteq Rules
    /\ MaxSwaps \in Nat

Endpoints == {"v1", "v2", "rule", "metainfo"}

Storages == {[has |-> h, osd |-> o] : h \in SUBSET Rules, o \in SUBSET Rules}
Storage == {s \in Storages : s.osd \subseteq s.has}
EmptyStorage == [has |-> {}, osd |-> {}]

\* The rules of a report, each reported once, in the order of the aggregator.
Reports ==
    UNION {{s \in [1..n -> Rules] : \A i, j \in 1..n : s[i] = s[j] => i = j} :
             n \in 0..Cardinality(Rules)}

VARIABLES
    ready,            \* ruleContentDirectory is not nil
    storage,          \* rulesWithContentStorage
    published,        \* history: the storages in place since the request began
    swaps,            \* number of content updates since then
    pc,               \* where the handler is
    endpoint,         \* the endpoint called
    token,            \* the request context holds an identity
    report,           \* aggregatorResponse.Report
    disabled,         \* the rules of it with the Disabled flag
    managed,          \* the osdFlag
    includeDisabled,  \* the get_disabled parameter
    acked,            \* systemWideRuleDisables
    acksFailed,       \* history: readListOfAckedRules returned an error
    next,             \* index of the next rule to look up
    okRules,          \* the rules to show, in order
    noContentRulesCnt,
    disabledRulesCnt,
    count,            \* report.Meta.Count of the response
    writes            \* status codes written to the response, in order

contentVars == <<ready, storage, published, swaps>>
request == <<endpoint, token>>
params == <<managed, includeDisabled, acked, acksFailed>>
filterVars == <<next, okRules, noContentRulesCnt, disabledRulesCnt>>
vars == <<contentVars, pc, request, report, disabled, params, filterVars, count, writes>>

Init ==
    /\ ready = FALSE
    /\ storage = EmptyStorage
    /\ published = {storage}
    /\ swaps = 0
    /\ pc = "idle"
    /\ endpoint = "v1"
    /\ token = FALSE
    /\ report = <<>>
    /\ disabled = {}
    /\ managed = FALSE
    /\ includeDisabled = FALSE
    /\ acked = {}
    /\ acksFailed = FALSE
    /\ next = 1
    /\ okRules = <<>>
    /\ noContentRulesCnt = 0
    /\ disabledRulesCnt = 0
    /\ count = 0
    /\ writes = <<>>

\* UpdateContent of the content package, seen from a request: from now on the
\* directory is not nil and the lookups use some other content, which is still
\* the empty one until LoadRuleContent has run for the first time.
ContentSwap ==
    /\ pc # "idle"
    /\ swaps < MaxSwaps
    /\ ready' = TRUE
    /\ storage' \in Storage
    /\ published' = published \cup {storage'}
    /\ swaps' = swaps + 1
    /\ UNCHANGED <<pc, request, report, disabled, params, filterVars, count, writes>>

Respond(status) ==
    /\ writes' = Append(writes, status)
    /\ pc' = "done"

Begin ==
    /\ pc = "idle"
    /\ endpoint' \in Endpoints
    /\ token' \in BOOLEAN
    /\ pc' = IF endpoint' = "v1" THEN "orgID" ELSE "cluster"
    /\ published' = {storage}
    /\ swaps' = 0
    /\ UNCHANGED <<ready, storage, report, disabled, params, filterVars, count, writes>>

\* reportEndpointV1 asks for the organisation before anything else.
CheckOrgID ==
    /\ pc = "orgID"
    /\ \/ token /\ pc' = "cluster" /\ UNCHANGED writes
       \/ ~token /\ Respond(403)
    /\ UNCHANGED <<contentVars, request, report, disabled, params, filterVars, count>>

\* ReadClusterName, and readRuleIDWithErrorKey for the rule endpoint: both
\* write the error themselves.
ReadPathParams ==
    /\ pc = "cluster"
    /\ \/ pc' = "identity" /\ UNCHANGED writes
       \/ Respond(400)
    /\ UNCHANGED <<contentVars, request, report, disabled, params, filterVars, count>>

\* GetCurrentOrgIDUserIDFromToken.  Without an identity fetchAggregatorReport
\* and fetchAggregatorReportMetainfo write the error and return the
\* "successful" of the step before: their callers go on, with a nil report.
CheckIdentity ==
    /\ pc = "identity"
    /\ \/ /\ token
          /\ pc' = "aggregator"
          /\ UNCHANGED writes
       \/ /\ ~token
          /\ writes' = Append(writes, 403)
          /\ pc' = CASE endpoint = "rule" -> "done"
                     [] endpoint = "metainfo" -> "send"
                     [] OTHER -> "managed"
    /\ UNCHANGED <<contentVars, request, report, disabled, params, filterVars, count>>

\* The aggregator cannot be reached, answers with another status, which is
\* passed on, or with a body that cannot be read.
AggregatorFails ==
    /\ pc = "aggregator"
    /\ \E status \in {400, 404, 500, 503} : Respond(status)
    /\ UNCHANGED <<contentVars, request, report, disabled, params, filterVars, count>>

AggregatorAnswers ==
    /\ pc = "aggregator"
    /\ CASE endpoint = "metainfo" -> UNCHANGED <<report, disabled>>
         [] endpoint = "rule" ->
              /\ \E r \in Rules : report' = <<r>>
              /\ UNCHANGED disabled
         [] OTHER ->
              /\ report' \in Reports
              /\ disabled' \in SUBSET {report'[i] : i \in 1..Len(report')}
    /\ pc' = IF endpoint = "metainfo" THEN "send" ELSE "managed"
    /\ UNCHANGED <<contentVars, request, params, filterVars, count, writes>>

\* Whether the cluster is managed: from AMS for reportEndpointV2, from AMS or
\* from the osd_eligible parameter for reportEndpointV1, from the parameter
\* for singleRuleEndpoint.  Only the AMS lookup of reportEndpointV1 can fail.
FindManaged ==
    /\ pc = "managed"
    /\ \/ /\ managed' \in BOOLEAN
          /\ pc' = IF endpoint = "rule" THEN "lookup" ELSE "params"
          /\ UNCHANGED writes
       \/ /\ endpoint = "v1"
          /\ \E status \in {404, 500} : Respond(status)
          /\ UNCHANGED managed
    /\ UNCHANGED <<contentVars, request, report, disabled, includeDisabled, acked, acksFailed,
                   filterVars, count>>

\* buildReportEndpointResponse: readGetDisabledParam, whose parse error
\* handleServerError does not know, and GetCurrentOrgID.
ReadReportParams ==
    /\ pc = "params"
    /\ \/ Respond(500) /\ UNCHANGED includeDisabled
       \/ /\ includeDisabled' \in BOOLEAN
          /\ IF token THEN pc' = "acks" /\ UNCHANGED writes ELSE Respond(403)
    /\ UNCHANGED <<contentVars, request, report, disabled, managed, acked, acksFailed, filterVars,
                   count>>

ReadAcks ==
    /\ pc = "acks"
    /\ acked' \in SUBSET Rules
    /\ pc' = "filter"
    /\ UNCHANGED <<contentVars, request, report, disabled, managed, includeDisabled, acksFailed,
                   filterVars, count, writes>>

\* readListOfAckedRules has no writer: the handler returns and net/http sends
\* an empty 200 for it.
ReadAcksFails ==
    /\ pc = "acks"
    /\ acksFailed' = TRUE
    /\ pc' = "done"
    /\ UNCHANGED <<contentVars, request, report, disabled, managed, includeDisabled, acked,
                   filterVars, count, writes>>

\* Deviation: only the acknowledgements of the organisation are looked at.
IsDisabledRuleForOrgOnly(r) == r \in acked

\* isDisabledRule and isDisabledForOrgRule
IsDisabledRule(r) == r \in disabled \/ r \in acked

\* Deviation: the OSD filter is applied to every cluster.
FetchRuleContentFiltersAll(r) ==
    CASE ~ready -> "timeout"
      [] ready /\ r \notin storage.has -> "notFound"
      [] ready /\ r \in storage.has /\ r \notin storage.osd -> "osdFiltered"
      [] OTHER -> "found"

\* The outcome of FetchRuleContent for a rule at this moment.  Without a
\* directory it waits until it times out.
FetchRuleContent(r) ==
    CASE ~ready -> "timeout"
      [] ready /\ r \notin storage.has -> "notFound"
      [] ready /\ r \in storage.has /\ managed /\ r \notin storage.osd -> "osdFiltered"
      [] OTHER -> "found"

\* Deviation: a timeout is counted and the loop goes on.
FilterRuleIgnoresTimeout ==
    /\ pc = "filter"
    /\ next <= Len(report)
    /\ next' = next + 1
    /\ LET r == report[next] IN
        IF FetchRuleContent(r) = "found"
        THEN okRules' = Append(okRules, r) /\ UNCHANGED writes
        ELSE /\ writes' = IF ready THEN writes ELSE Append(writes, 503)
             /\ UNCHANGED okRules
    /\ UNCHANGED <<noContentRulesCnt, disabledRulesCnt, pc>>
    /\ UNCHANGED <<contentVars, request, report, disabled, params, count>>

\* One turn of the loop in filterRulesInResponse, and the handling of the
\* timeout error in buildReportEndpointResponse.
FilterRule ==
    /\ pc = "filter"
    /\ next <= Len(report)
    /\ next' = next + 1
    /\ LET r == report[next]
           hidden == ~includeDisabled /\ IsDisabledRule(r)
           fetched == FetchRuleContent(r)
       IN
        /\ okRules' = IF ~hidden /\ fetched = "found" THEN Append(okRules, r) ELSE okRules
        /\ disabledRulesCnt' = disabledRulesCnt + IF hidden THEN 1 ELSE 0
        /\ noContentRulesCnt' =
              noContentRulesCnt + IF ~hidden /\ fetched \in {"notFound", "timeout"} THEN 1 ELSE 0
        /\ IF ~hidden /\ fetched = "timeout" THEN Respond(503) ELSE UNCHANGED <<pc, writes>>
    /\ UNCHANGED <<contentVars, request, report, disabled, params, count>>

\* Deviation: the rules hidden as disabled are counted too.
GetRuleCountCountsDisabled ==
    IF okRules = <<>> /\ noContentRulesCnt > 0 /\ disabledRulesCnt = 0
    THEN 0
    ELSE Len(okRules) + noContentRulesCnt + disabledRulesCnt

\* getRuleCount
GetRuleCount ==
    IF okRules = <<>> /\ noContentRulesCnt > 0 /\ disabledRulesCnt = 0
    THEN 0
    ELSE Len(okRules) + noContentRulesCnt

SendReport ==
    /\ pc = "filter"
    /\ next > Len(report)
    /\ count' = GetRuleCount
    /\ Respond(200)
    /\ UNCHANGED <<contentVars, request, report, disabled, params, filterVars>>

\* The rest of singleRuleEndpoint: content, then the permission that internal
\* rules need, which depends on the configuration and the organisation.
SendRule ==
    /\ pc = "lookup"
    /\ LET r == report[1]
           fetched == FetchRuleContent(r)
       IN \/ fetched = "timeout" /\ Respond(503) /\ UNCHANGED okRules
          \/ fetched \in {"notFound", "osdFiltered"} /\ Respond(404) /\ UNCHANGED okRules
          \/ fetched = "found" /\ okRules' = <<r>> /\ Respond(200)
          \/ fetched = "found" /\ r \in InternalRules /\ Respond(403) /\ UNCHANGED okRules
    /\ UNCHANGED <<contentVars, request, report, disabled, params, next, noContentRulesCnt,
                   disabledRulesCnt, count>>

SendMetainfo ==
    /\ pc = "send"
    /\ Respond(200)
    /\ UNCHANGED <<contentVars, request, report, disabled, params, filterVars, count>>

\* The response is flushed; a new request starts from clean locals.
EndRequest ==
    /\ pc = "done"
    /\ pc' = "idle"
    /\ report' = <<>>
    /\ disabled' = {}
    /\ managed' = FALSE
    /\ includeDisabled' = FALSE
    /\ acked' = {}
    /\ acksFailed' = FALSE
    /\ next' = 1
    /\ okRules' = <<>>
    /\ noContentRulesCnt' = 0
    /\ disabledRulesCnt' = 0
    /\ count' = 0
    /\ writes' = <<>>
    /\ UNCHANGED <<contentVars, request>>

Next ==
    \/ ContentSwap
    \/ Begin \/ CheckOrgID \/ ReadPathParams \/ CheckIdentity
    \/ AggregatorFails \/ AggregatorAnswers \/ FindManaged
    \/ ReadReportParams \/ ReadAcks \/ ReadAcksFails
    \/ FilterRule \/ SendReport \/ SendRule \/ SendMetainfo
    \/ EndRequest

Spec == Init /\ [][Next]_vars

-----------------------------------------------------------------------------
Shown == {okRules[i] : i \in 1..Len(okRules)}
Processed == {report[i] : i \in 1..(next - 1)}
Hidden(r) == ~includeDisabled /\ (r \in disabled \/ r \in acked)
Showable(r, s) == r \in s.has /\ (managed => r \in s.osd)
Stable == {r \in Processed : ~Hidden(r) /\ \A s \in published : Showable(r, s)}
ReportEndpoint == endpoint \in {"v1", "v2"}
WithoutContent == {r \in Processed : ~Hidden(r) /\ \E s \in published : r \notin s.has}

(***************************************************************************)
(* Nothing is shown that should not be: a rule of the response hits the    *)
(* cluster, is not disabled on the cluster or for the organisation unless  *)
(* the client asked for those, and one generation of the content in place  *)
(* during the request had content for it, tagged osd_customer if the       *)
(* cluster is managed.  And nothing is lost to a content update in the     *)
(* middle of a request: a rule that is not hidden and that every           *)
(* generation in place can show is in the response (filterRulesInResponse, *)
(* server.go:1293-1338, reading what LoadRuleContent replaces,             *)
(* parsing.go:104).                                                        *)
(***************************************************************************)
ShownRulesExact ==
    ReportEndpoint =>
        /\ Stable \subseteq Shown
        /\ \A r \in Shown :
              /\ r \in Processed
              /\ ~Hidden(r)
              /\ \E s \in published : Showable(r, s)

(***************************************************************************)
(* The count of a report, whichever update comes between the lookups       *)
(* (getRuleCount, server.go:1068-1084).  Neither the rules hidden as       *)
(* disabled nor those left out because they are not for managed clusters   *)
(* are in it: it counts what is shown and what some content in place did   *)
(* not have.  Every rule that could be shown throughout is in it, so that  *)
(* "No issues found" (count 0) is never sent for a cluster with a rule to  *)
(* show; and it is sent if there is nothing to show and nothing hidden.    *)
(***************************************************************************)
CountBounded ==
    ReportEndpoint /\ writes = <<200>> =>
        /\ count <= Cardinality(Shown \cup WithoutContent)
        /\ count >= Cardinality(Stable)
        /\ count >= Cardinality(Shown)
        /\ Shown = {} /\ (\A r \in Processed : ~Hidden(r)) => count = 0

(***************************************************************************)
(* "getRuleCount returns the number of visible rules without those that do *)
(* not have content" (server.go:1067): the count is that of the rules in   *)
(* the response.                                                           *)
(***************************************************************************)
CountOfShownRules ==
    ReportEndpoint /\ writes = <<200>> => count = Cardinality(Shown)

(***************************************************************************)
(* One response per request: with an identity, nothing is written before   *)
(* the handler ends and then exactly once, whatever fails and whenever,    *)
(* but for the acknowledgements (see AcksErrorHandled); without one the    *)
(* client sees a refusal, which is what is written first, although some    *)
(* handlers carry on after it (server.go:756-1184).                        *)
(***************************************************************************)
OneResponse ==
    /\ token => Len(writes) <= 1 /\ (writes # <<>> => pc = "done")
    /\ pc = "done" => writes # <<>> \/ (token /\ acksFailed)
    /\ ~token => /\ okRules = <<>>
                 /\ writes # <<>> => writes[1] \in {400, 403}

(***************************************************************************)
(* "server error has been handled already" (server.go:888): when a report  *)
(* ends because the acknowledgements could not be read, an error has been  *)
(* written.                                                                *)
(***************************************************************************)
AcksErrorHandled ==
    acksFailed => writes # <<>> /\ writes[1] >= 400
=============================================================================
