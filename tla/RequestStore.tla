----------------------------- MODULE RequestStore -----------------------------
(***************************************************************************)
(* On demand data gathering: the four endpoints of server/handlers_v2.go   *)
(* that read what another service has stored in Redis about the archives   *)
(* of a cluster, through services/redis.go.                                *)
(*                                                                         *)
(* A request ID has two keys: one that only exists (status, list) and a    *)
(* hash with the suffix ":reports" (timestamps and rule hits).  Each is    *)
(* written and expires by itself at any time, also between the SCAN calls  *)
(* of a list and between the commands of a pipeline, which is no           *)
(* transaction.  Organisation and cluster are part of every key, so those  *)
(* of one cluster are modelled.  The report also needs acknowledgements,   *)
(* disabled rules and rule content.  Requests share nothing that they      *)
(* write, so one at a time is enough.                                      *)
(***************************************************************************)
EXTENDS Naturals, Sequences, FiniteSets, SequencesExt

CONSTANTS RequestIDs,   \* request IDs of the cluster
          Rules,        \* composite rule IDs
          MaxBody,      \* bound: request IDs in the body of the POST variant
          MaxScans,     \* bound: SCAN calls of one list
          MaxChanges    \* bound: writes and expiries during one request

\* A member of the rule_hits field that is no rule ID.
BadRule == "no rule ID"

ASSUME RequestStoreAssumption ==
    /\ IsFiniteSet(RequestIDs) /\ RequestIDs # {}
    /\ IsFiniteSet(Rules) /\ BadRule \notin Rules
    /\ MaxBody \in Nat /\ MaxScans \in Nat /\ MaxChanges \in Nat

Ops == {"status", "list", "post", "report"}
Kinds == {"request", "reports"}

\* The hash under {id}:reports, by request ID.
Reports == UNION {[ids -> SUBSET (Rules \cup {BadRule})] : ids \in SUBSET RequestIDs}
NoReports == [id \in {} |-> {}]

VARIABLES
    requestKeys,   \* the request IDs whose own key exists
    reports,       \* the hashes
    ready,         \* the content directory is set
    contents,      \* the rules with content
    op, requestID, \* what is asked for
    pc,            \* where the handler is
    requestIDs,    \* the list of IDs: collected by SCAN, or from the body
    scans,         \* SCAN calls so far
    commands,      \* commands of the pipeline that Redis has executed
    statuses,      \* requestStatuses
    ruleHits, ackedRules, disabledRules,
    filtered,      \* filteredRuleHits
    failed,        \* history: the calls that failed
    writes,        \* status codes written to the response, in order
    seen,          \* history: the keys that existed at some time of the request
    held,          \* history: the keys that existed throughout
    stableContents,\* history: the rules that had content throughout
    changes        \* history: number of changes so far

store == <<requestKeys, reports>>
content == <<ready, contents, stableContents>>
request == <<op, requestID>>
lists == <<requestIDs, scans, commands, statuses>>
hits == <<ruleHits, ackedRules, disabledRules, filtered>>
history == <<seen, held, changes>>
vars == <<store, content, request, pc, lists, hits, failed, writes, history>>

\* All keys that the pattern of SCAN matches.
Keys == [id : requestKeys, kind : {"request"}] \cup [id : DOMAIN reports, kind : {"reports"}]
AllKeys == [id : RequestIDs, kind : Kinds]

Init ==
    /\ requestKeys = {} /\ reports = NoReports
    /\ ready = FALSE /\ contents = {} /\ stableContents = {}
    /\ op = "status" /\ requestID \in RequestIDs
    /\ pc = "idle"
    /\ requestIDs = <<>> /\ scans = 0 /\ commands = 0 /\ statuses = <<>>
    /\ ruleHits = {} /\ ackedRules = {} /\ disabledRules = {} /\ filtered = {}
    /\ failed = {} /\ writes = <<>>
    /\ seen = {} /\ held = {} /\ changes = 0

Write(status) == writes' = Append(writes, status)
Respond(status) == Write(status) /\ pc' = "done"
Fail(call, status) == Respond(status) /\ failed' = failed \cup {call}

(***************************************************************************)
(* The environment: the service that writes to Redis, expiry, and the      *)
(* content updates of ContentCache.                                        *)
(***************************************************************************)
Changing == pc \notin {"idle", "done"} /\ changes < MaxChanges /\ changes' = changes + 1

StoreResult ==
    /\ Changing
    /\ \/ /\ \E id \in RequestIDs \ requestKeys : requestKeys' = requestKeys \cup {id}
          /\ UNCHANGED reports
       \/ /\ \E id \in RequestIDs \ DOMAIN reports, value \in {{}, Rules} :
                reports' = [i \in DOMAIN reports \cup {id} |-> IF i = id THEN value ELSE reports[i]]
          /\ UNCHANGED requestKeys
    /\ seen' = seen \cup Keys'
    /\ UNCHANGED <<content, request, pc, lists, hits, failed, writes, held>>

Expire ==
    /\ Changing
    /\ \/ /\ \E id \in requestKeys : requestKeys' = requestKeys \ {id}
          /\ UNCHANGED reports
       \/ /\ \E id \in DOMAIN reports : reports' = [i \in DOMAIN reports \ {id} |-> reports[i]]
          /\ UNCHANGED requestKeys
    /\ held' = held \cap Keys'
    /\ UNCHANGED <<content, request, pc, lists, hits, failed, writes, seen>>

ContentSwap ==
    /\ pc \in {"acks", "disabled", "filter"}
    /\ changes < MaxChanges /\ changes' = changes + 1
    /\ ready' = TRUE
    /\ contents' \in SUBSET Rules
    /\ stableContents' = stableContents \cap contents'
    /\ UNCHANGED <<store, request, pc, lists, hits, failed, writes, seen, held>>

(***************************************************************************)
(* What the endpoints have in common.                                      *)
(***************************************************************************)
\* A request arrives; the store may hold anything that the endpoint reads.
Begin ==
    /\ pc = "idle"
    /\ op' \in Ops
    /\ requestID' \in RequestIDs
    /\ IF op' = "report"
          THEN /\ requestKeys' = {}
               /\ reports' \in {r \in Reports : DOMAIN r \subseteq {requestID'}}
               /\ ready' \in BOOLEAN
               /\ contents' \in IF ready' THEN SUBSET Rules ELSE {{}}
          ELSE /\ requestKeys' \in SUBSET RequestIDs
               /\ reports' \in {r \in Reports : \A id \in DOMAIN r : r[id] = {}}
               /\ UNCHANGED <<ready, contents>>
    /\ stableContents' = contents'
    /\ seen' = Keys' /\ held' = Keys' /\ changes' = 0
    /\ pc' = "params"
    /\ UNCHANGED <<lists, hits, failed, writes>>

\* The token (403), the cluster and the request ID of the path (400), the list
\* of request IDs in the body (400), and the Redis client (500).
ReadParams ==
    /\ pc = "params"
    /\ \/ /\ pc' = op
          /\ requestIDs' \in IF op = "post" THEN SeqOf(RequestIDs, MaxBody) ELSE {<<>>}
          /\ UNCHANGED writes
       \/ \E status \in {400, 403, 500} : Respond(status) /\ UNCHANGED requestIDs
    /\ UNCHANGED <<store, content, request, scans, commands, statuses, hits, failed, history>>

\* GetRequestStatus, with one EXISTS.
RequestExists(id) == id \in requestKeys

CheckStatus ==
    /\ pc = "status"
    /\ \/ Respond(IF RequestExists(requestID) THEN 200 ELSE 404) /\ UNCHANGED failed
       \/ Fail("redis", 500)
    /\ UNCHANGED <<store, content, request, lists, hits, history>>

(***************************************************************************)
(* GetRequestIDsForClusterID and GetTimestampsForRequestIDs                *)
(***************************************************************************)
\* The IDs of the keys without the suffix ":reports".
RequestKeysOf(keys) == {k.id : k \in {key \in keys : key.kind = "request"}}

\* Deviation: the loop ends at the first call that returns no key.
ScanStopsEarly ==
    /\ pc = "list" /\ scans < MaxScans
    /\ \E keys \in SUBSET Keys :
          /\ requestIDs' = requestIDs \o SetToSeq(RequestKeysOf(keys))
          /\ pc' = IF keys = {} THEN "found" ELSE "list"
    /\ scans' = scans + 1
    /\ UNCHANGED <<store, content, request, commands, statuses, hits, failed, writes, history>>

\* One SCAN.  Redis may return any of the present keys, none, or one that it
\* returned before; the cursor is 0 only when every key that was there all the
\* time has been returned.  The last call of MaxScans ends the list.
Scan ==
    /\ pc = "list" /\ scans < MaxScans
    /\ \E keys \in SUBSET Keys, last \in BOOLEAN :
          /\ requestIDs' = requestIDs \o SetToSeq(RequestKeysOf(keys))
          /\ last => {k.id : k \in {key \in held : key.kind = "request"}} \subseteq ToSet(requestIDs')
          /\ scans + 1 = MaxScans => last
          /\ pc' = IF last THEN "found" ELSE "list"
    /\ scans' = scans + 1
    /\ UNCHANGED <<store, content, request, commands, statuses, hits, failed, writes, history>>

ScanFails ==
    /\ pc = "list"
    /\ Fail("redis", 500)
    /\ UNCHANGED <<store, content, request, lists, hits, history>>

\* No request ID: 404 for a list, an empty pipeline for the POST variant.
CheckFound ==
    /\ pc = "found" \/ pc = "post"
    /\ IF op = "list" /\ requestIDs = <<>>
          THEN Respond(404)
          ELSE pc' = "pipeline" /\ UNCHANGED writes
    /\ UNCHANGED <<store, content, request, lists, hits, failed, history>>

Status(id, valid) == [id |-> id, valid |-> valid]

\* Deviation: an ID without data is left out for every caller.
AddStatusOmits(list, id) ==
    IF id \in DOMAIN reports THEN Append(list, Status(id, TRUE)) ELSE list

\* The list omits an ID whose hash is gone, the POST variant marks it invalid.
AddStatus(list, id) ==
    CASE id \in DOMAIN reports -> Append(list, Status(id, TRUE))
      [] id \notin DOMAIN reports /\ op = "post" -> Append(list, Status(id, FALSE))
      [] OTHER -> list

\* One HMGET of the pipeline.  Redis executes them in order, but the commands
\* of others may come between.
PipelineCommand ==
    /\ pc = "pipeline" /\ commands < Len(requestIDs)
    /\ statuses' = AddStatus(statuses, requestIDs[commands + 1])
    /\ commands' = commands + 1
    /\ UNCHANGED <<store, content, request, pc, requestIDs, scans, hits, failed, writes, history>>

PipelineFails ==
    /\ pc = "pipeline"
    /\ Fail("redis", 500)
    /\ UNCHANGED <<store, content, request, lists, hits, history>>

SendStatuses ==
    /\ pc = "pipeline" /\ commands = Len(requestIDs)
    /\ Respond(200)
    /\ UNCHANGED <<store, content, request, lists, hits, failed, history>>

(***************************************************************************)
(* getReportForRequest                                                     *)
(***************************************************************************)
\* Deviation: the members are not validated.
RuleIDsUnchecked(ruleHitsCSV) == ruleHitsCSV

\* Members of the rule_hits field that are no rule ID are skipped.
RuleIDsIn(ruleHitsCSV) == ruleHitsCSV \ {BadRule}

\* GetRuleHitsForRequest: a missing hash is 404.
ReadRuleHits ==
    /\ pc = "report"
    /\ \/ /\ requestID \in DOMAIN reports
          /\ ruleHits' = RuleIDsIn(reports[requestID])
          /\ pc' = "acks" /\ UNCHANGED <<failed, writes>>
       \/ requestID \notin DOMAIN reports /\ Respond(404) /\ UNCHANGED <<failed, ruleHits>>
       \/ Fail("redis", 500) /\ UNCHANGED ruleHits
    /\ UNCHANGED <<store, content, request, lists, ackedRules, disabledRules, filtered, history>>

\* getRuleAcksMap: every failure is an Internal Server Error.
ReadAcks ==
    /\ pc = "acks"
    /\ \/ ackedRules' \in SUBSET Rules /\ pc' = "disabled" /\ UNCHANGED <<failed, writes>>
       \/ Fail("acks", 500) /\ UNCHANGED ackedRules
    /\ UNCHANGED <<store, content, request, lists, ruleHits, disabledRules, filtered, history>>

ReadDisabled ==
    /\ pc = "disabled"
    /\ disabledRules' \in SUBSET Rules
    /\ pc' = "filter"
    /\ UNCHANGED <<store, content, request, lists, ruleHits, ackedRules, filtered, failed, writes,
                   history>>

\* Deviation: a status 500 of the aggregator is passed over in silence.
ReadDisabledFailsSilently ==
    /\ pc = "disabled"
    /\ failed' = failed \cup {"disabled"}
    /\ pc' = "filter"
    /\ UNCHANGED <<store, content, request, lists, hits, writes, history>>

\* readListOfDisabledRulesForClusters and getDisabledRulesForClusterMap: an
\* aggregator that cannot be reached is answered by both, 503 and then 500; a
\* status 500 is answered but returned without an error, so the handler goes
\* on; another status, or no JSON, is answered by the second only.
ReadDisabledFails ==
    /\ pc = "disabled"
    /\ failed' = failed \cup {"disabled"}
    /\ \/ writes' = writes \o <<503, 500>> /\ pc' = "done"
       \/ Write(500) /\ pc' = "filter"
       \/ \E status \in {400, 500} : Respond(status)
    /\ UNCHANGED <<store, content, request, lists, hits, history>>

\* A rule is shown unless it is acknowledged, disabled or without content; a
\* directory that is not ready after the timeout counts as no content.
Shown(rule) == rule \notin ackedRules \cup disabledRules /\ ready /\ rule \in contents

\* Deviation: the first rule that is not shown ends the loop.
FilterRuleBreaks ==
    /\ pc = "filter" /\ ruleHits # {}
    /\ \E rule \in ruleHits :
          /\ ruleHits' = IF Shown(rule) THEN ruleHits \ {rule} ELSE {}
          /\ filtered' = IF Shown(rule) THEN filtered \cup {rule} ELSE filtered
    /\ UNCHANGED <<store, content, request, pc, lists, ackedRules, disabledRules, failed, writes,
                   history>>

\* One step of the loop of filterRulesGetContent; content may be swapped between.
FilterRule ==
    /\ pc = "filter" /\ ruleHits # {}
    /\ \E rule \in ruleHits :
          /\ ruleHits' = ruleHits \ {rule}
          /\ filtered' = IF Shown(rule) THEN filtered \cup {rule} ELSE filtered
    /\ UNCHANGED <<store, content, request, pc, lists, ackedRules, disabledRules, failed, writes,
                   history>>

SendReport ==
    /\ pc = "filter" /\ ruleHits = {}
    /\ Respond(200)
    /\ UNCHANGED <<store, content, request, lists, hits, failed, history>>

EndRequest ==
    /\ pc = "done"
    /\ pc' = "idle"
    /\ requestKeys' = {} /\ reports' = NoReports
    /\ ready' = FALSE /\ contents' = {} /\ stableContents' = {}
    /\ requestIDs' = <<>> /\ scans' = 0 /\ commands' = 0 /\ statuses' = <<>>
    /\ ruleHits' = {} /\ ackedRules' = {} /\ disabledRules' = {} /\ filtered' = {}
    /\ failed' = {} /\ writes' = <<>>
    /\ seen' = {} /\ held' = {} /\ changes' = 0
    /\ UNCHANGED request

Handler ==
    \/ ReadParams \/ CheckStatus
    \/ Scan \/ ScanFails \/ CheckFound \/ PipelineCommand \/ PipelineFails \/ SendStatuses
    \/ ReadRuleHits \/ ReadAcks \/ ReadDisabled \/ ReadDisabledFails \/ FilterRule \/ SendReport
    \/ EndRequest

Next == Begin \/ Handler \/ StoreResult \/ Expire \/ ContentSwap

Spec == Init /\ [][Next]_vars

(***************************************************************************)
(* Properties                                                              *)
(***************************************************************************)
TypeOK ==
    /\ requestKeys \subseteq RequestIDs /\ reports \in Reports
    /\ ready \in BOOLEAN /\ contents \subseteq Rules /\ stableContents \subseteq contents
    /\ op \in Ops /\ requestID \in RequestIDs
    /\ pc \in Ops \cup {"idle", "params", "found", "pipeline", "acks", "disabled", "filter", "done"}
    /\ requestIDs \in Seq(RequestIDs)
    /\ scans \in 0..MaxScans /\ commands \in 0..Len(requestIDs)
    /\ statuses \in Seq([id : RequestIDs, valid : BOOLEAN])
    /\ ruleHits \subseteq Rules /\ ackedRules \subseteq Rules /\ disabledRules \subseteq Rules
    /\ filtered \subseteq Rules
    /\ failed \subseteq {"redis", "acks", "disabled"}
    /\ writes \in Seq({200, 400, 403, 404, 500, 503})
    /\ held \subseteq Keys /\ seen \subseteq AllKeys /\ changes \in 0..MaxChanges

Key(id, kind) == [id |-> id, kind |-> kind]
Answered(code) == pc = "done" /\ writes # <<>> /\ writes[1] = code

\* The list of requests of a cluster, collected with several SCAN calls and
\* then a pipeline: every request both of whose keys were there throughout is
\* listed, and what is listed had both keys at some time of the request.  A
\* request may be listed twice, because SCAN may repeat a key.
StoredRequestsListed ==
    (op = "list" /\ Answered(200))
        => LET listed == {statuses[i].id : i \in DOMAIN statuses} IN
           /\ {id \in RequestIDs : \A kind \in Kinds : Key(id, kind) \in held} \subseteq listed
           /\ \A id \in listed : \A kind \in Kinds : Key(id, kind) \in seen

\* The POST variant answers for every ID of the body, in its order, although
\* the results of the pipeline carry no ID of a missing hash; the ID is valid
\* if its hash was there throughout and only if it was there at some time.
PostAnswersEachID ==
    (op = "post" /\ Answered(200))
        => /\ Len(statuses) = Len(requestIDs)
           /\ \A i \in DOMAIN statuses :
                 LET key == Key(requestIDs[i], "reports") IN
                 /\ statuses[i].id = requestIDs[i]
                 /\ key \in held => statuses[i].valid
                 /\ statuses[i].valid => key \in seen

\* The report of a request shows no acknowledged or disabled rule; if its hash
\* did not expire it shows all others of its hits that had content throughout,
\* whichever content update came between the lookups of filterRulesGetContent.
ReportMatchesUserData ==
    (op = "report" /\ Answered(200))
        => /\ filtered \cap (ackedRules \cup disabledRules) = {}
           /\ Key(requestID, "reports") \in held
                 => ((reports[requestID] \cap stableContents) \ (ackedRules \cup disabledRules))
                       \subseteq filtered

\* A failed call of Redis or of the aggregator decides the status the client
\* sees, which is that of the first response, and the handler answers twice only
\* if the disabled rules could not be read.
FailureDecidesStatus ==
    pc = "done" => /\ writes # <<>>
                   /\ failed # {} => writes[1] >= 400
                   /\ Len(writes) > 1 => "disabled" \in failed
==============================================================================
