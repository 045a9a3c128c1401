------------------------------ MODULE ListViews ------------------------------
(***************************************************************************)
(* The two list views of the Advisor (server/handlers_v2.go):              *)
(* getRecommendations, the rules with the number of clusters each hits,    *)
(* and getClustersView, the clusters with the rules that hit each.  Both   *)
(* combine the clusters of AMS, the hits, the acknowledgements and the     *)
(* disabled rules of the aggregator, and rule content that the goroutine   *)
(* modelled in ContentCache may replace between two reads.                 *)
(*                                                                         *)
(* Requests share nothing but the content, so one at a time is enough.     *)
(* What the content says of a rule is reduced to whether there is some and *)
(* whether it is tagged osd_customer, which managed clusters require.      *)
(***************************************************************************)
EXTENDS Naturals, Sequences, FiniteSets

CONSTANTS Rules,          \* the rules (rule module and error key)
          InternalRules,  \* those of the internal rule modules
          Clusters,       \* the clusters of the organisation
          MaxSwaps        \* bound: content updates during one request

ASSUME ListViewsAssumption ==
    /\ IsFiniteSet(Rules) /\ InternalRules \subseteq Rules
    /\ IsFiniteSet(Clusters)
    /\ MaxSwaps \in Nat

Views == {"recommendations", "clusters"}

\* The impacting parameter: IncludingImpacting, OnlyImpacting, ExcludingImpacting.
ImpactingFlags == {"including", "only", "excluding"}

Storages == {s \in [has : SUBSET Rules, osd : SUBSET Rules] : s.osd \subseteq s.has}
EmptyStorage == [has |-> {}, osd |-> {}]
NoRules == [c \in Clusters |-> {}]

VARIABLES
    ready,          \* ruleContentDirectory is not nil
    storage,        \* rulesWithContentStorage
    published,      \* history: the storages in place since the request began
    swaps,          \* number of content updates since then
    pc,             \* where the handler is
    view,           \* the endpoint called
    impactingFlag,
    clusterInfo,    \* the clusters AMS returned
    managed,        \* those with the managed attribute
    hits,           \* the rules that hit each cluster
    acked,          \* the rules acknowledged for the organisation
    disabled,       \* the rules disabled on each cluster
    ruleIDs,        \* the rules the loop has still to look at
    contentErr,     \* the named result err of getFilteredRecommendationsList is set
    listed,         \* recommendationList
    impacted,       \* ImpactedClustersCnt of the listed rules
    severities,     \* the rules with a severity
    counted,        \* the rules in TotalHitCount of each cluster
    failed,         \* history: the calls to other services that failed
    writes          \* status codes written to the response, in order

contentVars == <<ready, storage, published, swaps>>
request == <<view, impactingFlag>>
inputs == <<clusterInfo, managed, hits, acked, disabled>>
loop == <<ruleIDs, contentErr, listed, impacted>>
match == <<severities, counted>>
vars == <<contentVars, pc, request, inputs, loop, match, failed, writes>>

Init ==
    /\ ready = FALSE
    /\ storage = EmptyStorage
    /\ published = {EmptyStorage}
    /\ swaps = 0
    /\ pc = "idle"
    /\ view = "clusters"
    /\ impactingFlag = "including"
    /\ clusterInfo = {}
    /\ managed = {}
    /\ hits = NoRules
    /\ acked = {}
    /\ disabled = NoRules
    /\ ruleIDs = {}
    /\ contentErr = FALSE
    /\ listed = {}
    /\ impacted = [r \in Rules |-> 0]
    /\ severities = {}
    /\ counted = NoRules
    /\ failed = {}
    /\ writes = <<>>

\* UpdateContent of the content package, seen from a request.  The directory is
\* ready before the first content is stored: an update to the empty storage.
ContentSwap ==
    /\ pc # "idle"
    /\ swaps < MaxSwaps
    /\ ready' = TRUE
    /\ storage' \in Storages
    /\ published' = published \cup {storage'}
    /\ swaps' = swaps + 1
    /\ UNCHANGED <<pc, request, inputs, loop, match, failed, writes>>

Write(status) == writes' = Append(writes, status)
Respond(status) == Write(status) /\ pc' = "done"

\* A call failed and handleServerError wrote its error: 400 for an answer that
\* is no JSON, 404 for an organisation AMS does not know, 503 for an
\* unavailable service, else 500.  getRecommendations returns, but
\* getClusterListAndUserData returns without an error and getClustersView goes
\* on with what it has.
GiveUp(call, statuses) ==
    /\ \E status \in statuses : Write(status)
    /\ failed' = failed \cup {call}
    /\ pc' = IF view = "recommendations" THEN "done" ELSE "severities"

(***************************************************************************)
(* What both views do.                                                     *)
(***************************************************************************)
Begin ==
    /\ pc = "idle"
    /\ view' \in Views
    /\ impactingFlag' \in IF view' = "recommendations" THEN ImpactingFlags ELSE {"including"}
    /\ pc' = "params"
    /\ published' = {storage}
    /\ swaps' = 0
    /\ UNCHANGED <<ready, storage, inputs, loop, match, failed, writes>>

\* The token, and the impacting parameter of readParamsGetRecommendations.
ReadParams ==
    /\ pc = "params"
    /\ \/ pc' = "clusters" /\ UNCHANGED writes
       \/ Respond(403)
       \/ view = "recommendations" /\ Respond(400)
    /\ UNCHANGED <<contentVars, request, inputs, loop, match, failed>>

ReadClusterInfo ==
    /\ pc = "clusters"
    /\ clusterInfo' = Clusters
    /\ managed' \in SUBSET Clusters
    /\ pc' = "hits"
    /\ UNCHANGED <<contentVars, request, hits, acked, disabled, loop, match, failed, writes>>

\* With the error comes what AMS had listed before it, which getClustersView
\* goes on with.
ReadClusterInfoFails ==
    /\ pc = "clusters"
    /\ GiveUp("clusters", {400, 404, 500, 503})
    /\ clusterInfo' \in IF view = "clusters" THEN SUBSET Clusters ELSE {{}}
    /\ managed' \in SUBSET clusterInfo'
    /\ UNCHANGED <<contentVars, request, hits, acked, disabled, loop, match>>

\* getImpactingRecommendations, getClustersAndRecommendations
ReadHits ==
    /\ pc = "hits"
    /\ hits' \in [Clusters -> SUBSET Rules]
    /\ pc' = "acks"
    /\ UNCHANGED <<contentVars, request, clusterInfo, managed, acked, disabled, loop, match,
                   failed, writes>>

ReadHitsFails ==
    /\ pc = "hits"
    /\ GiveUp("hits", IF view = "clusters" THEN {400, 500, 503} ELSE {400, 500})
    /\ UNCHANGED <<contentVars, request, inputs, loop, match>>

\* Another status, 404 here, is passed on.  The err that is returned is the
\* one of responses.Send, nil, so the handler goes on without any hits.
ReadHitsOtherStatus ==
    /\ pc = "hits"
    /\ Write(404)
    /\ failed' = failed \cup {"hits"}
    /\ pc' = "acks"
    /\ UNCHANGED <<contentVars, request, inputs, loop, match>>

\* getRuleAcksMap
ReadAcks ==
    /\ pc = "acks"
    /\ acked' \in SUBSET Rules
    /\ pc' = "disabled"
    /\ UNCHANGED <<contentVars, request, clusterInfo, managed, hits, disabled, loop, match,
                   failed, writes>>

\* Deviation: the error is only logged.
ReadAcksFailsSilently ==
    /\ pc = "acks"
    /\ failed' = failed \cup {"acks"}
    /\ pc' = "disabled"
    /\ UNCHANGED <<contentVars, request, inputs, loop, match, writes>>

ReadAcksFails ==
    /\ pc = "acks"
    /\ GiveUp("acks", {500})
    /\ UNCHANGED <<contentVars, request, inputs, loop, match>>

AfterDisabled == IF view = "recommendations" THEN "ruleIDs" ELSE "severities"

\* The answers of the aggregator, by cluster; only the rules that hit a cluster
\* matter among those disabled on it.
DisabledRulesPerCluster ==
    {d \in [Clusters -> SUBSET Rules] : \A c \in Clusters : d[c] \subseteq hits[c]}

ReadDisabled ==
    /\ pc = "disabled"
    /\ disabled' \in DisabledRulesPerCluster
    /\ pc' = AfterDisabled
    /\ UNCHANGED <<contentVars, request, clusterInfo, managed, hits, acked, loop, match,
                   failed, writes>>

\* Both views go on without the disabled rules: getUserDisabledRulesPerCluster
\* logs the error, getRuleDisabledClusters may have written it as well.
ReadDisabledFails ==
    /\ pc = "disabled"
    /\ failed' = failed \cup {"disabled"}
    /\ pc' = AfterDisabled
    /\ \/ UNCHANGED writes
       \/ view = "recommendations" /\ \E status \in {500, 503} : Write(status)
    /\ UNCHANGED <<contentVars, request, inputs, loop, match>>

(***************************************************************************)
(* getFilteredRecommendationsList                                          *)
(***************************************************************************)
HitBy(r) == {c \in Clusters : r \in hits[c]}

GenerateRuleIDs ==
    /\ pc = "ruleIDs"
    /\ \/ /\ impactingFlag = "only"
          /\ ruleIDs' = {r \in Rules : HitBy(r) # {}}
          /\ pc' = "loop"
          /\ UNCHANGED writes
       \/ /\ impactingFlag # "only" /\ ready
          /\ ruleIDs' = storage.has \ InternalRules
          /\ pc' = "loop"
          /\ UNCHANGED writes
       \/ /\ impactingFlag # "only" /\ ~ready
          /\ Respond(503)
          /\ UNCHANGED ruleIDs
    /\ UNCHANGED <<contentVars, request, inputs, contentErr, listed, impacted, match, failed>>

\* Deviation: managed clusters are added again instead of left out.
ImpactedClustersCntTwice(r) ==
    LET on == {c \in HitBy(r) : r \notin disabled[c]}
    IN Cardinality(on) + IF r \in storage.osd THEN 0 ELSE Cardinality(on \cap managed)

\* Deviation: the clusters on which the rule is disabled are counted.
ImpactedClustersCntIgnoresDisabled(r) ==
    Cardinality(IF r \in storage.osd THEN HitBy(r) ELSE HitBy(r) \ managed)

\* excludeDisabledClusters, and the count without the managed clusters unless
\* the rule is tagged osd_customer
ImpactedClustersCnt(r) ==
    LET on == {c \in HitBy(r) : r \notin disabled[c]}
    IN Cardinality(IF r \in storage.osd THEN on ELSE on \ managed)

\* Deviation: a rule without content ends the loop.
FilterRecommendationBreaks ==
    /\ pc = "loop"
    /\ \E r \in ruleIDs :
        /\ ruleIDs' = IF ready /\ r \in storage.has THEN ruleIDs \ {r} ELSE {}
        /\ listed' = IF ready /\ r \in storage.has THEN listed \cup {r} ELSE listed
    /\ UNCHANGED <<contentVars, pc, request, inputs, contentErr, impacted, match, failed, writes>>

\* One turn of the loop; the order is that of a map.  The named result err
\* keeps the outcome of the last lookup.  A risk in the content that does not
\* fit into 8 bits (safeUint8) ends the request.
FilterRecommendation ==
    /\ pc = "loop"
    /\ \E r \in ruleIDs :
        /\ ruleIDs' = ruleIDs \ {r}
        /\ \/ /\ HitBy(r) # {} /\ impactingFlag = "excluding"
              /\ UNCHANGED <<pc, contentErr, listed, impacted, writes>>
           \/ /\ HitBy(r) = {} \/ impactingFlag # "excluding"
              /\ \/ /\ ~ready
                    /\ Respond(503)
                    /\ UNCHANGED <<contentErr, listed, impacted>>
                 \/ /\ ready /\ r \notin storage.has
                    /\ contentErr' = TRUE
                    /\ UNCHANGED <<pc, listed, impacted, writes>>
                 \/ /\ ready /\ r \in storage.has
                    /\ contentErr' = FALSE
                    /\ listed' = listed \cup {r}
                    /\ impacted' = [impacted EXCEPT ![r] = ImpactedClustersCnt(r)]
                    /\ UNCHANGED <<pc, writes>>
                 \/ /\ ready /\ r \in storage.has
                    /\ Respond(500)
                    /\ UNCHANGED <<contentErr, listed, impacted>>
    /\ UNCHANGED <<contentVars, request, inputs, match, failed>>

\* The end of getRecommendations; the error left over is an ItemNotFoundError.
SendRecommendations ==
    /\ pc = "loop"
    /\ ruleIDs = {}
    /\ Respond(IF contentErr THEN 404 ELSE 200)
    /\ UNCHANGED <<contentVars, request, inputs, loop, match, failed>>

(***************************************************************************)
(* matchClusterInfoAndUserData                                             *)
(***************************************************************************)

\* GetExternalRuleSeverities.  The timeout error is written by getClustersView,
\* which goes on with an empty list.
ReadSeverities ==
    /\ pc = "severities"
    /\ \/ /\ ready
          /\ severities' = storage.has \ InternalRules
          /\ pc' = "match"
          /\ UNCHANGED writes
       \/ /\ ~ready
          /\ Write(503)
          /\ pc' = "sendClusters"
          /\ UNCHANGED severities
    /\ UNCHANGED <<contentVars, request, inputs, loop, counted, failed>>

\* Deviation: only the acknowledgements are filtered out.
EnabledUnlessAcked(c, r) == r \in hits[c] /\ r \notin acked

\* filterOutDisabledRules
Enabled(c, r) == r \in hits[c] /\ r \notin acked /\ r \notin disabled[c]

\* Deviation: all clusters are treated as managed.
MatchClustersAllManaged ==
    /\ pc = "match"
    /\ counted' = [c \in Clusters |->
                    {r \in severities : /\ c \in clusterInfo
                                        /\ Enabled(c, r)
                                        /\ r \in storage.osd \ InternalRules}]
    /\ pc' = "sendClusters"
    /\ UNCHANGED <<contentVars, request, inputs, loop, severities, failed, writes>>

\* GetExternalRulesManagedInfo, a second read of the content, and the loop
\* over the clusters.
MatchClusters ==
    /\ pc = "match"
    /\ counted' = [c \in Clusters |->
                    {r \in severities : /\ c \in clusterInfo
                                        /\ Enabled(c, r)
                                        /\ c \in managed => r \in storage.osd \ InternalRules}]
    /\ pc' = "sendClusters"
    /\ UNCHANGED <<contentVars, request, inputs, loop, severities, failed, writes>>

SendClusters ==
    /\ pc = "sendClusters"
    /\ Respond(200)
    /\ UNCHANGED <<contentVars, request, inputs, loop, match, failed>>

\* The handler has returned; the next request starts from clean locals.
EndRequest ==
    /\ pc = "done"
    /\ pc' = "idle"
    /\ clusterInfo' = {}
    /\ managed' = {}
    /\ hits' = NoRules
    /\ acked' = {}
    /\ disabled' = NoRules
    /\ ruleIDs' = {}
    /\ contentErr' = FALSE
    /\ listed' = {}
    /\ impacted' = [r \in Rules |-> 0]
    /\ severities' = {}
    /\ counted' = NoRules
    /\ failed' = {}
    /\ writes' = <<>>
    /\ UNCHANGED <<contentVars, request>>

Next ==
    \/ ContentSwap
    \/ Begin \/ ReadParams
    \/ ReadClusterInfo \/ ReadClusterInfoFails
    \/ ReadHits \/ ReadHitsFails \/ ReadHitsOtherStatus
    \/ ReadAcks \/ ReadAcksFails
    \/ ReadDisabled \/ ReadDisabledFails
    \/ GenerateRuleIDs \/ FilterRecommendation \/ SendRecommendations
    \/ ReadSeverities \/ MatchClusters \/ SendClusters
    \/ EndRequest

Spec == Init /\ [][Next]_vars

-----------------------------------------------------------------------------
RulesPerCluster == [Clusters -> SUBSET Rules]

TypeOK ==
    /\ ready \in BOOLEAN
    /\ storage \in Storages
    /\ published \subseteq Storages
    /\ swaps \in 0..MaxSwaps
    /\ pc \in {"idle", "params", "clusters", "hits", "acks", "disabled", "ruleIDs", "loop",
               "severities", "match", "sendClusters", "done"}
    /\ view \in Views
    /\ impactingFlag \in ImpactingFlags
    /\ clusterInfo \subseteq Clusters
    /\ managed \subseteq clusterInfo
    /\ hits \in RulesPerCluster
    /\ acked \subseteq Rules
    /\ disabled \in RulesPerCluster
    /\ ruleIDs \subseteq Rules
    /\ contentErr \in BOOLEAN
    /\ listed \subseteq Rules
    /\ impacted \in [Rules -> 0..Cardinality(Clusters)]
    /\ severities \subseteq Rules
    /\ counted \in RulesPerCluster
    /\ failed \subseteq {"clusters", "hits", "acks", "disabled"}
    /\ writes \in Seq({200, 400, 403, 404, 500, 503})

StableRules == {r \in Rules : \A s \in published : r \in s.has}
StableManagedRules == {r \in Rules : \A s \in published : r \in s.osd}
EverManagedRules == {r \in Rules : \E s \in published : r \in s.osd}

(***************************************************************************)
(* A hit is counted for a cluster only if the rule hits it, is external,   *)
(* neither acknowledged nor disabled there, and was known to the content   *)
(* during the request, as one for managed clusters if the cluster is       *)
(* managed - if need be in another generation, since the two maps are read *)
(* one after the other.  And no hit is lost to a content update between    *)
(* the two reads: an enabled external rule that every generation in place  *)
(* during the request knows, for managed clusters if need be, is counted   *)
(* (handlers_v2.go:524-591).                                               *)
(***************************************************************************)
CountedHitsExact ==
    /\ \A c \in Clusters : \A r \in counted[c] :
          /\ r \in hits[c] \ (acked \cup disabled[c] \cup InternalRules)
          /\ \E s \in published : r \in s.has
          /\ c \in managed => \E s \in published : r \in s.osd
    /\ view = "clusters" /\ pc \in {"sendClusters", "done"} =>
          \A c \in clusterInfo :
              (hits[c] \ (acked \cup disabled[c] \cup InternalRules))
                \cap (IF c \in managed THEN StableManagedRules ELSE StableRules)
              \subseteq counted[c]

\* The rules that a value of the impacting parameter selects.
Selected(flag) ==
    CASE flag = "only" -> {r \in Rules : HitBy(r) # {}}
      [] flag = "including" -> Rules
      [] flag = "excluding" -> {r \in Rules : HitBy(r) = {}}

(***************************************************************************)
(* A listed rule fits the impacting parameter, and its number of impacted  *)
(* clusters is that of all clusters it hits and is not disabled on if it   *)
(* is for managed clusters, that of the unmanaged ones if it is not, and   *)
(* between the two if the content changed its mind.  A list that is sent is*)
(* complete: the rules the parameter selects and whose content was there   *)
(* throughout the request are in it (the external ones, unless only hit    *)
(* ones were asked for), in whatever order the map is walked and whichever *)
(* other rules have no content (handlers_v2.go:690-771).                   *)
(***************************************************************************)
ListedRulesExact ==
    /\ \A r \in listed :
          LET on == {c \in HitBy(r) : r \notin disabled[c]} IN
          /\ r \in Selected(impactingFlag)
          /\ impacted[r] \in Cardinality(on \ managed)..Cardinality(on)
          /\ r \in StableManagedRules => impacted[r] = Cardinality(on)
          /\ r \notin EverManagedRules => impacted[r] = Cardinality(on \ managed)
    /\ view = "recommendations" /\ writes # <<>> /\ writes[Len(writes)] = 200 =>
          (StableRules \cap Selected(impactingFlag))
             \ (IF impactingFlag = "only" THEN {} ELSE InternalRules)
          \subseteq listed

(***************************************************************************)
(* The client can tell that data is missing: its status, the one written   *)
(* first, is 200 only if the clusters, the hits and the acknowledgements   *)
(* were read, although the handlers go on after some errors and then write *)
(* another response; and every request is answered                         *)
(* (server.go:1438-1481, handlers_v2.go:312-385, 437-478).                 *)
(***************************************************************************)
FailuresVisible ==
    /\ writes # <<>> /\ writes[1] = 200 => failed \subseteq {"disabled"}
    /\ pc = "done" => writes # <<>>

-----------------------------------------------------------------------------
(***************************************************************************)
(* "missing rule content, simply omit the rule as we can't display         *)
(* anything" (handlers_v2.go:741): as long as no call fails, a missing     *)
(* content does not turn the list into an error.                           *)
(***************************************************************************)
MissingContentOmitted ==
    pc = "done" /\ failed = {} => writes # <<404>>
=============================================================================
