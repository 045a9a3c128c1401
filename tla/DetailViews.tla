----------------------------- MODULE DetailViews -----------------------------
(***************************************************************************)
(* The endpoints that show one thing in detail or count over everything:   *)
(*   detail        getClustersDetailForRule: the clusters a rule hits,     *)
(*   overview      overviewEndpoint,                                       *)
(*   overviewPost  overviewEndpointWithClusterIDs,                         *)
(*   workloads     getDVONamespaceList,                                    *)
(*   namespace     getDVONamespacesForCluster,                             *)
(*   ruleV1, rule, ruleUser   getContentForRuleV1, getRecommendationContent*)
(*                 and its WithUserData variant,                           *)
(*   listV1, list  getContentV1 or getRuleIDs, and getContentWithGroups.   *)
(*                                                                         *)
(* Each combines answers of several services with rule content that may    *)
(* be replaced between two reads (ContentCache), and each has its own way  *)
(* with a call that fails.  Requests share only the content, so one at a   *)
(* time is enough.  Content is reduced to which rules have some and which  *)
(* of them are tagged osd_customer.                                        *)
(***************************************************************************)
EXTENDS Naturals, Sequences, FiniteSets

CONSTANTS Rules,           \* the rules (module and error key)
          InternalRules,   \* those of internal rule modules
          Clusters,        \* the clusters of the organisation
          ManagedClusters, \* those that AMS calls managed
          MaxSwaps         \* bound: content updates during one request

ASSUME DetailViewsAssumption ==
    /\ IsFiniteSet(Rules) /\ InternalRules \subseteq Rules
    /\ IsFiniteSet(Clusters) /\ ManagedClusters \subseteq Clusters
    /\ MaxSwaps \in Nat

Views == {"detail", "overview", "overviewPost", "workloads", "namespace",
          "ruleV1", "rule", "ruleUser", "listV1", "list"}
OneRuleViews == {"detail", "ruleV1", "rule", "ruleUser"}
ContentViews == {"ruleV1", "rule", "ruleUser", "listV1", "list"}

Storages == {s \in [has : SUBSET Rules, osd : SUBSET Rules] : s.osd \subseteq s.has}
EmptyStorage == [has |-> {}, osd |-> {}]
NoRules == [c \in Clusters |-> {}]

VARIABLES
    ready,        \* ruleContentDirectory is not nil
    storage,      \* rulesWithContentStorage
    published,    \* history: the storages in place since the request began
    swaps,        \* number of content updates since then
    pc,           \* where the handler is
    view,         \* the endpoint called
    selected,     \* the rule in the path, if the view has one
    permitted,    \* checkInternalRulePermissions returns nil
    osd,          \* recommendation.OSDCustomer
    clusterInfo,  \* the clusters AMS returned, or those of the body or the path
    managed,      \* those with the managed attribute
    fallback,     \* useAggregatorFallback
    hits,         \* the rules that hit each cluster
    acked,        \* the rules acknowledged for the organisation
    disabled,     \* the rules disabled on each cluster
    severities,   \* the rules with a severity
    pending,      \* the hits the loop has still to look at
    counted,      \* the hits counted by risk and tag or by severity
    listing,      \* EnabledClusters and DisabledClusters of the detail view
    shown,        \* the rules whose content is sent
    failed,       \* history: the calls that failed
    writes        \* status codes written to the response, in order

contentVars == <<ready, storage, published, swaps>>
request == <<view, selected, permitted>>
clusterVars == <<clusterInfo, managed, fallback>>
userData == <<hits, acked, disabled>>
result == <<osd, severities, pending, counted, listing, shown>>
vars == <<contentVars, pc, request, clusterVars, userData, result, failed, writes>>

Init ==
    /\ ready = FALSE
    /\ storage = EmptyStorage
    /\ published = {EmptyStorage}
    /\ swaps = 0
    /\ pc = "idle"
    /\ view = "overview" /\ selected = {} /\ permitted = TRUE
    /\ osd = FALSE
    /\ clusterInfo = {} /\ managed = {} /\ fallback = FALSE
    /\ hits = NoRules /\ acked = {} /\ disabled = NoRules
    /\ severities = {} /\ pending = {} /\ counted = {}
    /\ listing = [enabled |-> {}, disabled |-> {}]
    /\ shown = {}
    /\ failed = {}
    /\ writes = <<>>

\* UpdateContent, seen from a request; the directory is ready before the first
\* content is stored: an update to the empty storage.
ContentSwap ==
    /\ pc # "idle"
    /\ swaps < MaxSwaps
    /\ ready' = TRUE
    /\ storage' \in Storages
    /\ published' = published \cup {storage'}
    /\ swaps' = swaps + 1
    /\ UNCHANGED <<pc, request, clusterVars, userData, result, failed, writes>>

Write(status) == writes' = Append(writes, status)
Respond(status) == Write(status) /\ pc' = "done"
RespondOneOf(statuses) == \E status \in statuses : Respond(status)
Goto(step) == pc' = step /\ UNCHANGED writes
Failing(call) == failed' = failed \cup {call}

Begin ==
    /\ pc = "idle"
    /\ view' \in Views
    /\ selected' \in IF view' \in OneRuleViews THEN {{r} : r \in Rules} ELSE {{}}
    /\ permitted' \in IF view' \in ContentViews THEN BOOLEAN ELSE {TRUE}
    /\ pc' = "params"
    /\ published' = {storage}
    /\ swaps' = 0
    /\ UNCHANGED <<ready, storage, clusterVars, userData, result, failed, writes>>

\* The token (403), and the rule, the cluster or the namespace in the path (400).
ReadParams ==
    /\ pc = "params"
    /\ \/ view = "overviewPost" /\ Goto("hits") /\ clusterInfo' \in SUBSET Clusters
       \/ /\ view \in {"overview", "workloads", "namespace"}
          /\ Goto("clusters") /\ UNCHANGED clusterInfo
       \/ /\ view \in OneRuleViews \cup ContentViews
          /\ Goto("content") /\ UNCHANGED clusterInfo
       \/ /\ view \notin {"ruleV1", "rule", "listV1", "list"}
          /\ Respond(403) /\ UNCHANGED clusterInfo
       \/ /\ view \in OneRuleViews \cup {"namespace"}
          /\ Respond(400) /\ UNCHANGED clusterInfo
    /\ UNCHANGED <<contentVars, request, managed, fallback, userData, result, failed>>

(***************************************************************************)
(* Static content.                                                         *)
(***************************************************************************)
WithGroups == view \in {"rule", "ruleUser", "list"}

\* getContentCheckInternal: what of the rule in the path may be shown.
Visible == IF permitted THEN selected ELSE selected \ InternalRules

\* GetContentForRecommendation or GetRuleContentV1 for the rule in the path.
ReadRuleContent ==
    /\ pc = "content" /\ view \in OneRuleViews
    /\ \/ ~ready /\ Respond(503) /\ UNCHANGED <<osd, shown>>
       \/ ready /\ ~(selected \subseteq storage.has) /\ Respond(404) /\ UNCHANGED <<osd, shown>>
       \/ /\ ready /\ selected \subseteq storage.has
          /\ \/ /\ view = "detail"
                /\ osd' = (selected \subseteq storage.osd)
                /\ Goto("clusters")
                /\ UNCHANGED shown
             \/ /\ view \in ContentViews /\ Visible # selected
                /\ Respond(403)
                /\ UNCHANGED <<osd, shown>>
             \/ /\ view \in ContentViews /\ Visible = selected
                /\ shown' = selected
                /\ Goto(IF WithGroups THEN "groups" ELSE "send")
                /\ UNCHANGED osd
    /\ UNCHANGED <<contentVars, request, clusterVars, userData, severities, pending, counted,
                   listing, failed>>

\* GetAllContentV1, GetAllContentV2, GetRuleIDs; without the permission the
\* internal rules are left out.
ReadAllContent ==
    /\ pc = "content" /\ view \notin OneRuleViews
    /\ \/ ~ready /\ Respond(503) /\ UNCHANGED shown
       \/ /\ ready
          /\ shown' = IF permitted THEN storage.has ELSE storage.has \ InternalRules
          /\ Goto(IF WithGroups THEN "groups" ELSE "send")
    /\ UNCHANGED <<contentVars, request, clusterVars, userData, osd, severities, pending, counted,
                   listing, failed>>

\* getGroupsConfig (Groups)
GetGroups ==
    /\ pc = "groups"
    /\ \/ Goto(IF view = "ruleUser" THEN "rating" ELSE "send") /\ UNCHANGED failed
       \/ RespondOneOf({400, 500, 503}) /\ Failing("groups")
    /\ UNCHANGED <<contentVars, request, clusterVars, userData, result>>

\* getRatingForRecommendation; a rating that is not found counts as none.
ReadRating ==
    /\ pc = "rating"
    /\ \/ Goto("acks") /\ UNCHANGED failed
       \/ RespondOneOf({400, 500, 503}) /\ Failing("rating")
    /\ UNCHANGED <<contentVars, request, clusterVars, userData, result>>

\* A risk that does not fit into 8 bits (safeUint8) ends the request.
SendContent ==
    /\ pc = "send"
    /\ \/ Respond(200)
       \/ view \in {"rule", "ruleUser"} /\ Respond(500)
    /\ UNCHANGED <<contentVars, request, clusterVars, userData, result, failed>>

(***************************************************************************)
(* Clusters.                                                               *)
(***************************************************************************)

\* readClusterInfoForOrgID; from the aggregator no cluster is known as managed.
\* The namespace view asks for its cluster only.
ReadClusterInfo ==
    /\ pc = "clusters"
    /\ clusterInfo' \in IF view = "namespace" THEN {{c} : c \in Clusters} ELSE SUBSET Clusters
    /\ managed' \in {clusterInfo' \cap ManagedClusters, {}}
    /\ Goto("hits")
    /\ UNCHANGED <<contentVars, request, fallback, userData, result, failed>>

\* With the error comes what AMS had listed before it.  The detail view goes on
\* with that; the overview writes the error and goes on without hits.
ReadClusterInfoFails ==
    /\ pc = "clusters"
    /\ Failing("clusters")
    /\ clusterInfo' \in IF view \in {"detail", "overview"} THEN SUBSET Clusters ELSE {{}}
    /\ managed' = clusterInfo' \cap ManagedClusters
    /\ \/ view = "detail" /\ fallback' = TRUE /\ Goto("hits")
       \/ /\ view = "overview" /\ UNCHANGED fallback
          /\ \E status \in {400, 404, 500, 503} : Write(status)
          /\ pc' = "loop"
       \/ view = "workloads" /\ RespondOneOf({400, 404, 500, 503}) /\ UNCHANGED fallback
       \/ view = "namespace" /\ RespondOneOf({404, 500, 503}) /\ UNCHANGED fallback
    /\ UNCHANGED <<contentVars, request, userData, result>>

\* Without an AMS client, but with the aggregator allowed in its place,
\* getDVONamespacesForCluster calls the nil client; net/http recovers the panic
\* and closes the connection.
CallNilClient ==
    /\ pc = "clusters" /\ view = "namespace"
    /\ Failing("panic")
    /\ pc' = "done"
    /\ UNCHANGED <<contentVars, request, clusterVars, userData, result, writes>>

\* Deviation: managed clusters stay in.
ConsideredAll == clusterInfo

\* The clusters a view asks the aggregator about; the detail view leaves managed
\* ones out unless the rule is meant for them.
Considered == IF view = "detail" /\ ~osd THEN clusterInfo \ managed ELSE clusterInfo

(***************************************************************************)
(* Hits, acknowledgements and disabled rules.                              *)
(***************************************************************************)
Subfunctions(f) == {g \in [Clusters -> SUBSET Rules] : \A c \in Clusters : g[c] \subseteq f[c]}

\* getImpactedClustersFromAggregator without a list of clusters.
AsksAboutAll == fallback /\ Considered = {}

\* What the aggregator may answer: about the clusters it is asked for, or, to
\* the detail view without a cluster list, about all.  The namespace list is
\* filtered afterwards, so for it any cluster may come.
PossibleHits ==
    Subfunctions([c \in Clusters |->
        IF c \in Considered \/ AsksAboutAll \/ view = "workloads"
        THEN IF view = "detail" THEN selected ELSE Rules
        ELSE {}])

AfterHits ==
    CASE view = "detail" -> "disabled"
      [] view \in {"overview", "overviewPost"} -> "acks"
      [] OTHER -> "severities"

\* getImpactedClusters, getClustersAndRecommendations, getWorkloadsForCluster or
\* getWorkloadsForOrganization.  The detail view asks nothing if there are no
\* clusters left.
ReadHits ==
    /\ pc = "hits" /\ view # "overviewPost"
    /\ hits' \in PossibleHits
    /\ Goto(AfterHits)
    /\ UNCHANGED <<contentVars, request, clusterVars, acked, disabled, result, failed>>

\* The reports of the clusters in the body, which say what is disabled as well; one
\* that cannot be decoded is skipped, like one without hits.
ReadReports ==
    /\ pc = "hits" /\ view = "overviewPost"
    /\ \/ /\ hits' \in PossibleHits
          /\ disabled' \in Subfunctions(hits')
          /\ Goto(AfterHits) /\ UNCHANGED failed
       \/ /\ RespondOneOf({400, 404, 500, 503}) /\ Failing("hits")
          /\ UNCHANGED <<hits, disabled>>
    /\ UNCHANGED <<contentVars, request, clusterVars, acked, result>>

\* A call that fails, its answer that cannot be read, or another status, here
\* 404.  The overview goes on, after a 404 even to the acknowledgements; the
\* detail view writes the error of a failed call twice, and takes another
\* status for no hits; the workloads of an organisation go on with none.
ReadHitsFails ==
    /\ pc = "hits" /\ view # "overviewPost"
    /\ view = "detail" => Considered # {} \/ AsksAboutAll
    /\ Failing("hits")
    /\ \/ /\ view = "overview"
          /\ \/ \E status \in {400, 500, 503} : Write(status) /\ pc' = "loop"
             \/ Write(404) /\ pc' = "acks"
       \/ view = "namespace" /\ RespondOneOf({400, 404, 500, 503})
       \/ /\ view = "workloads"
          /\ \/ Write(503) /\ pc' = "severities"
             \/ RespondOneOf({400, 500})
       \/ /\ view = "detail"
          /\ \/ writes' = writes \o <<500, 500>> /\ pc' = "done"
             \/ RespondOneOf({400, 500})
             \/ Goto("disabled")
    /\ UNCHANGED <<contentVars, request, clusterVars, userData, result>>

HittingRules == UNION {hits[c] : c \in Clusters}

AfterAcks ==
    CASE view = "detail" -> "process"
      [] view = "overview" -> "disabled"
      [] view = "overviewPost" -> "loop"
      [] OTHER -> "send"

\* filterOutDisabledRules, isDisabledRule
EnabledHits(known) == {h \in Clusters \X Rules : h[1] \in clusterInfo
    /\ h[2] \in hits[h[1]] \ (known \cup disabled[h[1]])}

\* getRuleAcksMap, readRuleDisableStatus; of the acknowledged rules only those
\* that hit a cluster, or the one in the path, matter.
ReadAcks ==
    /\ pc = "acks"
    /\ acked' \in SUBSET IF view \in OneRuleViews THEN selected ELSE HittingRules
    /\ pending' = IF view = "overviewPost" THEN EnabledHits(acked') ELSE {}
    /\ Goto(AfterAcks)
    /\ UNCHANGED <<contentVars, request, clusterVars, hits, disabled, osd, severities, counted,
                   listing, shown, failed>>

\* overviewEndpointWithClusterIDs returns without a response; the content with
\* user data ignores the error and calls the rule enabled.
ReadAcksFails ==
    /\ pc = "acks"
    /\ Failing("acks")
    /\ \/ view = "detail" /\ RespondOneOf({400, 500}) /\ UNCHANGED pending
       \/ view = "overview" /\ Write(500) /\ pc' = "loop" /\ pending' = EnabledHits({})
       \/ view = "overviewPost" /\ pc' = "done" /\ UNCHANGED <<writes, pending>>
       \/ view = "ruleUser" /\ Goto("send") /\ UNCHANGED pending
    /\ UNCHANGED <<contentVars, request, clusterVars, userData, osd, severities, counted,
                   listing, shown>>

\* getListOfDisabledClusters: also clusters the rule does not hit;
\* getUserDisabledRulesPerCluster: of which only the hits matter.
ReadDisabled ==
    /\ pc = "disabled"
    /\ disabled' \in IF view = "detail" THEN [Clusters -> SUBSET selected] ELSE Subfunctions(hits)
    /\ pending' = IF view = "detail" THEN {} ELSE
          {h \in EnabledHits(acked) : h[2] \notin disabled'[h[1]]}
    /\ Goto(IF view = "detail" THEN "acks" ELSE "loop")
    /\ UNCHANGED <<contentVars, request, clusterVars, hits, acked, osd, severities, counted,
                   listing, shown, failed>>

\* Deviation: the detail view goes on as well.
ReadDisabledFailsGoesOn ==
    /\ pc = "disabled"
    /\ Failing("disabled")
    /\ Goto(IF view = "detail" THEN "acks" ELSE "loop")
    /\ pending' = EnabledHits(acked)
    /\ UNCHANGED <<contentVars, request, clusterVars, userData, osd, severities, counted,
                   listing, shown>>

\* The overview goes on without the disabled rules.
ReadDisabledFails ==
    /\ pc = "disabled"
    /\ Failing("disabled")
    /\ \/ view = "detail" /\ RespondOneOf({400, 500}) /\ UNCHANGED pending
       \/ view = "overview" /\ Goto("loop") /\ pending' = EnabledHits(acked)
    /\ UNCHANGED <<contentVars, request, clusterVars, userData, osd, severities, counted,
                   listing, shown>>

(***************************************************************************)
(* What the views make of it.                                              *)
(***************************************************************************)

\* processClustersDetailResponse
ProcessClustersDetail ==
    /\ pc = "process"
    /\ LET off == {c \in Considered : disabled[c] # {}}
           rest == {c \in Clusters : hits[c] # {}} \ off
       IN listing' = [enabled |-> IF acked = {} THEN rest ELSE {},
                      disabled |-> off \cup (IF acked = {} THEN {} ELSE rest)]
    /\ Respond(200)
    /\ UNCHANGED <<contentVars, request, clusterVars, userData, osd, severities, pending, counted,
                   shown, failed>>

\* One turn of a loop over hits: the timeout error ends it, and a rule that is
\* not among those that count is left out.
Lookup(h, counts) ==
    /\ pending' = pending \ {h}
    /\ \/ ~ready /\ Respond(503) /\ UNCHANGED counted
       \/ /\ ready /\ Goto("loop")
          /\ counted' = IF h[2] \in counts THEN counted \cup {h} ELSE counted
    /\ UNCHANGED <<contentVars, request, clusterVars, userData, osd, severities, listing, shown,
                   failed>>

\* Deviation: a rule without content ends the loop.
CountHitBreaks ==
    /\ pc = "loop" /\ view = "overview"
    /\ \E h \in pending :
        /\ pending' = IF ready /\ h[2] \in storage.has THEN pending \ {h} ELSE {}
        /\ counted' = IF ready /\ h[2] \in storage.has THEN counted \cup {h} ELSE counted
    /\ UNCHANGED <<contentVars, pc, request, clusterVars, userData, osd, severities, listing,
                   shown, failed, writes>>

\* getOrganizationOverview: on a managed cluster only rules for those count.
CountHit ==
    /\ pc = "loop" /\ view = "overview"
    /\ \E h \in pending :
          Lookup(h, IF h[1] \in managed THEN storage.osd ELSE storage.has)

\* generateOrgOverview, which does not know of managed clusters.
CountReportHit ==
    /\ pc = "loop" /\ view = "overviewPost"
    /\ \E h \in pending : Lookup(h, storage.has)

\* GetExternalRuleSeverities.  processWorkloadsRecommendations counts from this
\* map alone, and skips inactive clusters; fillInWorkloadsData goes on to read
\* the content of each rule.
ReadSeverities ==
    /\ pc = "severities"
    /\ \/ ~ready /\ Respond(IF view = "workloads" THEN 503 ELSE 500)
          /\ UNCHANGED <<severities, counted, pending>>
       \/ /\ ready
          /\ severities' = storage.has \ InternalRules
          /\ LET active == {h \in Clusters \X Rules : h[1] \in clusterInfo /\ h[2] \in hits[h[1]]}
             IN \/ /\ view = "workloads"
                   /\ counted' = {h \in active : h[2] \in severities'}
                   /\ Respond(200)
                   /\ UNCHANGED pending
                \/ /\ view = "namespace"
                   /\ pending' = active
                   /\ Goto("loop")
                   /\ UNCHANGED counted
    /\ UNCHANGED <<contentVars, request, clusterVars, userData, osd, listing, shown, failed>>

\* Deviation: a rule without content is skipped after it was counted.
FillInRecommendationSkips ==
    /\ pc = "loop" /\ view = "namespace"
    /\ \E h \in pending :
        /\ pending' = pending \ {h}
        /\ counted' = IF h[2] \in severities THEN counted \cup {h} ELSE counted
        /\ shown' = shown \cup (IF ready /\ h[2] \in storage.has THEN {h[2]} ELSE {})
        /\ Goto("loop")
    /\ UNCHANGED <<contentVars, request, clusterVars, userData, osd, severities, listing, failed>>

\* One turn of the loop of fillInWorkloadsData; a rule without content ends the
\* request.
FillInRecommendation ==
    /\ pc = "loop" /\ view = "namespace"
    /\ \E h \in pending :
        /\ pending' = pending \ {h}
        /\ counted' = IF h[2] \in severities THEN counted \cup {h} ELSE counted
        /\ \/ ready /\ h[2] \in storage.has /\ shown' = shown \cup {h[2]} /\ Goto("loop")
           \/ ~(ready /\ h[2] \in storage.has) /\ Respond(500) /\ UNCHANGED shown
    /\ UNCHANGED <<contentVars, request, clusterVars, userData, osd, severities, listing, failed>>

SendResult ==
    /\ pc = "loop" /\ pending = {}
    /\ Respond(200)
    /\ UNCHANGED <<contentVars, request, clusterVars, userData, result, failed>>

\* The handler has returned; the next request starts from clean locals.
EndRequest ==
    /\ pc = "done"
    /\ pc' = "idle"
    /\ osd' = FALSE
    /\ clusterInfo' = {} /\ managed' = {} /\ fallback' = FALSE
    /\ hits' = NoRules /\ acked' = {} /\ disabled' = NoRules
    /\ severities' = {} /\ pending' = {} /\ counted' = {}
    /\ listing' = [enabled |-> {}, disabled |-> {}]
    /\ shown' = {}
    /\ failed' = {}
    /\ writes' = <<>>
    /\ UNCHANGED <<contentVars, request>>

Next ==
    \/ ContentSwap
    \/ Begin \/ ReadParams
    \/ ReadRuleContent \/ ReadAllContent \/ GetGroups \/ ReadRating \/ SendContent
    \/ ReadClusterInfo \/ ReadClusterInfoFails \/ CallNilClient
    \/ ReadHits \/ ReadHitsFails \/ ReadReports
    \/ ReadAcks \/ ReadAcksFails
    \/ ReadDisabled \/ ReadDisabledFails
    \/ ProcessClustersDetail \/ CountHit \/ CountReportHit \/ ReadSeverities \/ FillInRecommendation
    \/ SendResult \/ EndRequest

Spec == Init /\ [][Next]_vars

-----------------------------------------------------------------------------
StableRules == {r \in Rules : \A s \in published : r \in s.has}
StableManagedRules == {r \in Rules : \A s \in published : r \in s.osd}
EverManagedRules == {r \in Rules : \E s \in published : r \in s.osd}

Sent == pc = "done" /\ writes = <<200>>

(***************************************************************************)
(* Which clusters the detail view lists, and where, whatever the content   *)
(* does meanwhile (handlers_v2.go:1071-1282).  No cluster is on both       *)
(* lists, and each cluster the rule hits and that the aggregator told of   *)
(* is on one.  With a list of AMS, be it the part before a page that       *)
(* failed, only clusters of that list are listed, a managed one only if    *)
(* the content said during the request that the rule is for managed        *)
(* clusters; and exactly those are enabled for which the rule is neither   *)
(* acknowledged nor disabled.  What is missing without a list is the       *)
(* subject of DisabledClustersLeftOut.                                     *)
(***************************************************************************)
DetailListsExact ==
    view = "detail" /\ Sent =>
        LET on == listing.enabled
            off == listing.disabled
            hit == {c \in Clusters : hits[c] # {}}
        IN /\ on \cap off = {}
           /\ hit \subseteq on \cup off
           /\ off \subseteq {c \in Clusters : disabled[c] # {} \/ (acked # {} /\ c \in hit)}
           /\ acked # {} => on = {}
           /\ ~AsksAboutAll =>
                /\ on \cup off \subseteq clusterInfo
                /\ (on \cup off) \cap managed # {} => selected \subseteq EverManagedRules
                /\ on = {c \in hit : acked \cup disabled[c] = {}}

(***************************************************************************)
(* "omit disabled clusters" (handlers_v2.go:1252): the detail view shows   *)
(* no cluster as enabled for which the rule is disabled.                   *)
(***************************************************************************)
DisabledClustersLeftOut ==
    view = "detail" /\ Sent => \A c \in listing.enabled : disabled[c] = {}

(***************************************************************************)
(* What the overviews and the workloads count: only hits on clusters of    *)
(* the list that are neither acknowledged nor disabled as far as known,    *)
(* with content (for managed clusters, if need be) in some generation of   *)
(* the request; and every such hit whose content was there throughout,     *)
(* in whatever order the hits are looked up, external rules only for the   *)
(* workloads (handlers_v1.go:177-374, handlers_v2.go:1666-1867).           *)
(***************************************************************************)
CountedHitsExact ==
    LET Countable(c) == (hits[c] \ (acked \cup disabled[c]))
                          \ IF view \in {"workloads", "namespace"} THEN InternalRules ELSE {}
        manages == view = "overview"
    IN /\ \A h \in counted :
            /\ h[1] \in clusterInfo /\ h[2] \in Countable(h[1])
            /\ \E s \in published : h[2] \in s.has
            /\ manages /\ h[1] \in managed => h[2] \in EverManagedRules
       /\ view \in {"overview", "overviewPost", "workloads", "namespace"} /\ Sent =>
            \A c \in clusterInfo :
                \A r \in Countable(c) \cap (IF manages /\ c \in managed THEN StableManagedRules
                                            ELSE StableRules) :
                    <<c, r>> \in counted

(***************************************************************************)
(* Content that is sent: an internal rule only to an organisation with the *)
(* permission, the list complete for it but for rules that came or went    *)
(* during the request; and a namespace only with the content of all of its *)
(* recommendations, those it counts included (handlers_v2.go:88-307,       *)
(* 944-983, 1797-1867, handlers_v1.go:64-175).                             *)
(***************************************************************************)
ContentSent ==
    /\ view \in ContentViews /\ ~permitted => shown \cap InternalRules = {}
    /\ view \in {"listV1", "list"} /\ Sent =>
          StableRules \ (IF permitted THEN {} ELSE InternalRules) \subseteq shown
    /\ view = "namespace" /\ Sent => shown = HittingRules

(***************************************************************************)
(* What a client learns of a failed call: the status written first is 200  *)
(* only if no call failed, except for the disabled rules of the overview,  *)
(* the acknowledgement of the content with user data, and the clusters and *)
(* hits of the detail view; a request is left without a response only by   *)
(* the nil AMS client and by the acknowledgements of the overview of given *)
(* clusters; and a second one is written only after an error               *)
(* (handlers_v1.go:251-374, handlers_v2.go:88-307, 1072-1141, 1615-1795).  *)
(* The second of these requests is the subject of OverviewErrorHandled.    *)
(***************************************************************************)
FailuresAnswered ==
    pc = "done" =>
        /\ writes = <<>> => \/ view = "namespace" /\ failed = {"panic"}
                            \/ view = "overviewPost" /\ failed = {"acks"}
        /\ writes # <<>> /\ writes[1] = 200 =>
             failed \subseteq CASE view = "overview" -> {"disabled"}
                                [] view = "ruleUser" -> {"acks"}
                                [] view = "detail" -> {"clusters", "hits"}
                                [] OTHER -> {}
        /\ Len(writes) > 1 => failed # {} /\ writes[1] >= 400

(***************************************************************************)
(* "server error has been handled already" (handlers_v1.go:303): when the  *)
(* overview of given clusters ends after a failed call, an error has been  *)
(* written.                                                                *)
(***************************************************************************)
OverviewErrorHandled ==
    view = "overviewPost" /\ pc = "done" /\ failed # {} =>
        writes # <<>> /\ writes[1] >= 400
=============================================================================
