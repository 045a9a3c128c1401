------------------------------ MODULE AmsClient ------------------------------
(***************************************************************************)
(* The client of the account management service (amsclient/amsclient.go)   *)
(* and the endpoints that do little more than call it: the list of the     *)
(* clusters of an organisation with its fallback to the aggregator         *)
(* (readClusterInfoForOrgID), the details of one cluster                   *)
(* (getSingleClusterInfo, GetClusterDetailsFromExternalClusterID) and the  *)
(* upgrade risk predictions (server/upgrade_risks_prediction.go).          *)
(*                                                                         *)
(* AMS answers a query page by page, and the subscriptions that match the  *)
(* query change between two pages.  The query itself (organisation,        *)
(* status, cluster) is evaluated by AMS, so only its matches are state: a  *)
(* subscription that is archived leaves them.  AMS is not trusted to match *)
(* the requested cluster only.  Requests share nothing, so one at a time   *)
(* is enough.                                                              *)
(***************************************************************************)
EXTENDS Integers, Sequences, FiniteSets

CONSTANTS Clusters,        \* valid external cluster IDs
          ConfPageSize,    \* conf.PageSize
          DefaultPageSize, \* defaultPageSize
          MaxMatches,      \* bound: subscriptions that match a query
          MaxChanges       \* bound: changes of the subscriptions during a request

ASSUME AmsClientAssumption ==
    /\ IsFiniteSet(Clusters)
    /\ ConfPageSize \in Int
    /\ DefaultPageSize \in Nat \ {0}
    /\ MaxMatches \in Nat /\ MaxChanges \in Nat

\* An external ID that is absent, empty or no UUID.
BadID == "bad external ID"

Subscriptions == [id : Clusters, managed : BOOLEAN] \cup [id : {BadID}, managed : {FALSE}]
ClusterInfos == [id : Clusters, managed : BOOLEAN]

\* readClusterInfoForOrgID, GetClusterDetailsFromExternalClusterID,
\* getSingleClusterInfo and the two upgrade risk endpoints.
Ops == {"list", "details", "single", "predict", "predictMulti"}

VARIABLES
    matching,     \* the subscriptions that match the query, in the order of AMS
    op,           \* what is called
    cluster,      \* the cluster in the path
    useAms,       \* server.amsClient is not nil
    pc,           \* where the handler is
    pageNum,
    page,         \* the items of the current page that were not looked at yet
    infoList,     \* clusterInfoList
    outcome,      \* the status (200: no error) the call or the request ends with
    seen,         \* history: the subscriptions that matched since the query began
    stable,       \* history: the clusters that have matched since then throughout
    moved,        \* history: the clusters with a subscription that ceased to match
                  \* since then, or that stood behind one on a page read before
    changes       \* history: how often the matches have changed

input == <<op, cluster, useAms>>
history == <<seen, stable, moved, changes>>
vars == <<matching, input, pc, pageNum, page, infoList, outcome, history>>

Ids(subscriptions) == {subscriptions[i].id : i \in DOMAIN subscriptions}
Items(sequence) == {sequence[i] : i \in DOMAIN sequence}

Init ==
    /\ matching = <<>>
    /\ op = "list"
    /\ cluster \in Clusters
    /\ useAms = TRUE
    /\ pc = "idle"
    /\ pageNum = 1
    /\ page = <<>>
    /\ infoList = <<>>
    /\ outcome = 0
    /\ seen = {}
    /\ stable = {}
    /\ moved = {}
    /\ changes = 0

\* Deviation: no default.
PageSizeAsConfigured == ConfPageSize

\* NewAMSClientWithTransport replaces a page size that is not positive.
PageSize == IF ConfPageSize <= 0 THEN DefaultPageSize ELSE ConfPageSize

End(status) == pc' = "done" /\ outcome' = status

(***************************************************************************)
(* AMS: subscriptions come and go between two requests for a page.         *)
(***************************************************************************)
Changing == pc = "page" /\ changes < MaxChanges /\ changes' = changes + 1

Subscribe ==
    /\ Changing
    /\ Len(matching) < MaxMatches
    /\ \E s \in Subscriptions, i \in 0..Len(matching) :
          /\ matching' = SubSeq(matching, 1, i) \o <<s>> \o SubSeq(matching, i + 1, Len(matching))
          /\ seen' = seen \cup {s}
    /\ UNCHANGED <<input, pc, pageNum, page, infoList, outcome, stable, moved>>

Unsubscribe ==
    /\ Changing
    /\ \E i \in DOMAIN matching :
          /\ matching' = SubSeq(matching, 1, i - 1) \o SubSeq(matching, i + 1, Len(matching))
          /\ moved' = moved \cup {matching[j].id : j \in
                {k \in DOMAIN matching : k = i \/ (i < k /\ i <= (pageNum - 1) * PageSize)}}
    /\ stable' = stable \cap Ids(matching')
    /\ UNCHANGED <<input, pc, pageNum, page, infoList, outcome, seen>>

(***************************************************************************)
(* The handlers up to the first query.                                     *)
(***************************************************************************)
Begin ==
    /\ pc = "idle"
    /\ op' \in Ops
    /\ cluster' \in Clusters
    /\ useAms' \in BOOLEAN
    /\ pc' = "params"
    /\ UNCHANGED <<matching, pageNum, page, infoList, outcome, history>>

\* A missing client is an error of the two cluster endpoints, checked before
\* anything else; readClusterInfoForOrgID falls back to the aggregator if it is
\* configured to; the report only asks for details when there is a client.
NoClient ==
    /\ pc = "params" /\ ~useAms /\ op # "predictMulti"
    /\ \/ op \in {"single", "predict"} /\ End(503) /\ UNCHANGED infoList
       \/ op = "details" /\ End(200) /\ UNCHANGED infoList
       \/ op = "list" /\ End(500) /\ UNCHANGED infoList
       \/ op = "list" /\ End(503) /\ UNCHANGED infoList
       \/ /\ op = "list"
          /\ \E ids \in SUBSET Clusters :
                /\ infoList' \in [1..Cardinality(ids) -> [id : ids, managed : {FALSE}]]
                /\ Ids(infoList') = ids
          /\ End(200)
    /\ UNCHANGED <<matching, input, pageNum, page, history>>

\* The token and the cluster in the path, or the body of the multi cluster
\* endpoint: absent, no JSON, or more than MaxAllowedClusters.
ReadParams ==
    /\ pc = "params" /\ (useAms \/ op = "predictMulti")
    /\ \/ /\ pc' = CASE op = "predictMulti" -> "fetch"
                     [] op = "details" -> "query"
                     [] OTHER -> "org"
          /\ UNCHANGED outcome
       \/ op \in {"single", "predict"} /\ \E status \in {400, 403} : End(status)
       \/ op = "predictMulti" /\ End(400)
    /\ UNCHANGED <<matching, input, pageNum, page, infoList, history>>

\* GetInternalOrgIDFromExternal: the request fails or an organisation has no
\* internal ID (500), or AMS does not know the organisation (404).
GetInternalOrgID ==
    /\ pc = "org"
    /\ \/ pc' = "query" /\ UNCHANGED outcome
       \/ \E status \in {404, 500} : End(status)
    /\ UNCHANGED <<matching, input, pageNum, page, infoList, history>>

(***************************************************************************)
(* executeSubscriptionListRequest                                          *)
(***************************************************************************)
StartQuery ==
    /\ pc = "query"
    /\ \E n \in 0..MaxMatches : matching' \in [1..n -> Subscriptions]
    /\ seen' = Items(matching')
    /\ stable' = Ids(matching') \ {BadID}
    /\ moved' = {}
    /\ changes' = 0
    /\ pageNum' = 1
    /\ pc' = "page"
    /\ UNCHANGED <<input, page, infoList, outcome>>

\* The items of the n-th page of what matches now.
PageOf(n) == SubSeq(matching, (n - 1) * PageSize + 1,
                    IF n * PageSize < Len(matching) THEN n * PageSize ELSE Len(matching))

\* Deviation: an empty page does not end the loop.
GetPageGoesOn ==
    /\ pc = "page"
    /\ page' = PageOf(pageNum)
    /\ pc' = "item"
    /\ UNCHANGED <<matching, input, pageNum, infoList, outcome, history>>

GetPage ==
    /\ pc = "page"
    /\ page' = PageOf(pageNum)
    /\ pc' = IF page' = <<>> THEN "found" ELSE "item"
    /\ UNCHANGED <<matching, input, pageNum, infoList, outcome, history>>

\* The pages read before are returned with the error.  The list of the clusters
\* is passed on to callers that go on with it; the callers about one cluster drop
\* it, and the details are empty then: no display name, and not managed.
GetPageFails ==
    /\ pc = "page"
    /\ infoList' = IF op = "list" THEN infoList ELSE <<>>
    /\ End(IF op = "details" THEN 200 ELSE 500)
    /\ UNCHANGED <<matching, input, pageNum, page, history>>

\* Items without a valid external ID, and those already listed, are skipped.
AddItem(list, item) ==
    IF item.id = BadID \/ item.id \in Ids(list) THEN list ELSE Append(list, item)

\* Deviation: the same page over and over.
NextItemSamePage ==
    /\ pc = "item"
    /\ infoList' = AddItem(infoList, Head(page))
    /\ page' = Tail(page)
    /\ pc' = IF page' = <<>> THEN "page" ELSE "item"
    /\ UNCHANGED <<matching, input, pageNum, outcome, history>>

NextItem ==
    /\ pc = "item"
    /\ infoList' = AddItem(infoList, Head(page))
    /\ page' = Tail(page)
    /\ pc' = IF page' = <<>> THEN "page" ELSE "item"
    /\ pageNum' = IF page' = <<>> THEN pageNum + 1 ELSE pageNum
    /\ UNCHANGED <<matching, input, outcome, history>>

(***************************************************************************)
(* What the callers do with the list.                                      *)
(***************************************************************************)
\* getClusterInfoFromAMS returns the list as it is; SetAMSInfoInReport takes the
\* display name and the managed attribute of its first entry, if there is one.
UseList ==
    /\ pc = "found" /\ op \in {"list", "details"}
    /\ End(200)
    /\ UNCHANGED <<matching, input, pageNum, page, infoList, history>>

\* GetSingleClusterInfoForOrganization takes the first entry; without one the
\* cluster is not found.
UseSingleClusterInfo ==
    /\ pc = "found" /\ op \in {"single", "predict"}
    /\ \/ infoList = <<>> /\ End(404)
       \/ op = "single" /\ infoList # <<>> /\ End(200)
       \/ op = "predict" /\ infoList # <<>> /\ pc' = "managed" /\ UNCHANGED outcome
    /\ UNCHANGED <<matching, input, pageNum, page, infoList, history>>

\* Deviation: no check of the managed attribute.
CheckManagedNever ==
    /\ pc = "managed"
    /\ \/ infoList[1].id # cluster /\ End(404)
       \/ infoList[1].id = cluster /\ pc' = "fetch" /\ UNCHANGED outcome
    /\ UNCHANGED <<matching, input, pageNum, page, infoList, history>>

\* Deviation: the cluster of the answer is not compared with the requested one.
CheckManagedAnyCluster ==
    /\ pc = "managed"
    /\ \/ infoList[1].managed /\ End(204)
       \/ ~infoList[1].managed /\ pc' = "fetch" /\ UNCHANGED outcome
    /\ UNCHANGED <<matching, input, pageNum, page, infoList, history>>

\* upgradeRisksPrediction refuses the info of another cluster and a managed one.
CheckManaged ==
    /\ pc = "managed"
    /\ \/ infoList[1].id # cluster /\ End(404)
       \/ infoList[1].id = cluster /\ infoList[1].managed /\ End(204)
       \/ /\ infoList[1].id = cluster /\ ~infoList[1].managed
          /\ pc' = "fetch" /\ UNCHANGED outcome
    /\ UNCHANGED <<matching, input, pageNum, page, infoList, history>>

\* fetchUpgradePrediction, fetchMulticlusterUpgradePrediction: the prediction
\* service does not answer within 5 seconds (503), its body cannot be read
\* (500) or is no JSON (400), or its status, here 404, is passed on.
FetchPrediction ==
    /\ pc = "fetch"
    /\ \E status \in {200, 400, 404, 500, 503} : End(status)
    /\ UNCHANGED <<matching, input, pageNum, page, infoList, history>>

EndRequest ==
    /\ pc = "done"
    /\ pc' = "idle"
    /\ matching' = <<>> /\ page' = <<>> /\ infoList' = <<>>
    /\ seen' = {} /\ stable' = {} /\ moved' = {} /\ changes' = 0
    /\ pageNum' = 1 /\ outcome' = 0
    /\ UNCHANGED input

Handler ==
    \/ NoClient \/ ReadParams \/ GetInternalOrgID
    \/ StartQuery \/ GetPage \/ GetPageFails \/ NextItem
    \/ UseList \/ UseSingleClusterInfo \/ CheckManaged \/ FetchPrediction \/ EndRequest

Next == Begin \/ Handler \/ Subscribe \/ Unsubscribe

\* A handler runs until it returns: the calls it waits for end, at the latest
\* when the connection is given up, which GetPageFails stands for.
Spec == Init /\ [][Next]_vars /\ WF_vars(Handler)

(***************************************************************************)
(* Properties                                                              *)
(***************************************************************************)
TypeOK ==
    /\ matching \in Seq(Subscriptions) /\ Len(matching) <= MaxMatches
    /\ op \in Ops /\ cluster \in Clusters /\ useAms \in BOOLEAN
    /\ pc \in {"idle", "params", "org", "query", "page", "item", "found", "managed", "fetch",
              "done"}
    /\ pageNum \in Nat \ {0}
    /\ page \in Seq(Subscriptions) /\ (pc = "item" => page # <<>>)
    /\ infoList \in Seq(ClusterInfos)
    /\ outcome \in {0, 200, 204, 400, 403, 404, 500, 503}
    /\ seen \subseteq Subscriptions /\ stable \subseteq Clusters
    /\ moved \subseteq Clusters \cup {BadID} /\ changes \in 0..MaxChanges

\* However the pages of AMS overlap, every cluster is listed at most once, with
\* the attributes of a subscription that matched the query at some moment of the
\* request (the uniqueClusterMap of executeSubscriptionListRequest); and a list
\* that AMS gave without an error holds every cluster that matched throughout,
\* unless its subscription, or one before it on a page already read, ceased to
\* match meanwhile: only that moves a later one to a page behind the loop.  A list
\* that comes with an error may lack clusters but holds no others.
ListingExact ==
    /\ \A i, j \in DOMAIN infoList : infoList[i].id = infoList[j].id => i = j
    /\ useAms => Items(infoList) \subseteq seen
    /\ (op = "list" /\ useAms /\ outcome = 200) => stable \subseteq Ids(infoList) \cup moved

\* Whatever AMS lists for the query about one cluster, the prediction service is
\* asked, and a prediction given, only for the cluster in the path and only if a
\* subscription of it that is not managed was seen during the request; that the
\* cluster is managed (204) is said only of the cluster in the path
\* (upgradeRisksPrediction, upgrade_risks_prediction.go:86-104).  The cluster
\* endpoint says that there is no cluster (404) only if none matched the query
\* throughout, those aside that a removal moved behind the loop over the pages.
AnsweredAboutOwnCluster ==
    /\ op = "predict" /\ (pc = "fetch" \/ outcome = 200)
          => \E s \in seen : s.id = cluster /\ ~s.managed
    /\ op = "predict" /\ outcome = 204 => \E s \in seen : s.id = cluster /\ s.managed
    /\ op = "single" /\ outcome = 404 => stable \subseteq moved
    /\ op = "single" /\ outcome = 200 => infoList # <<>> /\ infoList[1] \in seen

\* A request whose pages are being read ends: the loop without a bound in
\* executeSubscriptionListRequest meets an empty page once the subscriptions
\* have stopped changing.
ListingEnds == pc = "page" ~> pc = "done"
==============================================================================
