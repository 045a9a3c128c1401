--------------------------- MODULE ListViewsProofs ---------------------------
(***************************************************************************)
(* Theorems about ListViews, for every set of rules and clusters and any   *)
(* number of content updates during a request.                             *)
(*                                                                         *)
(* The views read the content several times, and each read sees one of the *)
(* storages that were in place since the request began (ContentKnown).     *)
(* SeveritiesRead and ToFilter say what the first read leaves for the ones *)
(* that follow; NoSuccess and FailuresAnswered follow the responses that   *)
(* are written on the way.                                                 *)
(***************************************************************************)
EXTENDS ListViews, FiniteSetTheorems, SequenceTheorems, TLAPS

USE DEF vars, contentVars, request, inputs, loop, match

Codes == {200, 400, 403, 404, 500, 503}

\* The storage is one of those since the request began, and empty before the
\* directory is ready.
ContentKnown ==
    /\ storage \in published
    /\ ~ready => storage = EmptyStorage

\* Each view has places of its own, and results are empty before they are made.
OwnPlaces ==
    /\ pc \in {"ruleIDs", "loop"} => view = "recommendations"
    /\ pc \in {"severities", "match", "sendClusters"} => view = "clusters"
    /\ pc \in {"idle", "params", "clusters"} => clusterInfo = {}
    /\ pc \notin {"sendClusters", "done"} => counted = NoRules
    /\ pc \notin {"loop", "done"} => listed = {}

\* Between the two reads of the cluster view.
SeveritiesRead ==
    pc = "match" =>
        /\ StableRules \ InternalRules \subseteq severities
        /\ \A r \in severities : r \notin InternalRules /\ \E s \in published : r \in s.has

\* The rules that must be in the list of recommendations.
Due ==
    (StableRules \cap Selected(impactingFlag))
       \ (IF impactingFlag = "only" THEN {} ELSE InternalRules)

\* A rule that must be listed is listed or still to be looked at.
ToFilter ==
    pc = "loop" =>
        /\ Due \subseteq ruleIDs \cup listed
        /\ impactingFlag = "only" => \A r \in ruleIDs : HitBy(r) # {}

\* What has been sent as a success holds all of them.
Sent == view = "recommendations" /\ writes # <<>> /\ writes[Len(writes)] = 200 => Due \subseteq listed

\* No view has written a success before its end.
NoSuccess == pc # "done" => \A i \in 1..Len(writes) : writes[i] # 200

\* A failure, other than that of the disabled rules, is the first response.
FailuresAnswered == failed \subseteq {"disabled"} \/ (writes # <<>> /\ writes[1] # 200)

\* The clusters that a rule hits and is not disabled on.
On(r) == {c \in HitBy(r) : r \notin disabled[c]}

\* What ListedRulesExact says of a listed rule.
ListedExact(r) ==
    /\ r \in Selected(impactingFlag)
    /\ impacted[r] \in Cardinality(On(r) \ managed)..Cardinality(On(r))
    /\ r \in StableManagedRules => impacted[r] = Cardinality(On(r))
    /\ r \notin EverManagedRules => impacted[r] = Cardinality(On(r) \ managed)

\* The steps of a handler between the beginning and the end of a request.
HandlerStep ==
    \/ ReadParams
    \/ ReadClusterInfo \/ ReadClusterInfoFails
    \/ ReadHits \/ ReadHitsFails \/ ReadHitsOtherStatus
    \/ ReadAcks \/ ReadAcksFails
    \/ ReadDisabled \/ ReadDisabledFails
    \/ GenerateRuleIDs \/ FilterRecommendation \/ SendRecommendations
    \/ ReadSeverities \/ MatchClusters \/ SendClusters

-----------------------------------------------------------------------------
(***************************************************************************)
(* Every step is one of a handler, an update of the content, or the        *)
(* beginning or the end of a request.                                      *)
(***************************************************************************)
LEMMA Steps ==
  ASSUME Next
  PROVE  \/ ContentSwap \/ Begin \/ EndRequest
         \/ HandlerStep /\ UNCHANGED <<contentVars, request>>
<1>1. HandlerStep => UNCHANGED <<contentVars, request>>
  BY DEF HandlerStep, ReadParams, ReadClusterInfo, ReadClusterInfoFails, ReadHits, ReadHitsFails,
         ReadHitsOtherStatus, ReadAcks, ReadAcksFails, ReadDisabled, ReadDisabledFails,
         GenerateRuleIDs, FilterRecommendation, SendRecommendations, ReadSeverities, MatchClusters,
         SendClusters
<1>2. QED
  BY <1>1 DEF Next, HandlerStep

(***************************************************************************)
(* Another response is added after those written before.                   *)
(***************************************************************************)
LEMMA AppendWrites ==
  ASSUME NEW w \in Seq(Codes), NEW status \in Codes
  PROVE  /\ Append(w, status) \in Seq(Codes)
         /\ Append(w, status) # <<>>
         /\ Len(w) \in Nat
         /\ Len(Append(w, status)) = Len(w) + 1
         /\ Append(w, status)[Len(w) + 1] = status
         /\ \A i \in 1..Len(w) : Append(w, status)[i] = w[i]
         /\ w # <<>> => Append(w, status)[1] = w[1]
         /\ w = <<>> => Append(w, status)[1] = status
<1>1. w # <<>> => 1 \in 1..Len(w)
  BY EmptySeq
<1>2. Append(w, status) # <<>>
  BY AppendProperties
<1>3. QED
  BY <1>1, <1>2, AppendProperties, EmptySeq

(***************************************************************************)
(* Counting clusters.                                                      *)
(***************************************************************************)
LEMMA ClusterCounts ==
  ASSUME NEW S \in SUBSET Clusters, NEW M
  PROVE  /\ Cardinality(S) \in Nat /\ Cardinality(S \ M) \in Nat /\ Cardinality(Clusters) \in Nat
         /\ Cardinality(S \ M) <= Cardinality(S)
         /\ Cardinality(S) <= Cardinality(Clusters)
<1>1. IsFiniteSet(Clusters) /\ IsFiniteSet(S)
  BY FS_Subset, ListViewsAssumption
<1>2. IsFiniteSet(S \ M) /\ Cardinality(S \ M) <= Cardinality(S)
  BY <1>1, FS_Subset
<1>3. QED
  BY <1>1, <1>2, FS_Subset, FS_CardinalityType

(***************************************************************************)
(* A step writes at most one response, and one that ends the handler       *)
(* writes one.  A success is written only at the end.                      *)
(***************************************************************************)
LEMMA StepWrites ==
  ASSUME TypeOK, Next
  PROVE  \/ EndRequest
         \/ /\ UNCHANGED writes /\ failed' \subseteq failed \cup {"disabled"}
            /\ pc' = "done" => pc = "done"
            /\ pc = "done" => pc' = "done" /\ ContentSwap
         \/ \E status \in Codes :
               /\ writes' = Append(writes, status) /\ pc # "done"
               /\ status = 200 => /\ pc' = "done" /\ UNCHANGED failed
                                  /\ SendRecommendations \/ SendClusters
<1> DEFINE Quiet == /\ UNCHANGED writes /\ failed' \subseteq failed \cup {"disabled"}
                    /\ pc' = "done" => pc = "done"
                    /\ pc = "done" => pc' = "done" /\ ContentSwap
<1> DEFINE Loud(status) ==
             /\ writes' = Append(writes, status) /\ pc # "done"
             /\ status = 200 => /\ pc' = "done" /\ UNCHANGED failed
                                /\ SendRecommendations \/ SendClusters
<1>1. ASSUME NEW status, status \in {400, 403, 404, 500, 503}, writes' = Append(writes, status),
             pc # "done"
      PROVE  \E code \in Codes : Loud(code)
  BY <1>1 DEF Codes
<1>2. CASE ContentSwap
  BY <1>2 DEF ContentSwap
<1>3. CASE Begin
  BY <1>3 DEF Begin
<1>4. CASE ReadParams
  <2>1. pc = "params"
    BY <1>4 DEF ReadParams
  <2>2. CASE pc' = "clusters" /\ UNCHANGED writes
    BY <1>4, <2>1, <2>2 DEF ReadParams
  <2>3. CASE Respond(403) \/ Respond(400)
    BY <1>1, <2>1, <2>3 DEF Respond, Write
  <2>4. QED
    BY <1>4, <2>2, <2>3 DEF ReadParams
<1>5. CASE ReadClusterInfo \/ ReadHits \/ ReadAcks \/ ReadDisabled \/ MatchClusters
  BY <1>5 DEF ReadClusterInfo, ReadHits, ReadAcks, ReadDisabled, MatchClusters, AfterDisabled
<1>6. CASE ReadClusterInfoFails \/ ReadHitsFails \/ ReadHitsOtherStatus \/ ReadAcksFails
  BY <1>1, <1>6 DEF ReadClusterInfoFails, ReadHitsFails, ReadHitsOtherStatus, ReadAcksFails, GiveUp,
                    Write
<1>7. CASE ReadDisabledFails
  BY <1>1, <1>7 DEF ReadDisabledFails, AfterDisabled, Write
<1>8. CASE GenerateRuleIDs
  BY <1>1, <1>8 DEF GenerateRuleIDs, Respond, Write
<1>9. CASE FilterRecommendation
  BY <1>1, <1>9 DEF FilterRecommendation, Respond, Write
<1>10. CASE SendRecommendations
  <2>1. pc = "loop" /\ pc' = "done" /\ UNCHANGED failed
    BY <1>10 DEF SendRecommendations, Respond
  <2>2. writes' = Append(writes, 404) \/ writes' = Append(writes, 200)
    BY <1>10 DEF SendRecommendations, Respond, Write
  <2>3. Loud(404) \/ Loud(200)
    BY <1>10, <2>1, <2>2
  <2>4. QED
    BY <2>3 DEF Codes
<1>11. CASE ReadSeverities
  BY <1>1, <1>11 DEF ReadSeverities, Write
<1>12. CASE SendClusters
  <2>1. Loud(200)
    BY <1>12 DEF SendClusters, Respond, Write
  <2>2. QED
    BY <2>1 DEF Codes
<1>13. QED
  BY <1>2, <1>3, <1>4, <1>5, <1>6, <1>7, <1>8, <1>9, <1>10, <1>11, <1>12 DEF Next

(***************************************************************************)
(* The number of impacted clusters is at most that of the clusters.        *)
(***************************************************************************)
LEMMA ImpactedCount ==
  ASSUME TypeOK, NEW r
  PROVE  /\ On(r) \subseteq Clusters
         /\ ImpactedClustersCnt(r) \in 0..Cardinality(Clusters)
         /\ ImpactedClustersCnt(r) \in Cardinality(On(r) \ managed)..Cardinality(On(r))
         /\ ImpactedClustersCnt(r) = Cardinality(IF r \in storage.osd THEN On(r) ELSE On(r) \ managed)
<1>1. On(r) \subseteq Clusters
  BY DEF On, HitBy
<1>2. ImpactedClustersCnt(r) = Cardinality(IF r \in storage.osd THEN On(r) ELSE On(r) \ managed)
  BY DEF ImpactedClustersCnt, On
<1>3. /\ Cardinality(On(r)) \in Nat /\ Cardinality(On(r) \ managed) \in Nat
      /\ Cardinality(Clusters) \in Nat
      /\ Cardinality(On(r) \ managed) <= Cardinality(On(r))
      /\ Cardinality(On(r)) <= Cardinality(Clusters)
  BY <1>1, ClusterCounts
<1>4. QED
  BY <1>1, <1>2, <1>3

-----------------------------------------------------------------------------
(***************************************************************************)
(* The type invariant: no handler leaves the sets of its data, whatever    *)
(* content is swapped in and whatever the services answer.                 *)
(***************************************************************************)
THEOREM TypeCorrect == Spec => []TypeOK
<1>1. Init => TypeOK
  <2> SUFFICES ASSUME Init PROVE TypeOK
    OBVIOUS
  <2>1. Cardinality(Clusters) \in Nat
    BY ListViewsAssumption, FS_CardinalityType
  <2>2. impacted \in [Rules -> 0..Cardinality(Clusters)]
    BY <2>1 DEF Init
  <2>3. EmptyStorage \in Storages
    BY DEF EmptyStorage, Storages
  <2>4. NoRules \in RulesPerCluster
    BY DEF NoRules, RulesPerCluster
  <2>5. ready \in BOOLEAN /\ contentErr \in BOOLEAN
    BY DEF Init
  <2>6. /\ swaps \in 0..MaxSwaps /\ writes \in Seq({200, 400, 403, 404, 500, 503})
        /\ view \in Views /\ impactingFlag \in ImpactingFlags
    BY ListViewsAssumption DEF Init, Views, ImpactingFlags
  <2>7. QED
    BY <2>2, <2>3, <2>4, <2>5, <2>6 DEF Init, TypeOK
<1>2. TypeOK /\ [Next]_vars => TypeOK'
  <2> SUFFICES ASSUME TypeOK, [Next]_vars PROVE TypeOK'
    OBVIOUS
  <2>1. CASE Next
    <3>1. writes' \in Seq(Codes)
      <4>1. writes \in Seq(Codes) /\ <<>> \in Seq(Codes)
        BY DEF TypeOK, Codes
      <4>2. EndRequest => writes' = <<>>
        BY DEF EndRequest
      <4>3. writes' = <<>> \/ UNCHANGED writes \/ \E status \in Codes : writes' = Append(writes, status)
        BY <2>1, <4>2, StepWrites
      <4>4. QED
        BY <4>1, <4>3, AppendWrites
    <3>2. storage.has \subseteq Rules /\ storage.osd \subseteq Rules
      BY DEF TypeOK, Storages
    <3> DEFINE Others ==
          /\ ready' \in BOOLEAN /\ storage' \in Storages /\ published' \subseteq Storages
          /\ swaps' \in 0..MaxSwaps
          /\ view' \in Views /\ impactingFlag' \in ImpactingFlags
    <3> DEFINE Moved ==
          /\ pc' \in {"idle", "params", "clusters", "hits", "acks", "disabled", "ruleIDs", "loop",
                      "severities", "match", "sendClusters", "done"}
          /\ failed' \subseteq {"clusters", "hits", "acks", "disabled"}
    <3> DEFINE Data ==
          /\ clusterInfo' \subseteq Clusters /\ managed' \subseteq clusterInfo'
          /\ hits' \in RulesPerCluster /\ acked' \subseteq Rules /\ disabled' \in RulesPerCluster
          /\ ruleIDs' \subseteq Rules /\ contentErr' \in BOOLEAN /\ listed' \subseteq Rules
          /\ severities' \subseteq Rules /\ counted' \in RulesPerCluster
    <3> DEFINE Counts == impacted' \in [Rules -> 0..Cardinality(Clusters)]
    <3>3. Others
      <4>1. CASE ContentSwap
        BY <4>1, ListViewsAssumption DEF ContentSwap, TypeOK
      <4>2. CASE Begin
        <5>1. impactingFlag' \in ImpactingFlags
          BY <4>2 DEF Begin, ImpactingFlags
        <5>2. QED
          BY <4>2, <5>1, ListViewsAssumption DEF Begin, TypeOK
      <4>3. CASE UNCHANGED <<contentVars, request>>
        BY <4>3 DEF TypeOK
      <4>4. QED
        BY <2>1, <4>1, <4>2, <4>3, Steps DEF EndRequest
    <3>4. Moved
      <4>1. CASE ReadParams \/ ReadClusterInfo \/ ReadHits \/ ReadAcks \/ ReadDisabled
        BY <4>1 DEF TypeOK, ReadParams, ReadClusterInfo, ReadHits, ReadAcks, ReadDisabled, Respond,
                    AfterDisabled
      <4>2. CASE \/ ReadClusterInfoFails \/ ReadHitsFails \/ ReadHitsOtherStatus \/ ReadAcksFails
                 \/ ReadDisabledFails
        <5>1. \E call \in {"clusters", "hits", "acks", "disabled"} : failed' = failed \cup {call}
          BY <4>2 DEF ReadClusterInfoFails, ReadHitsFails, ReadHitsOtherStatus, ReadAcksFails,
                      ReadDisabledFails, GiveUp
        <5>2. pc' \in {"done", "severities", "acks", "ruleIDs"}
          BY <4>2 DEF ReadClusterInfoFails, ReadHitsFails, ReadHitsOtherStatus, ReadAcksFails,
                      ReadDisabledFails, GiveUp, AfterDisabled
        <5>3. QED
          BY <5>1, <5>2 DEF TypeOK
      <4>3. CASE GenerateRuleIDs \/ FilterRecommendation
        <5>1. UNCHANGED failed /\ pc' \in {pc, "loop", "done"}
          BY <4>3 DEF GenerateRuleIDs, FilterRecommendation, Respond
        <5>2. QED
          BY <5>1 DEF TypeOK
      <4>4. CASE \/ SendRecommendations \/ ReadSeverities \/ MatchClusters \/ SendClusters
                 \/ ContentSwap \/ Begin \/ EndRequest
        BY <4>4 DEF TypeOK, SendRecommendations, ReadSeverities, MatchClusters, SendClusters, Respond,
                    ContentSwap, Begin, EndRequest
      <4>5. QED
        BY <2>1, <4>1, <4>2, <4>3, <4>4 DEF Next
    <3>5. Data
      <4>1. CASE EndRequest
        BY <4>1 DEF EndRequest, NoRules, RulesPerCluster
      <4>2. CASE GenerateRuleIDs \/ ReadSeverities
        BY <3>2, <4>2 DEF GenerateRuleIDs, ReadSeverities, TypeOK
      <4>3. CASE FilterRecommendation
        <5>1. /\ UNCHANGED <<inputs, match>> /\ contentErr' \in {contentErr, TRUE, FALSE}
              /\ \E r \in ruleIDs : /\ ruleIDs' = ruleIDs \ {r}
                                    /\ listed' = listed \/ listed' = listed \cup {r}
          BY <4>3 DEF FilterRecommendation
        <5>2. ruleIDs' \subseteq Rules /\ listed' \subseteq Rules
          BY <5>1 DEF TypeOK
        <5>3. contentErr' \in BOOLEAN
          BY <5>1 DEF TypeOK
        <5>4. QED
          BY <5>1, <5>2, <5>3 DEF TypeOK
      <4>4. CASE MatchClusters
        BY <4>4 DEF MatchClusters, TypeOK, RulesPerCluster
      <4>5. CASE ReadDisabled
        BY <4>5 DEF ReadDisabled, DisabledRulesPerCluster, TypeOK, RulesPerCluster
      <4>6. CASE ReadClusterInfo \/ ReadClusterInfoFails
        BY <4>6 DEF ReadClusterInfo, ReadClusterInfoFails, TypeOK
      <4>7. CASE ReadHits \/ ReadAcks
        BY <4>7 DEF ReadHits, ReadAcks, TypeOK, RulesPerCluster
      <4>8. CASE UNCHANGED <<inputs, loop, match>>
        BY <4>8 DEF TypeOK
      <4>9. QED
        BY <2>1, <4>1, <4>2, <4>3, <4>4, <4>5, <4>6, <4>7, <4>8
           DEF Next, ContentSwap, Begin, ReadParams, ReadHitsFails, ReadHitsOtherStatus, ReadAcksFails,
               ReadDisabledFails, SendRecommendations, SendClusters
    <3>6. Counts
      <4>1. CASE EndRequest
        <5>1. Cardinality(Clusters) \in Nat
          BY ListViewsAssumption, FS_CardinalityType
        <5>2. QED
          BY <4>1, <5>1 DEF EndRequest
      <4>2. CASE FilterRecommendation
        <5>1. \A r : ImpactedClustersCnt(r) \in 0..Cardinality(Clusters)
          BY ImpactedCount
        <5>2. QED
          BY <4>2, <5>1 DEF FilterRecommendation, TypeOK
      <4>3. CASE UNCHANGED impacted
        BY <4>3 DEF TypeOK
      <4>4. QED
        BY <2>1, <4>1, <4>2, <4>3
           DEF Next, ContentSwap, Begin, ReadParams, ReadClusterInfo, ReadClusterInfoFails, ReadHits,
               ReadHitsFails, ReadHitsOtherStatus, ReadAcks, ReadAcksFails, ReadDisabled,
               ReadDisabledFails, GenerateRuleIDs, SendRecommendations, ReadSeverities, MatchClusters,
               SendClusters
    <3>7. QED
      BY <3>1, <3>3, <3>4, <3>5, <3>6 DEF TypeOK, Codes
  <2>2. CASE UNCHANGED vars
    BY <2>2 DEF TypeOK, RulesPerCluster
  <2>3. QED
    BY <2>1, <2>2
<1>3. QED
  BY <1>1, <1>2, PTL DEF Spec

-----------------------------------------------------------------------------
(***************************************************************************)
(* The status of the first response is a success only if nothing failed    *)
(* that matters, and every request is answered.                            *)
(***************************************************************************)
LEMMA StepFailures ==
  ASSUME TypeOK, NoSuccess, FailuresAnswered, FailuresVisible, Next
  PROVE  NoSuccess' /\ FailuresAnswered' /\ FailuresVisible'
<1> USE DEF NoSuccess, FailuresAnswered, FailuresVisible
<1>1. writes \in Seq(Codes)
  BY DEF TypeOK, Codes
<1>2. CASE EndRequest
  <2>1. writes' = <<>> /\ failed' = {} /\ pc' = "idle" /\ Len(<<>>) = 0
    BY <1>2 DEF EndRequest
  <2>2. QED
    BY <2>1
<1>3. CASE /\ UNCHANGED writes /\ failed' \subseteq failed \cup {"disabled"}
           /\ pc' = "done" => pc = "done"
           /\ pc = "done" => pc' = "done" /\ ContentSwap
  BY <1>3
<1>4. CASE \E status \in Codes :
             /\ writes' = Append(writes, status) /\ pc # "done"
             /\ status = 200 => /\ pc' = "done" /\ UNCHANGED failed
                                /\ SendRecommendations \/ SendClusters
  <2>1. PICK status \in Codes :
          /\ writes' = Append(writes, status) /\ pc # "done"
          /\ status = 200 => pc' = "done" /\ UNCHANGED failed
    BY <1>4
  <2>2. /\ writes' # <<>> /\ Len(writes) \in Nat
        /\ Len(writes') = Len(writes) + 1
        /\ writes'[Len(writes) + 1] = status
        /\ \A i \in 1..Len(writes) : writes'[i] = writes[i]
        /\ writes # <<>> => writes'[1] = writes[1]
        /\ writes = <<>> => writes'[1] = status
    BY <1>1, <2>1, AppendWrites
  <2>3. \A i \in 1..Len(writes') : i \in 1..Len(writes) \/ i = Len(writes) + 1
    BY <2>2
  <2>4. writes # <<>> => writes[1] # 200
    <3>1. writes # <<>> => 1 \in 1..Len(writes)
      BY <1>1, <2>2, EmptySeq
    <3>2. QED
      BY <2>1, <3>1
  <2>5. NoSuccess'
    BY <2>1, <2>2, <2>3
  <2>6. FailuresAnswered'
    BY <2>1, <2>2, <2>4
  <2>7. QED
    BY <2>2, <2>5, <2>6
<1>5. QED
  BY <1>2, <1>3, <1>4, StepWrites

(***************************************************************************)
(* The responses written on the way, from the beginning to the end.        *)
(***************************************************************************)
LEMMA FailuresFollowed == Spec => [](NoSuccess /\ FailuresAnswered /\ FailuresVisible)
<1> DEFINE Inv == NoSuccess /\ FailuresAnswered /\ FailuresVisible
<1>1. Init => Inv
  BY DEF Init, NoSuccess, FailuresAnswered, FailuresVisible
<1>2. TypeOK /\ Inv /\ [Next]_vars => Inv'
  <2> SUFFICES ASSUME TypeOK, Inv, [Next]_vars PROVE Inv'
    OBVIOUS
  <2>1. CASE Next
    BY <2>1, StepFailures
  <2>2. CASE UNCHANGED vars
    BY <2>2 DEF NoSuccess, FailuresAnswered, FailuresVisible
  <2>3. QED
    BY <2>1, <2>2
<1>3. QED
  BY <1>1, <1>2, TypeCorrect, PTL DEF Spec

(***************************************************************************)
(* The client can tell that clusters, hits or acknowledgements could not   *)
(* be read, although the handlers go on after some errors and then answer  *)
(* a second time.                                                          *)
(***************************************************************************)
THEOREM FailuresSeen == Spec => []FailuresVisible
BY FailuresFollowed, PTL

-----------------------------------------------------------------------------
(***************************************************************************)
(* A content update only adds a storage to those that were in place.       *)
(***************************************************************************)
LEMMA PublishedGrows ==
  ASSUME Next, ~Begin
  PROVE  /\ published \subseteq published'
         /\ StableRules' \subseteq StableRules
         /\ StableManagedRules' \subseteq StableManagedRules
         /\ EverManagedRules \subseteq EverManagedRules'
         /\ UNCHANGED request
<1>1. published \subseteq published' /\ UNCHANGED request
  BY Steps DEF ContentSwap, EndRequest
<1>2. QED
  BY <1>1 DEF StableRules, StableManagedRules, EverManagedRules

(***************************************************************************)
(* The content of the moment bounds that of all the request's time.        *)
(***************************************************************************)
LEMMA StableNow ==
  ASSUME ContentKnown
  PROVE  /\ StableRules \subseteq storage.has
         /\ StableManagedRules \subseteq storage.osd
         /\ storage.osd \cap Rules \subseteq EverManagedRules
         /\ ~ready => StableRules = {} /\ StableManagedRules = {}
<1>1. /\ StableRules \subseteq storage.has /\ StableManagedRules \subseteq storage.osd
      /\ storage.osd \cap Rules \subseteq EverManagedRules
  BY DEF ContentKnown, StableRules, StableManagedRules, EverManagedRules
<1>2. ~ready => storage.has = {} /\ storage.osd = {}
  BY DEF ContentKnown, EmptyStorage
<1>3. QED
  BY <1>1, <1>2

(***************************************************************************)
(* What the handlers have read of the content, and what they still hold.   *)
(***************************************************************************)
LEMMA PlacesFollowed ==
  Spec => [](ContentKnown /\ OwnPlaces /\ SeveritiesRead)
<1> DEFINE Inv == ContentKnown /\ OwnPlaces /\ SeveritiesRead
<1>1. Init => Inv
  BY DEF Init, ContentKnown, OwnPlaces, SeveritiesRead
<1>2. TypeOK /\ Inv /\ [Next]_vars => Inv'
  <2> SUFFICES ASSUME TypeOK, Inv, [Next]_vars PROVE Inv'
    OBVIOUS
  <2>1. CASE Next
    <3>1. ContentKnown'
      BY <2>1, Steps DEF ContentKnown, ContentSwap, Begin, EndRequest
    <3>2. OwnPlaces'
      <4> USE DEF OwnPlaces
      <4>1. CASE ContentSwap \/ Begin \/ EndRequest
        BY <4>1 DEF ContentSwap, Begin, EndRequest
      <4>2. CASE ReadParams \/ ReadClusterInfo \/ ReadHits \/ ReadAcks \/ ReadDisabled
        BY <4>2 DEF ReadParams, ReadClusterInfo, ReadHits, ReadAcks, ReadDisabled, Respond,
                    AfterDisabled, TypeOK, Views
      <4>3. CASE ReadClusterInfoFails \/ ReadHitsFails \/ ReadAcksFails
        BY <4>3 DEF ReadClusterInfoFails, ReadHitsFails, ReadAcksFails, GiveUp, TypeOK, Views
      <4>4. CASE ReadHitsOtherStatus \/ ReadDisabledFails
        BY <4>4 DEF ReadHitsOtherStatus, ReadDisabledFails, AfterDisabled, TypeOK, Views
      <4>5. CASE GenerateRuleIDs \/ FilterRecommendation
        <5>1. pc \in {"ruleIDs", "loop"} /\ pc' \in {"loop", "done"} /\ UNCHANGED <<view, counted>>
          BY <4>5 DEF GenerateRuleIDs, FilterRecommendation, Respond
        <5>2. QED
          BY <5>1
      <4>6. CASE SendRecommendations \/ ReadSeverities \/ MatchClusters \/ SendClusters
        BY <4>6 DEF SendRecommendations, ReadSeverities, MatchClusters, SendClusters, Respond
      <4>7. QED
        BY <2>1, <4>1, <4>2, <4>3, <4>4, <4>5, <4>6 DEF Next
    <3>3. SeveritiesRead'
      <4> SUFFICES ASSUME pc' = "match"
                   PROVE  /\ StableRules' \ InternalRules \subseteq severities'
                          /\ \A r \in severities' :
                                r \notin InternalRules /\ \E s \in published' : r \in s.has
        BY DEF SeveritiesRead
      <4>1. ~Begin
        BY DEF Begin
      <4>2. CASE ReadSeverities
        <5>1. severities' = storage.has \ InternalRules
          BY <4>2 DEF ReadSeverities
        <5>2. StableRules' \subseteq storage.has /\ storage \in published'
          BY <2>1, <4>1, PublishedGrows, StableNow DEF ContentKnown
        <5>3. QED
          BY <5>1, <5>2
      <4>3. CASE pc = "match" /\ UNCHANGED severities
        BY <2>1, <4>1, <4>3, PublishedGrows DEF SeveritiesRead
      <4>4. QED
        BY <2>1, <4>2, <4>3
           DEF Next, ContentSwap, Begin, ReadParams, ReadClusterInfo, ReadClusterInfoFails, ReadHits,
               ReadHitsFails, ReadHitsOtherStatus, ReadAcks, ReadAcksFails, ReadDisabled,
               ReadDisabledFails, GenerateRuleIDs, FilterRecommendation, SendRecommendations,
               MatchClusters, SendClusters, EndRequest, GiveUp, Respond, AfterDisabled
    <3>4. QED
      BY <3>1, <3>2, <3>3
  <2>2. CASE UNCHANGED vars
    BY <2>2 DEF ContentKnown, OwnPlaces, SeveritiesRead, StableRules
  <2>3. QED
    BY <2>1, <2>2
<1>3. QED
  BY <1>1, <1>2, TypeCorrect, PTL DEF Spec

(***************************************************************************)
(* The two reads of the cluster view, one after the other, count no hit    *)
(* that neither knows and lose none that both know.                        *)
(***************************************************************************)
LEMMA StepCounted ==
  ASSUME TypeOK, ContentKnown, OwnPlaces, OwnPlaces', SeveritiesRead, CountedHitsExact, Next
  PROVE  CountedHitsExact'
<1> DEFINE Wanted(c) == hits[c] \ (acked \cup disabled[c] \cup InternalRules)
<1> DEFINE Right(c) == \A r \in counted[c] :
                          /\ r \in Wanted(c)
                          /\ \E s \in published : r \in s.has
                          /\ c \in managed => \E s \in published : r \in s.osd
<1> DEFINE Complete(c) ==
             Wanted(c) \cap (IF c \in managed THEN StableManagedRules ELSE StableRules)
               \subseteq counted[c]
<1>1. SUFFICES /\ \A c \in Clusters : Right(c)'
               /\ view' = "clusters" /\ pc' \in {"sendClusters", "done"} =>
                     \A c \in clusterInfo' : Complete(c)'
  BY DEF CountedHitsExact
<1>2. CASE MatchClusters
  <2>1. /\ UNCHANGED <<inputs, published, storage>>
        /\ \A c \in Clusters :
              counted'[c] = {r \in severities : /\ c \in clusterInfo
                                                /\ Enabled(c, r)
                                                /\ c \in managed => r \in storage.osd \ InternalRules}
    BY <1>2 DEF MatchClusters
  <2>2. /\ StableRules \ InternalRules \subseteq severities
        /\ \A r \in severities : r \notin InternalRules /\ \E s \in published : r \in s.has
        /\ storage \in published
    BY <1>2 DEF MatchClusters, SeveritiesRead, ContentKnown
  <2>3. ASSUME NEW c \in Clusters PROVE Right(c)'
    BY <2>1, <2>2 DEF Enabled
  <2>4. ASSUME NEW c \in clusterInfo' PROVE Complete(c)'
    <3>1. StableManagedRules \subseteq storage.osd /\ StableManagedRules \subseteq StableRules
      BY StableNow DEF StableManagedRules, StableRules, TypeOK, Storages
    <3>2. c \in Clusters /\ c \in clusterInfo
      BY <2>1 DEF TypeOK
    <3>3. StableRules' = StableRules /\ StableManagedRules' = StableManagedRules
      BY <2>1 DEF StableRules, StableManagedRules
    <3>4. QED
      BY <2>1, <2>2, <3>1, <3>2, <3>3 DEF Enabled
  <2>5. QED
    BY <2>3, <2>4
<1>3. CASE pc \in {"sendClusters", "done"} /\ ~EndRequest
  <2>1. UNCHANGED <<inputs, counted, view>>
    BY <1>3 DEF Next, ContentSwap, Begin, ReadParams, ReadClusterInfo, ReadClusterInfoFails, ReadHits,
             ReadHitsFails, ReadHitsOtherStatus, ReadAcks, ReadAcksFails, ReadDisabled,
             ReadDisabledFails, GenerateRuleIDs, FilterRecommendation, SendRecommendations,
             ReadSeverities, MatchClusters, SendClusters
  <2>2. ~Begin
    BY <1>3 DEF Begin
  <2>3. /\ published \subseteq published' /\ StableRules' \subseteq StableRules
        /\ StableManagedRules' \subseteq StableManagedRules
    BY <2>2, PublishedGrows
  <2>4. \A c \in Clusters : Right(c)
    BY DEF CountedHitsExact
  <2>5. view = "clusters" => \A c \in clusterInfo : Complete(c)
    BY <1>3 DEF CountedHitsExact
  <2>6. ASSUME NEW c \in Clusters PROVE Right(c)'
    BY <2>1, <2>3, <2>4
  <2>7. ASSUME view' = "clusters", NEW c \in clusterInfo' PROVE Complete(c)'
    BY <2>1, <2>3, <2>5, <2>7
  <2>8. QED
    BY <2>6, <2>7
<1>4. CASE (pc \notin {"sendClusters", "done"} /\ ~MatchClusters) \/ EndRequest
  <2>1. counted' = NoRules
    <3>1. CASE EndRequest
      BY <3>1 DEF EndRequest
    <3>2. CASE pc \notin {"sendClusters", "done"} /\ ~MatchClusters /\ ~EndRequest
      <4>1. counted = NoRules
        BY <3>2 DEF OwnPlaces
      <4>2. UNCHANGED counted
        BY <3>2 DEF Next, ContentSwap, Begin, ReadParams, ReadClusterInfo, ReadClusterInfoFails,
             ReadHits, ReadHitsFails, ReadHitsOtherStatus, ReadAcks, ReadAcksFails, ReadDisabled,
             ReadDisabledFails, GenerateRuleIDs, FilterRecommendation, SendRecommendations,
             ReadSeverities, SendClusters
      <4>3. QED
        BY <4>1, <4>2
    <3>3. QED
      BY <1>4, <3>1, <3>2
  <2>2. ASSUME NEW c \in Clusters PROVE Right(c)'
    BY <2>1 DEF NoRules
  <2>3. ASSUME view' = "clusters", pc' \in {"sendClusters", "done"}
        PROVE  clusterInfo' = {} \/ (StableRules' = {} /\ StableManagedRules' = {})
    <3>1. ~EndRequest /\ ~Begin
      BY <2>3 DEF EndRequest, Begin
    <3>2. view = "clusters"
      BY <2>3, <3>1, PublishedGrows
    <3>3. ReadParams \/ ReadSeverities
      BY <1>4, <2>3, <3>1, <3>2
         DEF Next, ContentSwap, ReadClusterInfo, ReadClusterInfoFails, ReadHits, ReadHitsFails,
             ReadHitsOtherStatus, ReadAcks, ReadAcksFails, ReadDisabled, ReadDisabledFails,
             GenerateRuleIDs, FilterRecommendation, SendRecommendations, SendClusters, GiveUp,
             Respond, AfterDisabled, OwnPlaces
    <3>4. CASE ReadParams
      BY <3>4 DEF ReadParams, OwnPlaces
    <3>5. CASE ReadSeverities
      <4>1. ~ready
        BY <2>3, <3>5 DEF ReadSeverities
      <4>2. QED
        BY <3>1, <4>1, StableNow, PublishedGrows
    <3>6. QED
      BY <3>3, <3>4, <3>5
  <2>4. QED
    BY <2>2, <2>3
<1>5. QED
  BY <1>2, <1>3, <1>4

(***************************************************************************)
(* The hits counted for a cluster are exact, whichever content update      *)
(* comes between the two reads.                                            *)
(***************************************************************************)
THEOREM CountsExact == Spec => []CountedHitsExact
<1>1. Init => CountedHitsExact
  <2> SUFFICES ASSUME Init PROVE CountedHitsExact
    OBVIOUS
  <2>1. pc = "idle" /\ \A c \in Clusters : counted[c] = {}
    BY DEF Init, NoRules
  <2>2. QED
    BY <2>1 DEF CountedHitsExact
<1>2. TypeOK /\ (ContentKnown /\ OwnPlaces /\ SeveritiesRead)
        /\ (ContentKnown /\ OwnPlaces /\ SeveritiesRead)' /\ CountedHitsExact /\ [Next]_vars
        => CountedHitsExact'
  <2> SUFFICES ASSUME TypeOK, ContentKnown, OwnPlaces, SeveritiesRead, OwnPlaces', CountedHitsExact,
                      [Next]_vars
               PROVE  CountedHitsExact'
    OBVIOUS
  <2>1. CASE Next
    BY <2>1, StepCounted
  <2>2. CASE UNCHANGED vars
    BY <2>2 DEF CountedHitsExact, StableRules, StableManagedRules
  <2>3. QED
    BY <2>1, <2>2
<1>3. QED
  BY <1>1, <1>2, TypeCorrect, PlacesFollowed, PTL DEF Spec

-----------------------------------------------------------------------------
(***************************************************************************)
(* A rule that must be listed is not lost in the loop.                     *)
(***************************************************************************)
LEMMA StepToFilter ==
  ASSUME TypeOK, ContentKnown, OwnPlaces, ToFilter, Next
  PROVE  ToFilter'
<1> SUFFICES ASSUME pc' = "loop"
             PROVE  /\ Due' \subseteq ruleIDs' \cup listed'
                    /\ impactingFlag' = "only" => \A r \in ruleIDs' : HitBy(r)' # {}
  BY DEF ToFilter
<1>1. ~Begin /\ ~EndRequest
  BY DEF Begin, EndRequest
<1>2. StableRules' \subseteq StableRules /\ UNCHANGED impactingFlag
  BY <1>1, PublishedGrows
<1>3. UNCHANGED hits => Due' \subseteq Due /\ \A r : HitBy(r)' = HitBy(r)
  BY <1>2 DEF Due, Selected, HitBy
<1>4. CASE GenerateRuleIDs
  <2>1. UNCHANGED hits
    BY <1>4 DEF GenerateRuleIDs
  <2>2. CASE impactingFlag = "only" /\ ruleIDs' = {r \in Rules : HitBy(r) # {}}
    BY <1>2, <1>3, <2>1, <2>2 DEF Due, Selected
  <2>3. CASE impactingFlag # "only" /\ ruleIDs' = storage.has \ InternalRules
    BY <1>2, <1>3, <2>1, <2>3, StableNow DEF Due
  <2>4. QED
    BY <1>4, <2>2, <2>3 DEF GenerateRuleIDs, Respond
<1>5. CASE FilterRecommendation
  <2>1. pc = "loop" /\ UNCHANGED hits
    BY <1>5 DEF FilterRecommendation
  <2>2. PICK r \in ruleIDs :
          /\ ruleIDs' = ruleIDs \ {r}
          /\ \/ HitBy(r) # {} /\ impactingFlag = "excluding" /\ UNCHANGED listed
             \/ r \notin storage.has /\ UNCHANGED listed
             \/ listed' = listed \cup {r}
    BY <1>5 DEF FilterRecommendation, Respond
  <2>3. r \in Due => r \in listed'
    <3>1. r \in Due => r \in storage.has
      BY StableNow DEF Due
    <3>2. r \in Due /\ impactingFlag = "excluding" => HitBy(r) = {}
      BY DEF Due, Selected
    <3>3. QED
      BY <2>2, <3>1, <3>2
  <2>4. listed \subseteq listed'
    BY <2>2
  <2>5. QED
    BY <1>2, <1>3, <2>1, <2>2, <2>3, <2>4 DEF ToFilter
<1>6. CASE ContentSwap
  BY <1>2, <1>3, <1>6 DEF ContentSwap, ToFilter
<1>7. QED
  BY <1>1, <1>4, <1>5, <1>6
     DEF Next, ReadParams, ReadClusterInfo, ReadClusterInfoFails, ReadHits, ReadHitsFails,
         ReadHitsOtherStatus, ReadAcks, ReadAcksFails, ReadDisabled, ReadDisabledFails,
         SendRecommendations, ReadSeverities, MatchClusters, SendClusters, GiveUp, Respond,
         AfterDisabled

(***************************************************************************)
(* Each listed rule fits the parameter and has a number of clusters within *)
(* the bounds.                                                             *)
(***************************************************************************)
LEMMA StepListed ==
  ASSUME TypeOK, ContentKnown, OwnPlaces, OwnPlaces', ToFilter, \A r \in listed : ListedExact(r), Next
  PROVE  \A r \in listed' : ListedExact(r)'
<1>1. CASE pc' \notin {"loop", "done"}
  BY <1>1 DEF OwnPlaces
<1>2. CASE FilterRecommendation
  <2>1. pc = "loop" /\ UNCHANGED <<hits, disabled, managed, impactingFlag, published, storage>>
    BY <1>2 DEF FilterRecommendation
  <2>2. PICK r \in ruleIDs :
          \/ UNCHANGED <<listed, impacted>>
          \/ /\ listed' = listed \cup {r}
             /\ impacted' = [impacted EXCEPT ![r] = ImpactedClustersCnt(r)]
             /\ HitBy(r) = {} \/ impactingFlag # "excluding"
    BY <1>2 DEF FilterRecommendation
  <2>3. \A x : ListedExact(x)' <=>
                 /\ x \in Selected(impactingFlag)
                 /\ impacted'[x] \in Cardinality(On(x) \ managed)..Cardinality(On(x))
                 /\ x \in StableManagedRules => impacted'[x] = Cardinality(On(x))
                 /\ x \notin EverManagedRules => impacted'[x] = Cardinality(On(x) \ managed)
    BY <2>1 DEF ListedExact, Selected, On, HitBy, StableManagedRules, EverManagedRules
  <2>4. ASSUME NEW x \in listed', x \in listed, x # r \/ UNCHANGED <<listed, impacted>>
        PROVE  ListedExact(x)'
    <3>1. impacted'[x] = impacted[x]
      BY <2>2, <2>4 DEF TypeOK
    <3>2. ListedExact(x)
      BY <2>4
    <3>3. QED
      BY <2>3, <3>1, <3>2 DEF ListedExact
  <2>5. ASSUME listed' = listed \cup {r},
               impacted' = [impacted EXCEPT ![r] = ImpactedClustersCnt(r)],
               HitBy(r) = {} \/ impactingFlag # "excluding"
        PROVE  ListedExact(r)'
    <3>1. r \in Rules /\ impacted'[r] = ImpactedClustersCnt(r)
      BY <2>5 DEF TypeOK
    <3>2. r \in Selected(impactingFlag)
      <4>1. impactingFlag = "only" => HitBy(r) # {}
        BY <2>1 DEF ToFilter
      <4>2. QED
        BY <2>5, <3>1, <4>1 DEF Selected, TypeOK, ImpactingFlags
    <3>3. /\ impacted'[r] \in Cardinality(On(r) \ managed)..Cardinality(On(r))
          /\ r \in StableManagedRules => impacted'[r] = Cardinality(On(r))
          /\ r \notin EverManagedRules => impacted'[r] = Cardinality(On(r) \ managed)
      BY <3>1, ImpactedCount, StableNow
    <3>4. QED
      BY <2>3, <3>2, <3>3
  <2>6. QED
    BY <2>2, <2>4, <2>5
<1>3. CASE pc' \in {"loop", "done"} /\ ~FilterRecommendation
  <2>1. ~Begin /\ ~EndRequest
    BY <1>3 DEF Begin, EndRequest
  <2>2. UNCHANGED listed
    BY <1>3, <2>1
       DEF Next, ContentSwap, ReadParams, ReadClusterInfo, ReadClusterInfoFails, ReadHits,
           ReadHitsFails, ReadHitsOtherStatus, ReadAcks, ReadAcksFails, ReadDisabled,
           ReadDisabledFails, GenerateRuleIDs, SendRecommendations, ReadSeverities, MatchClusters,
           SendClusters
  <2>7. ASSUME ReadClusterInfoFails
        PROVE  UNCHANGED managed
    <3>1. managed = {}
      BY <2>7 DEF ReadClusterInfoFails, OwnPlaces, TypeOK
    <3>2. view # "clusters"
      BY <1>3, <2>7 DEF ReadClusterInfoFails, GiveUp
    <3>3. clusterInfo' = {} /\ managed' \subseteq clusterInfo'
      BY <2>7, <3>2 DEF ReadClusterInfoFails
    <3>4. QED
      BY <3>1, <3>3
  <2>3. UNCHANGED <<hits, disabled, managed, impacted>>
    BY <1>3, <2>1, <2>7
       DEF Next, ContentSwap, ReadParams, ReadClusterInfo, ReadClusterInfoFails, ReadHits,
           ReadHitsFails, ReadHitsOtherStatus, ReadAcks, ReadAcksFails, ReadDisabled,
           ReadDisabledFails, GenerateRuleIDs, SendRecommendations, ReadSeverities, MatchClusters,
           SendClusters, AfterDisabled
  <2>4. /\ StableManagedRules' \subseteq StableManagedRules /\ EverManagedRules \subseteq EverManagedRules'
        /\ UNCHANGED impactingFlag
    BY <2>1, PublishedGrows
  <2>5. ASSUME NEW r \in listed'
        PROVE  ListedExact(r)'
    <3>1. ListedExact(r)
      BY <2>2
    <3>2. On(r)' = On(r) /\ Selected(impactingFlag)' = Selected(impactingFlag)
      BY <2>3, <2>4 DEF On, HitBy, Selected
    <3>3. QED
      BY <2>3, <2>4, <3>1, <3>2 DEF ListedExact
  <2>6. QED
    BY <2>5
<1>4. QED
  BY <1>1, <1>2, <1>3

(***************************************************************************)
(* A list of recommendations that is sent as a success is complete.        *)
(***************************************************************************)
LEMMA StepSent ==
  ASSUME TypeOK, OwnPlaces, NoSuccess, ToFilter, Sent, Next
  PROVE  Sent'
<1> SUFFICES ASSUME view' = "recommendations", writes' # <<>>, writes'[Len(writes')] = 200
             PROVE  Due' \subseteq listed'
  BY DEF Sent
<1>1. writes \in Seq(Codes)
  BY DEF TypeOK, Codes
<1>2. ~EndRequest
  BY DEF EndRequest
<1>3. CASE UNCHANGED writes
  <2>1. Len(writes) \in 1..Len(writes)
    BY <1>1, <1>3, EmptySeq
  <2>2. pc = "done"
    BY <1>3, <2>1 DEF NoSuccess
  <2>3. ContentSwap
    BY <1>2, <1>3, <2>2, StepWrites
  <2>4. /\ UNCHANGED <<view, impactingFlag, hits, listed>> /\ StableRules' \subseteq StableRules
    BY <2>2, <2>3, PublishedGrows DEF ContentSwap, Begin
  <2>5. Due' \subseteq Due
    <3>1. Selected(impactingFlag)' = Selected(impactingFlag)
      BY <2>4 DEF Selected, HitBy
    <3>2. QED
      BY <2>4, <3>1 DEF Due
  <2>6. QED
    BY <1>3, <2>4, <2>5 DEF Sent
<1>4. CASE ~UNCHANGED writes
  <2>1. PICK status \in Codes :
          /\ writes' = Append(writes, status)
          /\ status = 200 => SendRecommendations \/ SendClusters
    BY <1>2, <1>4, StepWrites
  <2>2. status = 200
    BY <1>1, <2>1, AppendWrites
  <2>3. SendRecommendations
    BY <2>1, <2>2 DEF SendClusters, OwnPlaces
  <2>4. pc = "loop" /\ ruleIDs = {} /\ UNCHANGED <<impactingFlag, hits, listed, published>>
    BY <2>3 DEF SendRecommendations
  <2>5. Due' = Due
    BY <2>4 DEF Due, Selected, HitBy, StableRules
  <2>6. QED
    BY <2>4, <2>5 DEF ToFilter
<1>5. QED
  BY <1>3, <1>4

(***************************************************************************)
(* The list of recommendations fits the impacting parameter, its counts    *)
(* are within the bounds, and it is complete when it is sent, in whatever  *)
(* order the map is walked and whatever is swapped in between.             *)
(***************************************************************************)
THEOREM ListExact == Spec => []ListedRulesExact
<1> DEFINE Inv == ToFilter /\ (\A r \in listed : ListedExact(r)) /\ Sent
<1>1. Init => Inv
  BY DEF Init, ToFilter, Sent
<1>2. TypeOK /\ (ContentKnown /\ OwnPlaces /\ SeveritiesRead)
        /\ (ContentKnown /\ OwnPlaces /\ SeveritiesRead)'
        /\ (NoSuccess /\ FailuresAnswered /\ FailuresVisible) /\ Inv /\ [Next]_vars
        => Inv'
  <2> SUFFICES ASSUME TypeOK, ContentKnown, OwnPlaces, OwnPlaces', NoSuccess, Inv, [Next]_vars
               PROVE  Inv'
    OBVIOUS
  <2>1. CASE Next
    BY <2>1, StepToFilter, StepListed, StepSent
  <2>2. CASE UNCHANGED vars
    <3>1. \A r : HitBy(r)' = HitBy(r) /\ On(r)' = On(r)
      BY <2>2 DEF HitBy, On
    <3>2. Selected(impactingFlag)' = Selected(impactingFlag)
      BY <2>2 DEF Selected, HitBy
    <3>3. Due' = Due /\ StableManagedRules' = StableManagedRules /\ EverManagedRules' = EverManagedRules
      BY <2>2, <3>2 DEF Due, StableRules, StableManagedRules, EverManagedRules
    <3>4. \A r \in listed : ListedExact(r)'
      BY <2>2, <3>1, <3>2, <3>3 DEF ListedExact
    <3>5. ToFilter' /\ Sent'
      BY <2>2, <3>1, <3>3 DEF ToFilter, Sent
    <3>6. QED
      BY <2>2, <3>4, <3>5
  <2>3. QED
    BY <2>1, <2>2
<1>3. Inv => ListedRulesExact
  BY DEF Sent, Due, ListedExact, On, ListedRulesExact
<1>4. QED
  BY <1>1, <1>2, <1>3, TypeCorrect, PlacesFollowed, FailuresFollowed, PTL DEF Spec
=============================================================================
