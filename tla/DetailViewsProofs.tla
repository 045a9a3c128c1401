-------------------------- MODULE DetailViewsProofs --------------------------
(***************************************************************************)
(* Theorems about DetailViews, for every set of rules and clusters and any *)
(* number of content updates during a request.                             *)
(*                                                                         *)
(* Ten endpoints share their steps, so the invariants first say which view *)
(* is at which place (OwnPlaces) and which locals are still empty there    *)
(* (Unset).  What a result is made of follows: the content that was looked *)
(* up is some content in place during the request (ContentKnown), the hits *)
(* are on clusters that were asked for (HitsWithin), and each loop has     *)
(* dealt with a hit or has it still to do (ToCount, Filled).  SoFar says   *)
(* what has failed, and what has been written, before a handler ends.      *)
(***************************************************************************)
EXTENDS DetailViews, SequenceTheorems, TLAPS

USE DEF vars, contentVars, request, clusterVars, userData, result

Codes == {200, 400, 403, 404, 500, 503}
Places == {"idle", "params", "content", "groups", "rating", "send", "clusters", "hits", "severities",
           "acks", "disabled", "process", "loop", "done"}
RulesPerCluster == [Clusters -> SUBSET Rules]
Hits == Clusters \X Rules

\* The content that is in place is one of those since the request began, and
\* empty before the directory is ready.
ContentKnown ==
    /\ ready \in BOOLEAN
    /\ storage \in published /\ published \subseteq Storages
    /\ ~ready => storage = EmptyStorage

\* The types of the other variables.
Typed ==
    /\ pc \in Places
    /\ view \in Views /\ selected \subseteq Rules /\ permitted \in BOOLEAN /\ osd \in BOOLEAN
    /\ clusterInfo \subseteq Clusters /\ managed \subseteq clusterInfo /\ fallback \in BOOLEAN
    /\ hits \in RulesPerCluster /\ acked \subseteq Rules /\ disabled \in RulesPerCluster
    /\ severities \subseteq Rules /\ pending \subseteq Hits /\ counted \subseteq Hits
    /\ shown \subseteq Rules
    /\ writes \in Seq(Codes)

\* The views that have a place in common.
OwnPlaces ==
    /\ pc = "content" => view \in OneRuleViews \cup ContentViews
    /\ pc = "groups" => view \in {"rule", "ruleUser", "list"}
    /\ pc = "rating" => view = "ruleUser"
    /\ pc = "send" => view \in ContentViews
    /\ pc = "clusters" => view \in {"detail", "overview", "workloads", "namespace"}
    /\ pc = "hits" => view \in {"detail", "overview", "overviewPost", "workloads", "namespace"}
    /\ pc = "severities" => view \in {"workloads", "namespace"}
    /\ pc = "acks" => view \in {"detail", "overview", "overviewPost", "ruleUser"}
    /\ pc = "disabled" => view \in {"detail", "overview"}
    /\ pc = "process" => view = "detail"
    /\ pc = "loop" => view \in {"overview", "overviewPost", "namespace"}

\* What has no value yet at each place.
Unset ==
    /\ pc = "idle" => ~osd /\ ~fallback
    /\ pc \in {"idle", "params"} => managed = {}
    /\ pc \in {"idle", "params", "content", "groups", "rating", "clusters", "hits"} => hits = NoRules
    /\ pc \in {"idle", "params", "content", "groups", "rating", "clusters", "hits", "severities"}
          => acked = {} /\ disabled = NoRules
    /\ pc = "acks" \/ (pc = "disabled" /\ view = "detail") => acked = {}
    /\ pc = "disabled" \/ (pc = "acks" /\ view = "overview") => disabled = NoRules
    /\ pc \notin {"loop", "done"} => severities = {} /\ pending = {} /\ counted = {}
    /\ pc \in {"idle", "params", "content", "clusters", "hits", "severities"} => shown = {}
    /\ view # "detail" => ~fallback

\* A rule that the detail view took for one of managed clusters was one.
OsdKnown == osd => selected \subseteq EverManagedRules

\* The hits of one rule, or of one cluster, are on clusters that were asked for,
\* unless no cluster was named.
HitsWithin ==
    view \in {"detail", "namespace"} /\ ~AsksAboutAll =>
        \A c \in Clusters : hits[c] # {} => c \in Considered

\* The failures of which the first status of a view need not tell.
Excused ==
    CASE view = "overview" -> {"disabled"}
      [] view = "ruleUser" -> {"acks"}
      [] view = "detail" -> {"clusters", "hits"}
      [] OTHER -> {}

\* What has been written, and what has failed, before the handler ends.
SoFar ==
    /\ pc = "idle" => writes = <<>> /\ failed = {}
    /\ pc # "done" => \/ writes = <<>> /\ failed \subseteq Excused
                      \/ writes # <<>> /\ writes[1] >= 400 /\ failed # {}

\* The severities were those of some content, and of all that was there
\* throughout.
SeveritiesRead ==
    /\ \A r \in severities : r \notin InternalRules /\ \E s \in published : r \in s.has
    /\ pc = "loop" /\ view = "namespace" => StableRules \ InternalRules \subseteq severities

\* The rules that may be counted on a cluster, and those of them that must be.
Countable(c) ==
    (hits[c] \ (acked \cup disabled[c]))
       \ IF view \in {"workloads", "namespace"} THEN InternalRules ELSE {}
Due(c) ==
    Countable(c) \cap (IF view = "overview" /\ c \in managed THEN StableManagedRules ELSE StableRules)

\* The loops look only at hits that may be counted, and a hit that must be counted
\* is counted or still to be looked at.
ToCount ==
    pc = "loop" =>
        /\ \A h \in pending : h[1] \in clusterInfo /\ h[2] \in hits[h[1]] \ (acked \cup disabled[h[1]])
        /\ writes = <<>> => \A c \in clusterInfo : \A r \in Due(c) : <<c, r>> \in counted \cup pending

\* The recommendations of a namespace are filled in or still to be looked at.
Filled ==
    view = "namespace" =>
        /\ pc = "loop" => HittingRules = shown \cup {h[2] : h \in pending}
        /\ Sent => shown = HittingRules

\* The rules that are sent to an organisation, and the list that is complete for it.
Allowed == view \in ContentViews /\ ~permitted => shown \cap InternalRules = {}
ListRead ==
    view \in {"listV1", "list"} /\ (pc \in {"groups", "send"} \/ Sent) =>
        StableRules \ (IF permitted THEN {} ELSE InternalRules) \subseteq shown

-----------------------------------------------------------------------------
(***************************************************************************)
(* Where the shared steps lead each view.                                  *)
(***************************************************************************)
LEMMA NextPlaces ==
  /\ view = "detail" => AfterHits = "disabled" /\ AfterAcks = "process"
  /\ view = "overview" => AfterHits = "acks" /\ AfterAcks = "disabled"
  /\ view = "overviewPost" => AfterHits = "acks" /\ AfterAcks = "loop"
  /\ view \in {"workloads", "namespace"} => AfterHits = "severities"
  /\ view = "ruleUser" => AfterAcks = "send"
BY DEF AfterHits, AfterAcks

(***************************************************************************)
(* The failures that the first status of each view need not tell of.       *)
(***************************************************************************)
LEMMA ExcusedCases ==
  /\ view = "overview" => Excused = {"disabled"}
  /\ view = "ruleUser" => Excused = {"acks"}
  /\ view = "detail" => Excused = {"clusters", "hits"}
  /\ view \notin {"overview", "ruleUser", "detail"} => Excused = {}
BY DEF Excused

(***************************************************************************)
(* What one more status makes of the responses.                            *)
(***************************************************************************)
LEMMA Wrote ==
  ASSUME writes \in Seq(Codes), NEW status \in Codes
  PROVE  /\ Append(writes, status) \in Seq(Codes)
         /\ Append(writes, status) # <<>>
         /\ Len(Append(writes, status)) > 1 => writes # <<>>
         /\ Append(writes, status)[1] = IF writes = <<>> THEN status ELSE writes[1]
         /\ Append(writes, status) = <<200>> => writes = <<>> /\ status = 200
<1>1. /\ Append(writes, status) \in Seq(Codes) /\ Len(Append(writes, status)) = Len(writes) + 1
      /\ \A i \in 1..Len(writes) : Append(writes, status)[i] = writes[i]
      /\ Append(writes, status)[Len(writes) + 1] = status
      /\ Len(writes) \in Nat
  BY AppendProperties
<1>2. writes = <<>> <=> Len(writes) = 0
  BY EmptySeq
<1>3. Append(writes, status)[1] = IF writes = <<>> THEN status ELSE writes[1]
  BY <1>1, <1>2
<1>4. Append(writes, status) = <<200>> => writes = <<>> /\ status = 200
  <2> HAVE Append(writes, status) = <<200>>
  <2>1. Len(writes) + 1 = 1
    BY <1>1
  <2>2. QED
    BY <1>1, <1>2, <1>3, <2>1
<1>5. Append(writes, status) # <<>>
  BY <1>1, EmptySeq
<1>6. Len(Append(writes, status)) > 1 => writes # <<>>
  BY <1>1, <1>2
<1>7. QED
  BY <1>1, <1>3, <1>4, <1>5, <1>6

(***************************************************************************)
(* The content is replaced as a whole, and what was there is remembered.   *)
(***************************************************************************)
LEMMA StepContent ==
  ASSUME ContentKnown, Next
  PROVE  ContentKnown' /\ (Begin \/ published \subseteq published')
<1>1. CASE ContentSwap
  BY <1>1 DEF ContentSwap, ContentKnown
<1>2. CASE Begin
  BY <1>2 DEF Begin, ContentKnown
<1>3. CASE UNCHANGED contentVars
  BY <1>3 DEF ContentKnown
<1>4. QED
  BY <1>1, <1>2, <1>3
     DEF Next, ReadParams, ReadRuleContent, ReadAllContent, GetGroups, ReadRating, SendContent,
         ReadClusterInfo, ReadClusterInfoFails, CallNilClient, ReadHits, ReadHitsFails, ReadReports,
         ReadAcks, ReadAcksFails, ReadDisabled, ReadDisabledFails, ProcessClustersDetail, CountHit,
         CountReportHit, Lookup, ReadSeverities, FillInRecommendation, SendResult, EndRequest

(***************************************************************************)
(* A step writes nothing, one error, a success at its end, or two errors.  *)
(***************************************************************************)
Errors == {400, 403, 404, 500, 503}
Silent == UNCHANGED writes
WritesError == \E status \in Errors : Write(status)
WritesTwice == writes' = writes \o <<500, 500>> /\ pc' = "done"
Sends ==
    \/ SendContent \/ ProcessClustersDetail \/ SendResult
    \/ ReadSeverities /\ view = "workloads"

LEMMA StepWrites ==
  ASSUME Next
  PROVE  Silent \/ WritesError \/ WritesTwice \/ (Sends /\ Respond(200)) \/ EndRequest
<1> USE DEF Silent, WritesError, WritesTwice, Errors
<1>1. CASE ContentSwap \/ Begin
  BY <1>1 DEF ContentSwap, Begin
<1>0. CASE ReadParams
  BY <1>0 DEF ReadParams, Goto, Respond
<1>2. CASE ReadRuleContent \/ ReadAllContent
  BY <1>2 DEF ReadRuleContent, ReadAllContent, Goto, Respond
<1>3. CASE GetGroups \/ ReadRating
  BY <1>3 DEF GetGroups, ReadRating, Goto, Respond, RespondOneOf
<1>4. CASE SendContent \/ ProcessClustersDetail \/ SendResult
  BY <1>4 DEF SendContent, ProcessClustersDetail, SendResult, Respond, Sends
<1>5. CASE ReadClusterInfo \/ ReadClusterInfoFails \/ CallNilClient
  BY <1>5 DEF ReadClusterInfo, ReadClusterInfoFails, CallNilClient, Goto, Respond, RespondOneOf
<1>6. CASE ReadHits \/ ReadReports
  BY <1>6 DEF ReadHits, ReadReports, Goto, Respond, RespondOneOf
<1>7. CASE ReadHitsFails
  BY <1>7 DEF ReadHitsFails, Goto, Respond, RespondOneOf
<1>8. CASE ReadAcks \/ ReadAcksFails \/ ReadDisabled \/ ReadDisabledFails
  BY <1>8 DEF ReadAcks, ReadAcksFails, ReadDisabled, ReadDisabledFails, Goto, Respond, RespondOneOf
<1>9. CASE CountHit \/ CountReportHit \/ FillInRecommendation
  BY <1>9 DEF CountHit, CountReportHit, FillInRecommendation, Lookup, Goto, Respond
<1>10. CASE ReadSeverities
  BY <1>10 DEF ReadSeverities, Goto, Respond, Sends
<1>11. QED
  BY <1>0, <1>1, <1>2, <1>3, <1>4, <1>5, <1>6, <1>7, <1>8, <1>9, <1>10 DEF Next

(***************************************************************************)
(* A view goes only to places of its own.                                  *)
(***************************************************************************)
LEMMA StepPlaces ==
  ASSUME Typed, OwnPlaces, Next
  PROVE  pc' \in Places /\ OwnPlaces'
<1>b. ASSUME pc' = "done"
      PROVE  pc' \in Places /\ OwnPlaces'
  BY <1>b DEF Places, OwnPlaces
<1>1. CASE ContentSwap
  BY <1>1 DEF ContentSwap, OwnPlaces, Typed
<1>2. CASE Begin \/ EndRequest
  BY <1>2 DEF Begin, EndRequest, OwnPlaces, Places
<1>3. CASE ReadParams
  <2>1. UNCHANGED view /\ (pc' # "done" => \/ view = "overviewPost" /\ pc' = "hits"
                                           \/ view \in {"overview", "workloads", "namespace"} /\ pc' = "clusters"
                                           \/ view \in OneRuleViews \cup ContentViews /\ pc' = "content")
    BY <1>3 DEF ReadParams, Goto, Respond
  <2>2. QED
    BY <1>b, <2>1 DEF OwnPlaces, Places
<1>4. CASE ReadRuleContent
  <2>1. UNCHANGED view /\ (pc' # "done" => \/ view = "detail" /\ pc' = "clusters"
                                           \/ view \in ContentViews /\ WithGroups /\ pc' = "groups"
                                           \/ view \in ContentViews /\ pc' = "send")
    BY <1>4 DEF ReadRuleContent, Goto, Respond
  <2>2. QED
    BY <1>b, <2>1 DEF OwnPlaces, Places, WithGroups
<1>5. CASE ReadAllContent
  <2>1. UNCHANGED view /\ view \in ContentViews
    BY <1>5 DEF ReadAllContent, OwnPlaces
  <2>2. pc' # "done" => \/ WithGroups /\ pc' = "groups"
                        \/ pc' = "send"
    BY <1>5 DEF ReadAllContent, Goto, Respond
  <2>3. QED
    BY <1>b, <2>1, <2>2 DEF OwnPlaces, Places, WithGroups
<1>6. CASE GetGroups
  <2>1. UNCHANGED view /\ view \in {"rule", "ruleUser", "list"}
    BY <1>6 DEF GetGroups, OwnPlaces
  <2>2. pc' # "done" => \/ view = "ruleUser" /\ pc' = "rating"
                        \/ pc' = "send"
    BY <1>6 DEF GetGroups, Goto, Respond, RespondOneOf
  <2>3. QED
    BY <1>b, <2>1, <2>2 DEF OwnPlaces, Places, ContentViews
<1>7. CASE ReadRating
  <2>1. UNCHANGED view /\ view = "ruleUser" /\ pc' \in {"done", "acks"}
    BY <1>7 DEF ReadRating, OwnPlaces, Goto, Respond, RespondOneOf
  <2>2. QED
    BY <1>b, <2>1 DEF OwnPlaces, Places
<1>8. CASE SendContent \/ CallNilClient \/ ProcessClustersDetail \/ SendResult
  BY <1>8, <1>b DEF SendContent, CallNilClient, ProcessClustersDetail, SendResult, Respond
<1>9. CASE ReadClusterInfo \/ ReadClusterInfoFails
  <2>1. UNCHANGED view /\ view \in {"detail", "overview", "workloads", "namespace"}
    BY <1>9 DEF ReadClusterInfo, ReadClusterInfoFails, OwnPlaces
  <2>2. pc' # "done" => pc' = "hits" \/ (view = "overview" /\ pc' = "loop")
    BY <1>9 DEF ReadClusterInfo, ReadClusterInfoFails, Goto, Respond, RespondOneOf
  <2>3. QED
    BY <1>b, <2>1, <2>2 DEF OwnPlaces, Places
<1>10. CASE ReadHits \/ ReadReports
  <2>1. UNCHANGED view /\ view \in {"detail", "overview", "overviewPost", "workloads", "namespace"}
    BY <1>10 DEF ReadHits, ReadReports, OwnPlaces
  <2>2. pc' = "done" \/ pc' = AfterHits
    BY <1>10 DEF ReadHits, ReadReports, Goto, Respond, RespondOneOf
  <2>3. QED
    BY <1>b, <2>1, <2>2, NextPlaces DEF OwnPlaces, Places
<1>11. CASE ReadHitsFails
  <2>1. UNCHANGED view
    BY <1>11 DEF ReadHitsFails
  <2>2. pc' # "done" => \/ view = "overview" /\ pc' \in {"loop", "acks"}
                        \/ view = "workloads" /\ pc' = "severities"
                        \/ view = "detail" /\ pc' = "disabled"
    BY <1>11 DEF ReadHitsFails, Goto, Respond, RespondOneOf
  <2>3. QED
    BY <1>b, <2>1, <2>2 DEF OwnPlaces, Places
<1>12. CASE ReadAcks
  <2>1. UNCHANGED view /\ view \in {"detail", "overview", "overviewPost", "ruleUser"} /\ pc' = AfterAcks
    BY <1>12 DEF ReadAcks, OwnPlaces, Goto
  <2>2. QED
    BY <2>1, NextPlaces DEF OwnPlaces, Places, ContentViews
<1>13. CASE ReadAcksFails
  <2>1. UNCHANGED view
    BY <1>13 DEF ReadAcksFails
  <2>2. pc' # "done" => \/ view = "overview" /\ pc' = "loop"
                        \/ view = "ruleUser" /\ pc' = "send"
    BY <1>13 DEF ReadAcksFails, Goto, Respond, RespondOneOf
  <2>3. QED
    BY <1>b, <2>1, <2>2 DEF OwnPlaces, Places, ContentViews
<1>14. CASE ReadDisabled \/ ReadDisabledFails
  <2>1. UNCHANGED view /\ view \in {"detail", "overview"}
    BY <1>14 DEF ReadDisabled, ReadDisabledFails, OwnPlaces
  <2>2. pc' # "done" => \/ view = "detail" /\ pc' = "acks"
                        \/ view = "overview" /\ pc' = "loop"
    BY <1>14, <2>1 DEF ReadDisabled, ReadDisabledFails, Goto, Respond, RespondOneOf
  <2>3. QED
    BY <1>b, <2>1, <2>2 DEF OwnPlaces, Places
<1>15. CASE CountHit \/ CountReportHit \/ FillInRecommendation
  <2>1. UNCHANGED view /\ view \in {"overview", "overviewPost", "namespace"} /\ pc' \in {"done", "loop"}
    BY <1>15 DEF CountHit, CountReportHit, FillInRecommendation, Lookup, Goto, Respond
  <2>2. QED
    BY <1>b, <2>1 DEF OwnPlaces, Places
<1>16. CASE ReadSeverities
  <2>1. UNCHANGED view /\ (pc' # "done" => view = "namespace" /\ pc' = "loop")
    BY <1>16 DEF ReadSeverities, Goto, Respond
  <2>2. QED
    BY <1>b, <2>1 DEF OwnPlaces, Places
<1>17. QED
  BY <1>1, <1>2, <1>3, <1>4, <1>5, <1>6, <1>7, <1>8, <1>9, <1>10, <1>11, <1>12, <1>13, <1>14,
     <1>15, <1>16 DEF Next

(***************************************************************************)
(* The hits that are looked at are hits of a rule on a cluster.            *)
(***************************************************************************)
LEMMA HitsTyped ==
  ASSUME NEW known
  PROVE  EnabledHits(known) \subseteq Hits
BY DEF EnabledHits, Hits

(***************************************************************************)
(* Every step preserves the types.                                         *)
(***************************************************************************)
LEMMA StepTyped ==
  ASSUME ContentKnown, Typed, OwnPlaces, Unset, Next
  PROVE  Typed'
<1>1. writes' \in Seq(Codes)
  <2>1. writes \in Seq(Codes) /\ 500 \in Codes /\ 200 \in Codes /\ Errors \subseteq Codes
    BY DEF Typed, Codes, Errors
  <2>2. CASE Silent
    BY <2>1, <2>2 DEF Silent
  <2>3. CASE WritesError
    BY <2>1, <2>3, Wrote DEF WritesError, Write
  <2>4. CASE WritesTwice
    <3>1. <<500, 500>> \in Seq(Codes)
      BY <2>1
    <3>2. QED
      BY <2>1, <2>4, <3>1 DEF WritesTwice
  <2>5. CASE Sends /\ Respond(200)
    BY <2>1, <2>5, Wrote DEF Respond, Write
  <2>6. CASE EndRequest
    BY <2>6 DEF EndRequest
  <2>7. QED
    BY <2>2, <2>3, <2>4, <2>5, <2>6, StepWrites
<1>2. pc' \in Places
  BY StepPlaces
<1> DEFINE Data ==
      /\ view' \in Views /\ selected' \subseteq Rules /\ permitted' \in BOOLEAN /\ osd' \in BOOLEAN
      /\ clusterInfo' \subseteq Clusters /\ managed' \subseteq clusterInfo' /\ fallback' \in BOOLEAN
      /\ hits' \in RulesPerCluster /\ acked' \subseteq Rules /\ disabled' \in RulesPerCluster
      /\ severities' \subseteq Rules /\ pending' \subseteq Hits /\ counted' \subseteq Hits
      /\ shown' \subseteq Rules
<1> SUFFICES Data
  BY <1>1, <1>2 DEF Typed
<1>3. storage.has \subseteq Rules /\ storage.osd \subseteq Rules
  BY DEF ContentKnown, Storages
<1>4. CASE UNCHANGED <<request, clusterVars, userData, osd, severities, pending, counted, shown>>
  BY <1>4 DEF Typed
<1>5. CASE Begin
  BY <1>5 DEF Begin, Typed
<1>6. CASE EndRequest
  BY <1>6 DEF EndRequest, Typed, NoRules, RulesPerCluster
<1>7. CASE ReadParams \/ ReadClusterInfo \/ ReadClusterInfoFails
  <2>1. CASE ReadParams
    BY <2>1 DEF ReadParams, Unset, Typed
  <2>2. CASE ReadClusterInfo
    BY <2>2 DEF ReadClusterInfo, Typed
  <2>3. CASE ReadClusterInfoFails
    BY <2>3 DEF ReadClusterInfoFails, Typed
  <2>4. QED
    BY <1>7, <2>1, <2>2, <2>3
<1>8. CASE ReadRuleContent
  BY <1>8 DEF ReadRuleContent, Typed
<1>9. CASE ReadAllContent
  BY <1>3, <1>9 DEF ReadAllContent, Typed
<1>10. CASE ReadHits \/ ReadReports
  <2>1. PossibleHits \subseteq RulesPerCluster /\ \A f : Subfunctions(f) \subseteq RulesPerCluster
    BY DEF PossibleHits, Subfunctions, RulesPerCluster
  <2>2. QED
    BY <1>10, <2>1 DEF ReadHits, ReadReports, Typed
<1>11. CASE ReadAcks \/ ReadAcksFails
  <2>1. HittingRules \subseteq Rules
    BY DEF HittingRules, Typed, RulesPerCluster
  <2>2. acked' \subseteq Rules
    BY <1>11, <2>1 DEF ReadAcks, ReadAcksFails, Typed
  <2>3. pending' \subseteq Hits
    BY <1>11, HitsTyped DEF ReadAcks, ReadAcksFails, Typed
  <2>4. QED
    BY <1>11, <2>2, <2>3 DEF ReadAcks, ReadAcksFails, Typed
<1>12. CASE ReadDisabled \/ ReadDisabledFails
  <2>1. disabled' \in RulesPerCluster
    <3>1. [Clusters -> SUBSET selected] \subseteq RulesPerCluster
      BY DEF Typed, RulesPerCluster
    <3>2. Subfunctions(hits) \subseteq RulesPerCluster
      BY DEF Subfunctions, RulesPerCluster
    <3>3. QED
      BY <1>12, <3>1, <3>2 DEF ReadDisabled, ReadDisabledFails, Typed
  <2>2. pending' \subseteq Hits
    BY <1>12, HitsTyped DEF ReadDisabled, ReadDisabledFails, Typed
  <2>3. QED
    BY <1>12, <2>1, <2>2 DEF ReadDisabled, ReadDisabledFails, Typed
<1>13. CASE CountHit \/ CountReportHit
  BY <1>13 DEF CountHit, CountReportHit, Lookup, Typed
<1>14. CASE FillInRecommendation
  <2>1. PICK h \in pending :
          /\ pending' = pending \ {h}
          /\ counted' = IF h[2] \in severities THEN counted \cup {h} ELSE counted
          /\ shown' = shown \cup {h[2]} \/ UNCHANGED shown
    BY <1>14 DEF FillInRecommendation
  <2>2. h \in Hits /\ h[2] \in Rules
    BY <2>1 DEF Typed, Hits
  <2>3. QED
    BY <1>14, <2>1, <2>2 DEF FillInRecommendation, Typed
<1>15. CASE ReadSeverities
  BY <1>3, <1>15 DEF ReadSeverities, Typed, Hits
<1>16. QED
  BY <1>4, <1>5, <1>6, <1>7, <1>8, <1>9, <1>10, <1>11, <1>12, <1>13, <1>14, <1>15
     DEF Next, ContentSwap, GetGroups, ReadRating, SendContent, CallNilClient, ReadHitsFails,
         ProcessClustersDetail, SendResult

(***************************************************************************)
(* A local has no value before the step that gives it one.                 *)
(***************************************************************************)
LEMMA StepUnset ==
  ASSUME Typed, OwnPlaces, Unset, Next
  PROVE  Unset'
<1>1. CASE ContentSwap
  BY <1>1 DEF ContentSwap, Unset
<1>2. CASE Begin
  BY <1>2 DEF Begin, Unset
<1>3. CASE EndRequest
  BY <1>3 DEF EndRequest, Unset
<1>4. CASE ReadParams
  BY <1>4 DEF ReadParams, Unset, Goto, Respond
<1>5. CASE ReadRuleContent
  BY <1>5 DEF ReadRuleContent, Unset, Goto, Respond
<1>6. CASE ReadAllContent
  BY <1>6 DEF ReadAllContent, Unset, Goto, Respond
<1>7. CASE GetGroups \/ ReadRating
  BY <1>7 DEF GetGroups, ReadRating, Unset, Goto, Respond, RespondOneOf
<1>8. CASE SendContent \/ CallNilClient \/ ProcessClustersDetail \/ SendResult
  BY <1>8 DEF SendContent, CallNilClient, ProcessClustersDetail, SendResult, Unset, Respond
<1>9. CASE ReadClusterInfo
  BY <1>9 DEF ReadClusterInfo, Unset, Goto
<1>10. CASE ReadClusterInfoFails
  BY <1>10 DEF ReadClusterInfoFails, Unset, Goto, Respond, RespondOneOf
<1>11. CASE ReadHits \/ ReadReports
  BY <1>11, NextPlaces DEF ReadHits, ReadReports, Unset, OwnPlaces, Goto, Respond, RespondOneOf
<1>12. CASE ReadHitsFails
  BY <1>12 DEF ReadHitsFails, Unset, Goto, Respond, RespondOneOf
<1>13. CASE ReadAcks
  BY <1>13, NextPlaces DEF ReadAcks, Unset, OwnPlaces, Goto
<1>14. CASE ReadAcksFails
  BY <1>14 DEF ReadAcksFails, Unset, Goto, Respond, RespondOneOf
<1>15. CASE ReadDisabled
  BY <1>15 DEF ReadDisabled, Unset, Goto
<1>16. CASE ReadDisabledFails
  BY <1>16 DEF ReadDisabledFails, Unset, Goto, Respond, RespondOneOf
<1>17. CASE CountHit \/ CountReportHit \/ FillInRecommendation
  BY <1>17 DEF CountHit, CountReportHit, FillInRecommendation, Lookup, Unset, Goto, Respond
<1>18. CASE ReadSeverities
  BY <1>18 DEF ReadSeverities, Unset, Goto, Respond
<1>19. QED
  BY <1>1, <1>2, <1>3, <1>4, <1>5, <1>6, <1>7, <1>8, <1>9, <1>10, <1>11, <1>12, <1>13, <1>14,
     <1>15, <1>16, <1>17, <1>18 DEF Next

(***************************************************************************)
(* The places of a request, with the types of its locals.                  *)
(***************************************************************************)
LEMMA Followed == Spec => [](ContentKnown /\ Typed /\ OwnPlaces /\ Unset)
<1> DEFINE Inv == ContentKnown /\ Typed /\ OwnPlaces /\ Unset
<1>1. Init => Inv
  <2> SUFFICES ASSUME Init PROVE Inv
    OBVIOUS
  <2>1. ContentKnown
    <3>1. EmptyStorage \in Storages
      BY DEF Storages, EmptyStorage
    <3>2. QED
      BY <3>1 DEF Init, ContentKnown
  <2>2. Typed
    <3>1. writes \in Seq(Codes) /\ pc \in Places /\ view \in Views
      BY DEF Init, Places, Views
    <3>2. hits \in RulesPerCluster /\ disabled \in RulesPerCluster
      BY DEF Init, RulesPerCluster, NoRules
    <3>3. QED
      BY <3>1, <3>2 DEF Init, Typed
  <2>3. OwnPlaces /\ Unset
    BY DEF Init, OwnPlaces, Unset
  <2>4. QED
    BY <2>1, <2>2, <2>3
<1>2. Inv /\ [Next]_vars => Inv'
  <2>1. CASE Next
    BY <2>1, StepContent, StepTyped, StepPlaces, StepUnset
  <2>2. CASE UNCHANGED vars
    BY <2>2 DEF ContentKnown, Typed, OwnPlaces, Unset
  <2>3. QED
    BY <2>1, <2>2
<1>3. QED
  BY <1>1, <1>2, PTL DEF Spec

-----------------------------------------------------------------------------
(***************************************************************************)
(* What is written along the way: nothing, or an error because something   *)
(* failed.                                                                 *)
(***************************************************************************)
LEMMA StepFailures ==
  ASSUME Typed, OwnPlaces, SoFar, FailuresAnswered, Next
  PROVE  SoFar' /\ FailuresAnswered'
<1> DEFINE Unwritten == writes = <<>> /\ failed \subseteq Excused
           Written == writes # <<>> /\ writes[1] >= 400 /\ failed # {}
<1>a. /\ pc # "done" => Unwritten \/ Written
      /\ pc = "idle" => writes = <<>> /\ failed = {}
  BY DEF SoFar
<1>b. /\ writes \in Seq(Codes) /\ Errors \subseteq Codes /\ 200 \in Codes
      /\ \A status \in Errors : status >= 400 /\ status # 200
  BY DEF Typed, Codes, Errors
<1>c. UNCHANGED view => Excused' = Excused
  BY DEF Excused
<1>d. \A n \in Codes : n >= 400 => n # 200
  BY DEF Codes
<1>e. writes # <<>> => writes[1] \in Codes
  BY <1>b, EmptySeq
<1> DEFINE Final ==
      /\ writes = <<>> => \/ view = "namespace" /\ failed = {"panic"}
                          \/ view = "overviewPost" /\ failed = {"acks"}
      /\ writes # <<>> /\ writes[1] = 200 => failed \subseteq Excused
      /\ Len(writes) > 1 => failed # {} /\ writes[1] >= 400
<1>f. FailuresAnswered <=> (pc = "done" => Final)
  BY DEF FailuresAnswered, Excused
<1>g. FailuresAnswered' <=> (pc' = "done" => Final')
  BY DEF FailuresAnswered, Excused
<1> DEFINE Goal == SoFar' /\ FailuresAnswered'
<1> SUFFICES Goal
  OBVIOUS
<1>1. ASSUME Unwritten' \/ Written', pc' \notin {"idle", "done"}
      PROVE  Goal
  BY <1>1, <1>g DEF SoFar
<1>2. ASSUME Final', pc' = "done"
      PROVE  Goal
  BY <1>2, <1>g DEF SoFar
<1>3. ASSUME NEW status \in Errors, Respond(status), pc # "done", failed \subseteq failed'
      PROVE  Goal
  <2>1. /\ writes' # <<>> /\ (Len(writes') > 1 => writes # <<>>)
        /\ writes'[1] = IF writes = <<>> THEN status ELSE writes[1]
    BY <1>3, <1>b, Wrote DEF Respond, Write
  <2>2. writes'[1] >= 400 /\ writes'[1] # 200
    BY <1>3, <1>a, <1>b, <1>d, <1>e, <2>1
  <2>3. Len(writes') > 1 => failed' # {}
    BY <1>3, <1>a, <2>1
  <2>4. QED
    BY <1>2, <1>3, <2>1, <2>2, <2>3 DEF Respond
<1>4. ASSUME NEW status \in Errors, Write(status), pc # "done", failed' # {}, pc' \notin {"idle", "done"}
      PROVE  Goal
  <2>1. writes' # <<>> /\ writes'[1] = IF writes = <<>> THEN status ELSE writes[1]
    BY <1>4, <1>b, Wrote DEF Write
  <2>2. writes'[1] >= 400
    BY <1>4, <1>a, <1>b, <2>1
  <2>3. QED
    BY <1>1, <1>4, <2>1, <2>2
<1>5. ASSUME Respond(200), pc # "done", UNCHANGED <<failed, view>>
      PROVE  Goal
  <2>1. /\ writes' # <<>> /\ (Len(writes') > 1 => writes # <<>>)
        /\ writes'[1] = IF writes = <<>> THEN 200 ELSE writes[1]
    BY <1>5, <1>b, Wrote DEF Respond, Write
  <2>2. CASE Unwritten
    BY <1>2, <1>5, <1>c, <2>1, <2>2 DEF Respond
  <2>3. CASE Written
    BY <1>2, <1>5, <1>d, <1>e, <2>1, <2>3 DEF Respond
  <2>4. QED
    BY <1>5, <1>a, <2>2, <2>3
<1>6. ASSUME UNCHANGED <<writes, failed, view>>, pc # "done", pc' \notin {"idle", "done"}
      PROVE  Goal
  BY <1>1, <1>6, <1>a, <1>c
<1> HIDE DEF Goal
<1>7. CASE ContentSwap
  BY <1>7, <1>c, <1>f, <1>g DEF ContentSwap, SoFar, Goal
<1>8. CASE Begin
  <2>1. writes' = <<>> /\ failed' = {} /\ pc' = "params"
    BY <1>8, <1>a DEF Begin
  <2>2. QED
    BY <1>1, <2>1
<1>9. CASE EndRequest
  BY <1>9 DEF EndRequest, SoFar, FailuresAnswered, Goal
<1>10. CASE ReadParams
  <2>1. UNCHANGED <<failed, view>> /\ pc = "params"
    BY <1>10 DEF ReadParams
  <2>2. \/ UNCHANGED writes /\ pc' \in {"hits", "clusters", "content"}
        \/ \E status \in Errors : Respond(status)
    BY <1>10 DEF ReadParams, Goto, Errors
  <2>3. QED
    BY <1>3, <1>6, <2>1, <2>2
<1>11. CASE ReadRuleContent \/ ReadAllContent
  <2>1. UNCHANGED <<failed, view>> /\ pc = "content"
    BY <1>11 DEF ReadRuleContent, ReadAllContent
  <2>2. \/ UNCHANGED writes /\ pc' \in {"clusters", "groups", "send"}
        \/ \E status \in Errors : Respond(status)
    BY <1>11 DEF ReadRuleContent, ReadAllContent, Goto, Errors
  <2>3. QED
    BY <1>3, <1>6, <2>1, <2>2
<1>12. CASE GetGroups \/ ReadRating
  <2>1. UNCHANGED view /\ pc # "done" /\ failed \subseteq failed'
    BY <1>12 DEF GetGroups, ReadRating, Failing
  <2>2. \/ UNCHANGED <<writes, failed>> /\ pc' \in {"rating", "send", "acks"}
        \/ \E status \in Errors : Respond(status)
    BY <1>12 DEF GetGroups, ReadRating, Goto, RespondOneOf, Errors
  <2>3. QED
    BY <1>3, <1>6, <2>1, <2>2
<1>13. CASE SendContent \/ ProcessClustersDetail \/ SendResult
  <2>1. UNCHANGED <<failed, view>> /\ pc # "done" /\ (Respond(200) \/ Respond(500))
    BY <1>13 DEF SendContent, ProcessClustersDetail, SendResult
  <2>2. 500 \in Errors
    BY DEF Errors
  <2>3. QED
    BY <1>3, <1>5, <2>1, <2>2
<1>14. CASE ReadClusterInfo \/ ReadHits \/ ReadAcks \/ ReadDisabled
  <2>1. UNCHANGED <<failed, view, writes>> /\ pc # "done"
    BY <1>14 DEF ReadClusterInfo, ReadHits, ReadAcks, ReadDisabled, Goto
  <2>2. pc' \notin {"idle", "done"}
    BY <1>14, NextPlaces DEF ReadClusterInfo, ReadHits, ReadAcks, ReadDisabled, Goto, OwnPlaces
  <2>3. QED
    BY <1>6, <2>1, <2>2
<1>15. CASE ReadClusterInfoFails
  <2>1. UNCHANGED view /\ pc # "done" /\ failed' = failed \cup {"clusters"}
    BY <1>15 DEF ReadClusterInfoFails, Failing
  <2>2. \/ view = "detail" /\ UNCHANGED writes /\ pc' = "hits"
        \/ \E status \in Errors : Write(status) /\ pc' = "loop"
        \/ \E status \in Errors : Respond(status)
    BY <1>15 DEF ReadClusterInfoFails, Goto, RespondOneOf, Errors
  <2>3. CASE view = "detail" /\ UNCHANGED writes /\ pc' = "hits"
    <3>1. Unwritten' \/ Written'
      BY <1>a, <1>c, <2>1, <2>3, ExcusedCases
    <3>2. QED
      BY <1>1, <2>3, <3>1
  <2>4. QED
    BY <1>3, <1>4, <2>1, <2>2, <2>3
<1>16. CASE CallNilClient
  <2>1. UNCHANGED <<view, writes>> /\ pc = "clusters" /\ view = "namespace"
        /\ failed' = failed \cup {"panic"} /\ pc' = "done"
    BY <1>16 DEF CallNilClient, Failing
  <2>2. CASE Unwritten
    <3>1. failed = {}
      BY <2>1, <2>2, ExcusedCases
    <3>2. Len(writes') = 0
      BY <2>1, <2>2
    <3>3. QED
      BY <1>2, <2>1, <2>2, <3>1, <3>2
  <2>3. CASE Written
    BY <1>2, <1>d, <1>e, <2>1, <2>3
  <2>4. QED
    BY <1>a, <2>1, <2>2, <2>3
<1>17. CASE ReadReports
  <2>1. UNCHANGED view /\ pc # "done" /\ failed \subseteq failed' /\ view = "overviewPost"
    BY <1>17 DEF ReadReports, Failing
  <2>2. \/ UNCHANGED <<writes, failed>> /\ pc' = "acks"
        \/ \E status \in Errors : Respond(status)
    BY <1>17, <2>1, NextPlaces DEF ReadReports, Goto, RespondOneOf, Errors
  <2>3. QED
    BY <1>3, <1>6, <2>1, <2>2
<1>18. CASE ReadHitsFails
  <2>1. UNCHANGED view /\ pc # "done" /\ failed' = failed \cup {"hits"}
    BY <1>18 DEF ReadHitsFails, Failing
  <2>2. \/ view = "detail" /\ UNCHANGED writes /\ pc' = "disabled"
        \/ WritesTwice
        \/ \E status \in Errors : Write(status) /\ pc' \in {"loop", "acks", "severities"}
        \/ \E status \in Errors : Respond(status)
    BY <1>18 DEF ReadHitsFails, Goto, RespondOneOf, Errors, WritesTwice
  <2>3. CASE view = "detail" /\ UNCHANGED writes /\ pc' = "disabled"
    <3>1. Unwritten' \/ Written'
      BY <1>a, <1>c, <2>1, <2>3, ExcusedCases
    <3>2. QED
      BY <1>1, <2>3, <3>1
  <2>4. CASE WritesTwice
    <3>1. /\ writes' \in Seq(Codes) /\ Len(writes') = Len(writes) + 2
          /\ writes'[1] = IF Len(writes) = 0 THEN 500 ELSE writes[1]
      <4>1. <<500, 500>> \in Seq(Codes)
        BY DEF Codes
      <4>2. QED
        BY <1>b, <2>4, <4>1, ConcatProperties DEF WritesTwice
    <3>2. Len(writes) \in Nat /\ (writes = <<>> <=> Len(writes) = 0)
      BY <1>b, EmptySeq
    <3>3. writes'[1] >= 400 /\ writes'[1] # 200 /\ writes' # <<>>
      BY <1>a, <1>d, <1>e, <2>1, <3>1, <3>2, EmptySeq
    <3>4. QED
      BY <1>2, <2>1, <2>4, <3>3 DEF WritesTwice
  <2>5. QED
    BY <1>3, <1>4, <2>1, <2>2, <2>3, <2>4
<1>19. CASE ReadAcksFails
  <2>1. UNCHANGED view /\ pc # "done" /\ failed' = failed \cup {"acks"}
    BY <1>19 DEF ReadAcksFails, Failing
  <2>2. \/ view = "ruleUser" /\ UNCHANGED writes /\ pc' = "send"
        \/ view = "overviewPost" /\ UNCHANGED writes /\ pc' = "done"
        \/ \E status \in Errors : Write(status) /\ pc' = "loop"
        \/ \E status \in Errors : Respond(status)
    BY <1>19 DEF ReadAcksFails, Goto, RespondOneOf, Errors
  <2>3. CASE view = "ruleUser" /\ UNCHANGED writes /\ pc' = "send"
    <3>1. Unwritten' \/ Written'
      BY <1>a, <1>c, <2>1, <2>3, ExcusedCases
    <3>2. QED
      BY <1>1, <2>3, <3>1
  <2>4. CASE view = "overviewPost" /\ UNCHANGED writes /\ pc' = "done"
    <3>1. CASE Unwritten
      <4>1. failed = {}
        BY <2>4, <3>1, ExcusedCases
      <4>2. Len(writes') = 0
        BY <2>4, <3>1
      <4>3. QED
        BY <1>2, <2>1, <2>4, <3>1, <4>1, <4>2
    <3>2. CASE Written
      BY <1>2, <1>d, <1>e, <2>1, <2>4, <3>2
    <3>3. QED
      BY <1>a, <2>1, <3>1, <3>2
  <2>5. QED
    BY <1>3, <1>4, <2>1, <2>2, <2>3, <2>4
<1>20. CASE ReadDisabledFails
  <2>1. UNCHANGED view /\ pc # "done" /\ failed' = failed \cup {"disabled"}
    BY <1>20 DEF ReadDisabledFails, Failing
  <2>2. \/ view = "overview" /\ UNCHANGED writes /\ pc' = "loop"
        \/ \E status \in Errors : Respond(status)
    BY <1>20 DEF ReadDisabledFails, Goto, RespondOneOf, Errors
  <2>3. CASE view = "overview" /\ UNCHANGED writes /\ pc' = "loop"
    <3>1. Unwritten' \/ Written'
      BY <1>a, <1>c, <2>1, <2>3, ExcusedCases
    <3>2. QED
      BY <1>1, <2>3, <3>1
  <2>4. QED
    BY <1>3, <2>1, <2>2, <2>3
<1>21. CASE CountHit \/ CountReportHit \/ FillInRecommendation
  <2>1. UNCHANGED <<failed, view>> /\ pc = "loop"
    BY <1>21 DEF CountHit, CountReportHit, FillInRecommendation, Lookup
  <2>2. \/ UNCHANGED writes /\ pc' = "loop"
        \/ \E status \in Errors : Respond(status)
    BY <1>21 DEF CountHit, CountReportHit, FillInRecommendation, Lookup, Goto, Errors
  <2>3. QED
    BY <1>3, <1>6, <2>1, <2>2
<1>22. CASE ReadSeverities
  <2>1. UNCHANGED <<failed, view>> /\ pc = "severities"
    BY <1>22 DEF ReadSeverities
  <2>2. \/ UNCHANGED writes /\ pc' = "loop"
        \/ Respond(200)
        \/ \E status \in Errors : Respond(status)
    BY <1>22 DEF ReadSeverities, Goto, Errors
  <2>3. QED
    BY <1>3, <1>5, <1>6, <2>1, <2>2
<1>23. QED
  BY <1>7, <1>8, <1>9, <1>10, <1>11, <1>12, <1>13, <1>14, <1>15, <1>16, <1>17, <1>18, <1>19, <1>20,
     <1>21, <1>22 DEF Next

(***************************************************************************)
(* What has failed and what has been written agree all along.              *)
(***************************************************************************)
LEMMA Answered == Spec => [](SoFar /\ FailuresAnswered)
<1>1. Init => SoFar /\ FailuresAnswered
  BY ExcusedCases DEF Init, SoFar, FailuresAnswered
<1>2. ContentKnown /\ Typed /\ OwnPlaces /\ Unset /\ SoFar /\ FailuresAnswered /\ [Next]_vars
        => SoFar' /\ FailuresAnswered'
  <2>1. CASE Next
    BY <2>1, StepFailures
  <2>2. CASE UNCHANGED vars
    BY <2>2 DEF SoFar, Excused, FailuresAnswered
  <2>3. QED
    BY <2>1, <2>2
<1>3. QED
  BY <1>1, <1>2, Followed, PTL DEF Spec

(***************************************************************************)
(* The client learns of a failed call from the first status, as far as the *)
(* views mean it to, and a request without a response is explained.        *)
(***************************************************************************)
THEOREM FailuresSeen == Spec => []FailuresAnswered
BY Answered, PTL

(***************************************************************************)
(* A handler has sent its result when it did so in this step, with nothing *)
(* written before, or earlier.                                             *)
(***************************************************************************)
LEMMA SentBy ==
  ASSUME Typed, SoFar, Next, Sent'
  PROVE  \/ ContentSwap /\ Sent
         \/ Sends /\ Respond(200) /\ writes = <<>>
<1>1. writes' = <<200>> /\ pc' = "done"
  BY DEF Sent
<1>2. writes \in Seq(Codes) /\ Errors \subseteq Codes /\ 200 \in Codes /\ 200 \notin Errors
  BY DEF Typed, Codes, Errors
<1>3. CASE Silent
  <2>1. writes # <<>> /\ writes[1] = 200
    BY <1>1, <1>3 DEF Silent
  <2>2. pc = "done"
    BY <2>1 DEF SoFar
  <2>3. ContentSwap \/ EndRequest
    BY <2>2 DEF Next, Begin, ReadParams, ReadRuleContent, ReadAllContent, GetGroups, ReadRating,
                SendContent, ReadClusterInfo, ReadClusterInfoFails, CallNilClient, ReadHits,
                ReadHitsFails, ReadReports, ReadAcks, ReadAcksFails, ReadDisabled, ReadDisabledFails,
                ProcessClustersDetail, CountHit, CountReportHit, ReadSeverities,
                FillInRecommendation, SendResult
  <2>4. QED
    BY <1>1, <1>3, <2>2, <2>3 DEF Silent, Sent, EndRequest
<1>4. CASE WritesError
  BY <1>1, <1>2, <1>4, Wrote DEF WritesError, Write
<1>5. CASE WritesTwice
  <2>1. <<500, 500>> \in Seq(Codes)
    BY DEF Codes
  <2>2. Len(writes) \in Nat /\ Len(writes') = Len(writes) + 2
    BY <1>2, <1>5, <2>1, ConcatProperties DEF WritesTwice
  <2>3. QED
    BY <1>1, <2>2
<1>6. CASE Sends /\ Respond(200)
  BY <1>1, <1>2, <1>6, Wrote DEF Respond, Write
<1>7. CASE EndRequest
  BY <1>1, <1>7 DEF EndRequest
<1>8. QED
  BY <1>3, <1>4, <1>5, <1>6, <1>7, StepWrites

-----------------------------------------------------------------------------
(***************************************************************************)
(* More content in place since the request began means fewer rules that    *)
(* were there throughout and more that were there at all.                  *)
(***************************************************************************)
LEMMA MoreContent ==
  ASSUME published \subseteq published'
  PROVE  /\ StableRules' \subseteq StableRules
         /\ StableManagedRules' \subseteq StableManagedRules
         /\ EverManagedRules \subseteq EverManagedRules'
BY DEF StableRules, StableManagedRules, EverManagedRules

(***************************************************************************)
(* The detail view judges by content in place, and is told of no clusters  *)
(* but those it asked about.                                               *)
(***************************************************************************)
LEMMA StepHits ==
  ASSUME ContentKnown, Typed, OwnPlaces, Unset, OsdKnown, HitsWithin, Next
  PROVE  OsdKnown' /\ HitsWithin'
<1>1. OsdKnown'
  <2>1. CASE Begin
    BY <2>1 DEF Begin, Unset, OsdKnown
  <2>2. CASE UNCHANGED <<osd, selected>> /\ published \subseteq published'
    BY <2>2, MoreContent DEF OsdKnown
  <2>3. CASE ReadRuleContent
    <3>1. UNCHANGED <<published, selected>> /\ (UNCHANGED osd \/ osd' = (selected \subseteq storage.osd))
      BY <2>3 DEF ReadRuleContent
    <3>2. storage.osd \cap Rules \subseteq EverManagedRules /\ selected \subseteq Rules
      BY DEF ContentKnown, Typed, EverManagedRules
    <3>3. EverManagedRules' = EverManagedRules
      BY <3>1 DEF EverManagedRules
    <3>4. QED
      BY <3>1, <3>2, <3>3 DEF OsdKnown
  <2>4. CASE EndRequest
    BY <2>4 DEF EndRequest, OsdKnown
  <2>5. QED
    BY <2>1, <2>2, <2>3, <2>4, StepContent
       DEF Next, ContentSwap, ReadParams, ReadAllContent, GetGroups, ReadRating, SendContent,
           ReadClusterInfo, ReadClusterInfoFails, CallNilClient, ReadHits, ReadHitsFails, ReadReports,
           ReadAcks, ReadAcksFails, ReadDisabled, ReadDisabledFails, ProcessClustersDetail, CountHit,
           CountReportHit, Lookup, ReadSeverities, FillInRecommendation, SendResult
<1>2. HitsWithin'
  <2>1. CASE hits' = NoRules
    BY <2>1 DEF HitsWithin, NoRules
  <2>2. CASE UNCHANGED <<view, fallback, osd, clusterInfo, managed, hits>>
    BY <2>2 DEF HitsWithin, AsksAboutAll, Considered
  <2>3. CASE ReadHits
    <3>1. UNCHANGED <<view, fallback, osd, clusterInfo, managed>> /\ hits' \in PossibleHits
      BY <2>3 DEF ReadHits
    <3>2. Considered' = Considered /\ AsksAboutAll' = AsksAboutAll
      BY <3>1 DEF AsksAboutAll, Considered
    <3>3. ASSUME ~AsksAboutAll, view # "workloads", NEW c \in Clusters, hits'[c] # {}
          PROVE  c \in Considered
      BY <3>1, <3>3 DEF PossibleHits, Subfunctions
    <3>4. QED
      BY <3>1, <3>2, <3>3 DEF HitsWithin
  <2>4. CASE ReadReports
    BY <2>4 DEF ReadReports, HitsWithin
  <2>5. CASE Begin \/ EndRequest \/ ReadParams \/ ReadRuleContent \/ ReadClusterInfo \/ ReadClusterInfoFails
    BY <2>1, <2>5 DEF Begin, EndRequest, ReadParams, ReadRuleContent, ReadClusterInfo,
                      ReadClusterInfoFails, Unset
  <2>6. QED
    BY <2>2, <2>3, <2>4, <2>5
       DEF Next, ContentSwap, ReadAllContent, GetGroups, ReadRating, SendContent, CallNilClient,
           ReadHitsFails, ReadAcks, ReadAcksFails, ReadDisabled, ReadDisabledFails,
           ProcessClustersDetail, CountHit, CountReportHit, Lookup, ReadSeverities,
           FillInRecommendation, SendResult
<1>3. QED
  BY <1>1, <1>2

(***************************************************************************)
(* So it is all along.                                                     *)
(***************************************************************************)
LEMMA Asked == Spec => [](OsdKnown /\ HitsWithin)
<1>1. Init => OsdKnown /\ HitsWithin
  BY DEF Init, OsdKnown, HitsWithin, NoRules
<1>2. ContentKnown /\ Typed /\ OwnPlaces /\ Unset /\ OsdKnown /\ HitsWithin /\ [Next]_vars
        => OsdKnown' /\ HitsWithin'
  <2>1. CASE Next
    BY <2>1, StepHits
  <2>2. CASE UNCHANGED vars
    BY <2>2 DEF OsdKnown, EverManagedRules, HitsWithin, AsksAboutAll, Considered
  <2>3. QED
    BY <2>1, <2>2
<1>3. QED
  BY <1>1, <1>2, Followed, PTL DEF Spec

(***************************************************************************)
(* The lists of the detail view are exact when they are sent, and stay so  *)
(* when the content changes afterwards.                                    *)
(***************************************************************************)
LEMMA StepLists ==
  ASSUME ContentKnown, Typed, OwnPlaces, Unset, SoFar, OsdKnown, HitsWithin, DetailListsExact, Next
  PROVE  DetailListsExact'
<1> SUFFICES ASSUME view' = "detail", Sent'
             PROVE  DetailListsExact'
  BY DEF DetailListsExact
<1>1. CASE ContentSwap /\ Sent
  <2>1. UNCHANGED <<view, selected, listing, hits, disabled, acked, fallback, osd, clusterInfo, managed>>
        /\ published \subseteq published'
    BY <1>1 DEF ContentSwap
  <2>2. EverManagedRules \subseteq EverManagedRules' /\ AsksAboutAll' = AsksAboutAll
    BY <2>1, MoreContent DEF AsksAboutAll, Considered
  <2>3. QED
    BY <1>1, <2>1, <2>2 DEF DetailListsExact
<1>2. CASE Sends
  <2>1. UNCHANGED view
    BY <1>2 DEF Sends, SendContent, ProcessClustersDetail, SendResult, ReadSeverities
  <2>2. ProcessClustersDetail
    BY <1>2, <2>1 DEF Sends, SendContent, SendResult, OwnPlaces, ContentViews
  <2> DEFINE off == {c \in Considered : disabled[c] # {}}
             hit == {c \in Clusters : hits[c] # {}}
             rest == hit \ off
  <2>3. /\ listing'.enabled = IF acked = {} THEN rest ELSE {}
        /\ listing'.disabled = off \cup (IF acked = {} THEN {} ELSE rest)
        /\ UNCHANGED <<selected, hits, disabled, acked, fallback, osd, clusterInfo, managed, published>>
    BY <2>2 DEF ProcessClustersDetail
  <2>4. Considered \subseteq clusterInfo /\ clusterInfo \subseteq Clusters
        /\ (Considered \cap managed # {} => osd)
    BY <2>1 DEF Considered, Typed
  <2>5. ~AsksAboutAll => hit \subseteq Considered
    BY <2>1 DEF HitsWithin
  <2>6. EverManagedRules' = EverManagedRules /\ AsksAboutAll' = AsksAboutAll
    BY <2>1, <2>3 DEF EverManagedRules, AsksAboutAll, Considered
  <2>7. osd => selected \subseteq EverManagedRules
    BY DEF OsdKnown
  <2> DEFINE on2 == listing'.enabled
             off2 == listing'.disabled
  <2>8. /\ on2 \cap off2 = {} /\ hit \subseteq on2 \cup off2
        /\ off2 \subseteq {c \in Clusters : disabled[c] # {} \/ (acked # {} /\ c \in hit)}
        /\ acked # {} => on2 = {}
    BY <2>3, <2>4
  <2>9. ASSUME ~AsksAboutAll
        PROVE  /\ on2 \cup off2 \subseteq clusterInfo
               /\ (on2 \cup off2) \cap managed # {} => selected \subseteq EverManagedRules
               /\ on2 = {c \in hit : acked \cup disabled[c] = {}}
    <3>1. on2 \cup off2 \subseteq Considered
      BY <2>3, <2>5, <2>9
    <3>2. on2 = {c \in hit : acked \cup disabled[c] = {}}
      BY <2>3, <2>5, <2>9
    <3> HIDE DEF on2, off2
    <3>3. QED
      BY <2>4, <2>7, <3>1, <3>2
  <2>10. QED
    BY <2>3, <2>6, <2>8, <2>9 DEF DetailListsExact
<1>3. QED
  BY <1>1, <1>2, SentBy

(***************************************************************************)
(* The detail view puts each cluster its rule hits on one of its two       *)
(* lists, the right one, whatever becomes of the content meanwhile.        *)
(***************************************************************************)
THEOREM ListsExact == Spec => []DetailListsExact
<1>1. Init => DetailListsExact
  BY DEF Init, DetailListsExact, Sent
<1>2. /\ ContentKnown /\ Typed /\ OwnPlaces /\ Unset /\ SoFar /\ OsdKnown /\ HitsWithin
      /\ DetailListsExact /\ [Next]_vars
      => DetailListsExact'
  <2>1. CASE Next
    BY <2>1, StepLists
  <2>2. CASE UNCHANGED vars
    BY <2>2 DEF EverManagedRules, DetailListsExact, Sent, AsksAboutAll, Considered
  <2>3. QED
    BY <2>1, <2>2
<1>3. QED
  BY <1>1, <1>2, Followed, Answered, Asked, PTL DEF Spec

-----------------------------------------------------------------------------
(***************************************************************************)
(* Content that may not be shown is not, and the list leaves out nothing   *)
(* that was there throughout.                                              *)
(***************************************************************************)
LEMMA StepContentRead ==
  ASSUME ContentKnown, Typed, OwnPlaces, Unset, SoFar, Allowed, ListRead, Next
  PROVE  Allowed' /\ ListRead'
<1> DEFINE Due2 == StableRules \ (IF permitted THEN {} ELSE InternalRules)
<1>1. Allowed'
  <2>1. CASE shown' = {}
    BY <2>1 DEF Allowed
  <2>2. CASE UNCHANGED <<view, permitted, shown>>
    BY <2>2 DEF Allowed
  <2>3. CASE Begin \/ EndRequest
    BY <2>1, <2>3 DEF Begin, EndRequest, Unset
  <2>4. CASE ReadRuleContent
    BY <2>4 DEF ReadRuleContent, Visible, Allowed
  <2>5. CASE ReadAllContent
    BY <2>5 DEF ReadAllContent, Allowed
  <2>6. CASE FillInRecommendation
    BY <2>6 DEF FillInRecommendation, Allowed, ContentViews
  <2>7. QED
    BY <2>2, <2>3, <2>4, <2>5, <2>6
       DEF Next, ContentSwap, ReadParams, GetGroups, ReadRating, SendContent, ReadClusterInfo,
           ReadClusterInfoFails, CallNilClient, ReadHits, ReadHitsFails, ReadReports, ReadAcks,
           ReadAcksFails, ReadDisabled, ReadDisabledFails, ProcessClustersDetail, CountHit,
           CountReportHit, Lookup, ReadSeverities, SendResult
<1>2. ListRead'
  <2> SUFFICES ASSUME view' \in {"listV1", "list"}, pc' \in {"groups", "send"} \/ Sent'
               PROVE  Due2' \subseteq shown'
    BY DEF ListRead
  <2>1. CASE /\ pc \in {"groups", "send"} \/ Sent
             /\ UNCHANGED <<view, permitted, shown>> /\ published \subseteq published'
    BY <2>1, MoreContent DEF ListRead
  <2>2. CASE ContentSwap
    BY <2>1, <2>2 DEF ContentSwap, Sent
  <2>3. CASE Sent' /\ Sends
    <3>1. UNCHANGED <<view, permitted, published>>
      BY <2>3 DEF Sends, SendContent, ProcessClustersDetail, SendResult, ReadSeverities
    <3>2. SendContent
      BY <2>3, <3>1 DEF Sends, ProcessClustersDetail, SendResult, OwnPlaces
    <3>3. QED
      BY <2>1, <3>2 DEF SendContent
  <2>4. CASE ~Sent' /\ ReadAllContent
    <3>1. /\ shown' = IF permitted THEN storage.has ELSE storage.has \ InternalRules
          /\ UNCHANGED <<permitted, published>>
      BY <2>4 DEF ReadAllContent, Respond
    <3>2. StableRules \subseteq storage.has /\ StableRules' = StableRules
      BY <3>1 DEF ContentKnown, StableRules
    <3>3. QED
      BY <3>1, <3>2
  <2>5. CASE ~Sent' /\ GetGroups
    BY <2>1, <2>5 DEF GetGroups
  <2>6. CASE ~Sent' /\ ~ContentSwap /\ ~ReadAllContent /\ ~GetGroups
    <3>1. ReadRuleContent \/ ReadAcks \/ ReadAcksFails
      <4>1. pc' \in {"groups", "send"}
        BY <2>6
      <4>2. ~ReadHits /\ ~ReadReports
        BY <4>1, NextPlaces DEF ReadHits, ReadReports, Goto, RespondOneOf, Respond, OwnPlaces
      <4>3. ~Begin /\ ~ReadParams /\ ~ReadRating /\ ~SendContent /\ ~EndRequest
        BY <4>1 DEF Begin, ReadParams, ReadRating, SendContent, EndRequest, Goto, RespondOneOf, Respond
      <4>4. ~ReadClusterInfo /\ ~ReadClusterInfoFails /\ ~CallNilClient /\ ~ReadHitsFails
        BY <4>1 DEF ReadClusterInfo, ReadClusterInfoFails, CallNilClient, ReadHitsFails, Goto,
                    RespondOneOf, Respond
      <4>5. ~ReadDisabled /\ ~ReadDisabledFails /\ ~ProcessClustersDetail /\ ~SendResult
        BY <4>1 DEF ReadDisabled, ReadDisabledFails, ProcessClustersDetail, SendResult, Goto,
                    RespondOneOf, Respond
      <4>6. ~CountHit /\ ~CountReportHit /\ ~ReadSeverities /\ ~FillInRecommendation
        BY <4>1 DEF CountHit, CountReportHit, Lookup, ReadSeverities, FillInRecommendation, Goto, Respond
      <4>7. QED
        BY <2>6, <4>2, <4>3, <4>4, <4>5, <4>6 DEF Next
    <3>2. UNCHANGED view /\ view \in OneRuleViews \cup {"detail", "overview", "overviewPost", "ruleUser"}
      BY <3>1 DEF ReadRuleContent, ReadAcks, ReadAcksFails, OwnPlaces
    <3>3. QED
      BY <3>2 DEF OneRuleViews
  <2>7. QED
    BY <2>2, <2>3, <2>4, <2>5, <2>6, SentBy
<1>3. QED
  BY <1>1, <1>2

(***************************************************************************)
(* The steps of the loop over the recommendations of a namespace.          *)
(***************************************************************************)
LEMMA NamespaceLoop ==
  ASSUME OwnPlaces, Next, view' = "namespace", pc' = "loop"
  PROVE  ContentSwap \/ ReadSeverities \/ FillInRecommendation
<1> SUFFICES ASSUME ~ContentSwap, ~ReadSeverities, ~FillInRecommendation
             PROVE  FALSE
  OBVIOUS
<1>1. ~ReadHits /\ ~ReadReports
  BY NextPlaces DEF ReadHits, ReadReports, Goto, RespondOneOf, Respond, OwnPlaces
<1>2. UNCHANGED view
  BY <1>1 DEF Next, Begin, ReadParams, ReadRuleContent, ReadAllContent, GetGroups, ReadRating,
              SendContent, ReadClusterInfo, ReadClusterInfoFails, CallNilClient, ReadHitsFails,
              ReadAcks, ReadAcksFails, ReadDisabled, ReadDisabledFails, ProcessClustersDetail,
              CountHit, CountReportHit, Lookup, SendResult, EndRequest
<1>3. ~ReadAcks /\ ~ReadAcksFails /\ ~ReadDisabled /\ ~ReadDisabledFails /\ ~CountHit /\ ~CountReportHit
  BY <1>2 DEF ReadAcks, ReadAcksFails, ReadDisabled, ReadDisabledFails, CountHit, CountReportHit,
              OwnPlaces
<1>4. QED
  BY <1>1, <1>2, <1>3
     DEF Next, Begin, ReadParams, ReadRuleContent, ReadAllContent, GetGroups, ReadRating,
         SendContent, ReadClusterInfo, ReadClusterInfoFails, CallNilClient, ReadHitsFails,
         ProcessClustersDetail, SendResult, EndRequest, Goto, RespondOneOf, Respond

(***************************************************************************)
(* The loop over the recommendations of a namespace loses none of them.    *)
(***************************************************************************)
LEMMA StepFilled ==
  ASSUME Typed, OwnPlaces, Unset, SoFar, HitsWithin, Filled, Next
  PROVE  Filled'
<1> DEFINE ToFill == {h[2] : h \in pending}
<1> SUFFICES ASSUME view' = "namespace", pc' = "loop" \/ Sent'
             PROVE  /\ pc' = "loop" => HittingRules' = shown' \cup ToFill'
                    /\ Sent' => shown' = HittingRules'
  BY DEF Filled
<1>1. CASE ContentSwap
  <2>1. UNCHANGED <<view, pc, shown, pending, hits, writes>>
    BY <1>1 DEF ContentSwap
  <2>2. HittingRules' = HittingRules
    BY <2>1 DEF HittingRules
  <2>3. QED
    BY <2>1, <2>2 DEF Filled, Sent
<1>2. CASE Sent' /\ Sends
  <2>1. UNCHANGED view
    BY <1>2 DEF Sends, SendContent, ProcessClustersDetail, SendResult, ReadSeverities
  <2>2. SendResult
    BY <1>2, <2>1 DEF Sends, ProcessClustersDetail, SendContent, OwnPlaces, ContentViews
  <2>3. pc = "loop" /\ pending = {} /\ UNCHANGED <<shown, hits>> /\ pc' = "done"
    BY <2>2 DEF SendResult, Respond
  <2>4. HittingRules' = HittingRules
    BY <2>3 DEF HittingRules
  <2>5. QED
    BY <2>1, <2>3, <2>4 DEF Filled
<1>3. CASE pc' = "loop" /\ ReadSeverities
  <2>1. /\ pc = "severities" /\ view = "namespace" /\ UNCHANGED <<hits, shown>>
        /\ pending' = {h \in Clusters \X Rules : h[1] \in clusterInfo /\ h[2] \in hits[h[1]]}
    BY <1>3 DEF ReadSeverities, Respond
  <2>2. shown' = {}
    BY <2>1 DEF Unset
  <2>3. \A c \in Clusters : hits[c] \subseteq Rules /\ (hits[c] # {} => c \in clusterInfo)
    BY <2>1 DEF Typed, RulesPerCluster, Unset, HitsWithin, AsksAboutAll, Considered
  <2>4. ASSUME NEW c \in Clusters, NEW r \in hits[c]
        PROVE  r \in ToFill'
    <3>1. <<c, r>> \in pending'
      BY <2>1, <2>3
    <3>2. QED
      BY <3>1
  <2>5. ToFill' \subseteq HittingRules
    BY <2>1 DEF HittingRules
  <2>6. HittingRules' = HittingRules /\ HittingRules \subseteq ToFill'
    BY <2>1, <2>4 DEF HittingRules
  <2>7. QED
    BY <1>3, <2>2, <2>5, <2>6 DEF Sent
<1>4. CASE pc' = "loop" /\ FillInRecommendation
  <2>1. PICK h \in pending : pending' = pending \ {h} /\ shown' = shown \cup {h[2]}
    BY <1>4 DEF FillInRecommendation, Respond
  <2>2. pc = "loop" /\ view = "namespace" /\ UNCHANGED hits
    BY <1>4 DEF FillInRecommendation
  <2>3. HittingRules' = shown \cup ToFill
    BY <2>2 DEF Filled, HittingRules
  <2>4. shown \cup ToFill = shown' \cup ToFill'
    BY <2>1
  <2>5. QED
    BY <1>4, <2>3, <2>4 DEF Sent
<1>5. QED
  BY <1>1, <1>2, <1>3, <1>4, NamespaceLoop, SentBy

(***************************************************************************)
(* Internal rules go only to organisations with the permission; lists and  *)
(* namespaces are sent complete.                                           *)
(***************************************************************************)
THEOREM ContentComplete == Spec => []ContentSent
<1> DEFINE Inv == Allowed /\ ListRead /\ Filled
<1>1. Init => Inv
  BY DEF Init, Allowed, ListRead, Filled, ContentViews, Sent
<1>2. /\ ContentKnown /\ Typed /\ OwnPlaces /\ Unset /\ SoFar /\ OsdKnown /\ HitsWithin
      /\ Inv /\ [Next]_vars
      => Inv'
  <2>1. CASE Next
    BY <2>1, StepContentRead, StepFilled
  <2>2. CASE UNCHANGED vars
    BY <2>2 DEF Allowed, ListRead, Filled, StableRules, HittingRules, Sent
  <2>3. QED
    BY <2>1, <2>2
<1>3. Inv => ContentSent
  BY DEF Allowed, ListRead, Filled, ContentSent
<1>4. QED
  BY <1>1, <1>2, <1>3, Followed, Answered, Asked, PTL DEF Spec

-----------------------------------------------------------------------------
\* The two halves of CountedHitsExact: what is counted may be, and what must be
\* counted is.
CountedKnown ==
    \A h \in counted :
        /\ h[1] \in clusterInfo /\ h[2] \in Countable(h[1])
        /\ \E s \in published : h[2] \in s.has
        /\ view = "overview" /\ h[1] \in managed => h[2] \in EverManagedRules
AllCounted ==
    view \in {"overview", "overviewPost", "workloads", "namespace"} /\ Sent =>
        \A c \in clusterInfo : \A r \in Due(c) : <<c, r>> \in counted

LEMMA CountedHalves == CountedHitsExact <=> CountedKnown /\ AllCounted
BY DEF CountedHitsExact, CountedKnown, AllCounted, Countable, Due

(***************************************************************************)
(* Content that was there throughout is there now.                         *)
(***************************************************************************)
LEMMA StableNow ==
  ASSUME ContentKnown
  PROVE  /\ StableRules \subseteq storage.has /\ StableManagedRules \subseteq storage.osd
         /\ storage.osd \subseteq storage.has
         /\ \A r \in storage.osd : r \in EverManagedRules
<1>1. storage \in published /\ storage \in Storages
  BY DEF ContentKnown
<1>2. storage.osd \subseteq storage.has /\ storage.has \subseteq Rules
  BY <1>1 DEF Storages
<1>3. QED
  BY <1>1, <1>2 DEF StableRules, StableManagedRules, EverManagedRules

(***************************************************************************)
(* An update of the content changes nothing about what may be counted, and *)
(* makes less that must be.                                                *)
(***************************************************************************)
LEMMA LessDue ==
  ASSUME UNCHANGED <<view, hits, acked, disabled, managed>>, published \subseteq published', NEW c
  PROVE  Countable(c)' = Countable(c) /\ Due(c)' \subseteq Due(c)
<1>1. Countable(c)' = Countable(c)
  BY DEF Countable
<1>2. StableRules' \subseteq StableRules /\ StableManagedRules' \subseteq StableManagedRules
  BY MoreContent
<1>3. QED
  BY <1>1, <1>2 DEF Due

(***************************************************************************)
(* The severities are read from content of the request.                    *)
(***************************************************************************)
LEMMA StepSeverities ==
  ASSUME ContentKnown, Typed, OwnPlaces, Unset, SeveritiesRead, Next
  PROVE  SeveritiesRead'
<1>1. \A r \in severities' : r \notin InternalRules /\ \E s \in published' : r \in s.has
  <2>1. CASE severities' = {}
    BY <2>1
  <2>2. CASE UNCHANGED severities /\ published \subseteq published'
    BY <2>2 DEF SeveritiesRead
  <2>3. CASE ReadSeverities
    BY <2>2, <2>3 DEF ReadSeverities, ContentKnown
  <2>4. CASE Begin \/ EndRequest
    BY <2>1, <2>4 DEF Begin, EndRequest, Unset
  <2>5. QED
    BY <2>2, <2>3, <2>4, StepContent
       DEF Next, ContentSwap, ReadParams, ReadRuleContent, ReadAllContent, GetGroups, ReadRating,
           SendContent, ReadClusterInfo, ReadClusterInfoFails, CallNilClient, ReadHits, ReadHitsFails,
           ReadReports, ReadAcks, ReadAcksFails, ReadDisabled, ReadDisabledFails,
           ProcessClustersDetail, CountHit, CountReportHit, Lookup, FillInRecommendation, SendResult
<1>2. ASSUME pc' = "loop", view' = "namespace"
      PROVE  StableRules' \ InternalRules \subseteq severities'
  <2>1. CASE ContentSwap \/ FillInRecommendation
    <3>1. UNCHANGED <<view, severities>> /\ pc = "loop" /\ published \subseteq published'
      BY <1>2, <2>1 DEF ContentSwap, FillInRecommendation
    <3>2. QED
      BY <1>2, <3>1, MoreContent DEF SeveritiesRead
  <2>2. CASE ReadSeverities
    <3>1. UNCHANGED published /\ severities' = storage.has \ InternalRules
      BY <1>2, <2>2 DEF ReadSeverities, Respond
    <3>2. StableRules' = StableRules
      BY <3>1 DEF StableRules
    <3>3. QED
      BY <3>1, <3>2, StableNow
  <2>3. QED
    BY <1>2, <2>1, <2>2, NamespaceLoop
<1>3. QED
  BY <1>1, <1>2 DEF SeveritiesRead

(***************************************************************************)
(* One turn of a loop: the hit that is looked at is counted if it must be, *)
(* and only if it may be.                                                  *)
(***************************************************************************)
Turn(h) ==
    /\ pending' = pending \ {h}
    /\ UNCHANGED <<contentVars, view, clusterInfo, managed, userData>>
    /\ \/ counted' = counted /\ (pc' = "loop" => h[2] \notin Due(h[1]))
       \/ /\ counted' = counted \cup {h}
          /\ h[1] \in clusterInfo /\ h[2] \in Countable(h[1])
          /\ \E s \in published : h[2] \in s.has
          /\ view = "overview" /\ h[1] \in managed => h[2] \in EverManagedRules

LEMMA OneTurn ==
  ASSUME ContentKnown, Typed, OwnPlaces, SeveritiesRead, ToCount,
         CountHit \/ CountReportHit \/ FillInRecommendation
  PROVE  pc = "loop" /\ \E h \in pending : Turn(h)
<1>1. pc = "loop"
  BY DEF CountHit, CountReportHit, FillInRecommendation
<1>2. \A h \in pending : h[1] \in clusterInfo /\ h[2] \in hits[h[1]] \ (acked \cup disabled[h[1]])
  BY <1>1 DEF ToCount
<1>3. storage \in published
  BY DEF ContentKnown
<1>4. CASE CountHit
  <2>1. view = "overview" /\ UNCHANGED <<contentVars, view, clusterInfo, managed, userData>>
    BY <1>4 DEF CountHit, Lookup
  <2>2. PICK h \in pending : Lookup(h, IF h[1] \in managed THEN storage.osd ELSE storage.has)
    BY <1>4 DEF CountHit
  <2> DEFINE counts == IF h[1] \in managed THEN storage.osd ELSE storage.has
  <2>3. /\ pending' = pending \ {h}
        /\ \/ pc' = "done" /\ counted' = counted
           \/ counted' = IF h[2] \in counts THEN counted \cup {h} ELSE counted
    BY <2>2 DEF Lookup, Respond
  <2>4. h[1] \in clusterInfo /\ h[2] \in Countable(h[1])
    BY <1>2, <2>1 DEF Countable
  <2>5. h[2] \in Due(h[1]) => h[2] \in counts
    BY <2>1, StableNow DEF Due
  <2>6. h[2] \in counts => h[2] \in storage.has /\ (h[1] \in managed => h[2] \in EverManagedRules)
    BY StableNow
  <2> HIDE DEF counts
  <2>7. Turn(h)
    BY <1>3, <2>1, <2>3, <2>4, <2>5, <2>6 DEF Turn
  <2>8. QED
    BY <1>1, <2>7
<1>5. CASE CountReportHit
  <2>1. view = "overviewPost" /\ UNCHANGED <<contentVars, view, clusterInfo, managed, userData>>
    BY <1>5 DEF CountReportHit, Lookup
  <2>2. PICK h \in pending : Lookup(h, storage.has)
    BY <1>5 DEF CountReportHit
  <2>3. /\ pending' = pending \ {h}
        /\ \/ pc' = "done" /\ counted' = counted
           \/ counted' = IF h[2] \in storage.has THEN counted \cup {h} ELSE counted
    BY <2>2 DEF Lookup, Respond
  <2>4. h[1] \in clusterInfo /\ h[2] \in Countable(h[1])
    BY <1>2, <2>1 DEF Countable
  <2>5. h[2] \in Due(h[1]) => h[2] \in storage.has
    BY <2>1, StableNow DEF Due
  <2>6. Turn(h)
    BY <1>3, <2>1, <2>3, <2>4, <2>5 DEF Turn
  <2>7. QED
    BY <1>1, <2>6
<1>6. CASE FillInRecommendation
  <2>1. view = "namespace" /\ UNCHANGED <<contentVars, view, clusterInfo, managed, userData>>
    BY <1>6 DEF FillInRecommendation
  <2>2. PICK h \in pending :
          /\ pending' = pending \ {h}
          /\ counted' = IF h[2] \in severities THEN counted \cup {h} ELSE counted
    BY <1>6 DEF FillInRecommendation
  <2>3. h[2] \in severities => h[2] \notin InternalRules /\ \E s \in published : h[2] \in s.has
    BY DEF SeveritiesRead
  <2>4. h[1] \in clusterInfo /\ (h[2] \notin InternalRules => h[2] \in Countable(h[1]))
    BY <1>2, <2>1 DEF Countable
  <2>5. h[2] \in Due(h[1]) => h[2] \in severities
    BY <1>1, <2>1 DEF Due, Countable, SeveritiesRead
  <2>6. Turn(h)
    BY <2>1, <2>2, <2>3, <2>4, <2>5 DEF Turn
  <2>7. QED
    BY <1>1, <2>6
<1>7. QED
  BY <1>4, <1>5, <1>6

(***************************************************************************)
(* Each way into a loop starts it with all enabled hits, unless an error   *)
(* has been written; a turn of it loses none.                              *)
(***************************************************************************)
LEMMA StepToCount ==
  ASSUME ContentKnown, Typed, OwnPlaces, Unset, SeveritiesRead, ToCount, Next, Typed'
  PROVE  ToCount'
<1> DEFINE Within == \A h \in pending : h[1] \in clusterInfo
                        /\ h[2] \in hits[h[1]] \ (acked \cup disabled[h[1]])
           All == \A c \in clusterInfo : \A r \in Due(c) : <<c, r>> \in counted \cup pending
<1> SUFFICES ASSUME pc' = "loop"
             PROVE  Within' /\ (writes' = <<>> => All')
  BY DEF ToCount
<1>w. \A status \in Errors : Write(status) => writes' # <<>>
  BY Wrote DEF Write, Typed, Codes, Errors
<1>e. ASSUME pending' = EnabledHits(acked)'
      PROVE  Within' /\ All'
  <2>1. Within'
    BY <1>e DEF EnabledHits
  <2>2. ASSUME NEW c \in clusterInfo', NEW r \in Countable(c)'
        PROVE  <<c, r>> \in EnabledHits(acked)'
    <3>1. c \in Clusters /\ hits'[c] \subseteq Rules
      BY DEF Typed, RulesPerCluster
    <3>2. r \in hits'[c] /\ r \notin acked' /\ r \notin disabled'[c]
      BY DEF Countable
    <3>3. QED
      BY <3>1, <3>2 DEF EnabledHits
  <2>3. QED
    BY <1>e, <2>1, <2>2 DEF Due
<1>1. CASE ContentSwap
  <2>1. UNCHANGED <<view, hits, acked, disabled, managed, clusterInfo, counted, pending, writes>>
        /\ pc = "loop" /\ published \subseteq published'
    BY <1>1 DEF ContentSwap
  <2>2. \A c : Due(c)' \subseteq Due(c)
    BY <2>1, LessDue
  <2>3. QED
    BY <2>1, <2>2 DEF ToCount
<1>2. CASE ReadClusterInfoFails \/ ReadHitsFails
  <2>1. pending' = {}
    BY <1>2 DEF ReadClusterInfoFails, ReadHitsFails, Unset
  <2>2. \E status \in Errors : Write(status)
    BY <1>2 DEF ReadClusterInfoFails, ReadHitsFails, Goto, RespondOneOf, Respond, Errors
  <2>3. QED
    BY <1>w, <2>1, <2>2
<1>3. CASE ReadAcks
  <2>1. UNCHANGED view /\ view \in {"detail", "overview", "overviewPost", "ruleUser"} /\ pc' = AfterAcks
    BY <1>3 DEF ReadAcks, Goto, OwnPlaces
  <2>2. view = "overviewPost"
    BY <2>1, NextPlaces
  <2>3. pending' = EnabledHits(acked') /\ UNCHANGED <<hits, disabled, clusterInfo>>
    BY <1>3, <2>2 DEF ReadAcks
  <2>4. QED
    BY <1>e, <2>3 DEF EnabledHits
<1>4. CASE ReadAcksFails
  <2>1. pending' = EnabledHits({}) /\ acked = {} /\ UNCHANGED <<hits, disabled, clusterInfo, acked>>
    BY <1>4 DEF ReadAcksFails, Goto, RespondOneOf, Respond, Unset
  <2>2. QED
    BY <1>e, <2>1 DEF EnabledHits
<1>5. CASE ReadDisabled
  <2>1. pending' = {h \in EnabledHits(acked) : h[2] \notin disabled'[h[1]]} /\ disabled = NoRules
        /\ UNCHANGED <<hits, clusterInfo, acked>>
    BY <1>5 DEF ReadDisabled, Goto, Unset
  <2>2. \A h \in Clusters \X Rules : disabled[h[1]] = {}
    BY <2>1 DEF NoRules
  <2>3. pending' = EnabledHits(acked)'
    BY <2>1, <2>2 DEF EnabledHits
  <2>4. QED
    BY <1>e, <2>3
<1>6. CASE ReadDisabledFails
  <2>1. pending' = EnabledHits(acked) /\ UNCHANGED <<hits, disabled, clusterInfo, acked>>
    BY <1>6 DEF ReadDisabledFails, RespondOneOf, Respond
  <2>2. QED
    BY <1>e, <2>1 DEF EnabledHits
<1>7. CASE ReadSeverities
  <2>1. /\ pc = "severities" /\ UNCHANGED <<hits, disabled, clusterInfo, acked>>
        /\ pending' = {h \in Clusters \X Rules : h[1] \in clusterInfo /\ h[2] \in hits[h[1]]}
    BY <1>7 DEF ReadSeverities, Respond
  <2>2. acked = {} /\ \A h \in Clusters \X Rules : disabled[h[1]] = {}
    BY <2>1 DEF Unset, NoRules
  <2>3. pending' = EnabledHits(acked)'
    BY <2>1, <2>2 DEF EnabledHits
  <2>4. QED
    BY <1>e, <2>3
<1>8. CASE CountHit \/ CountReportHit \/ FillInRecommendation
  <2>1. PICK h \in pending : Turn(h)
    BY <1>8, OneTurn
  <2>2. pc = "loop" /\ writes' = writes
    BY <1>8 DEF CountHit, CountReportHit, FillInRecommendation, Lookup, Respond, Goto
  <2>3. Within'
    BY <2>1, <2>2 DEF ToCount, Turn
  <2>4. \A c : Due(c)' \subseteq Due(c)
    BY <2>1, LessDue DEF Turn
  <2>5. ASSUME writes = <<>>, NEW c \in clusterInfo, NEW r \in Due(c)
        PROVE  <<c, r>> \in counted' \cup pending'
    <3>1. <<c, r>> \in counted \cup pending
      BY <2>2, <2>5 DEF ToCount
    <3>2. h = <<c, r>> => h \in counted'
      BY <2>1 DEF Turn
    <3>3. QED
      BY <2>1, <3>1, <3>2 DEF Turn
  <2>6. UNCHANGED clusterInfo
    BY <2>1 DEF Turn
  <2>7. QED
    BY <2>2, <2>3, <2>4, <2>5, <2>6
<1>9. CASE ReadHits \/ ReadReports
  BY <1>9, NextPlaces DEF ReadHits, ReadReports, Goto, RespondOneOf, Respond, OwnPlaces
<1>10. QED
  BY <1>1, <1>2, <1>3, <1>4, <1>5, <1>6, <1>7, <1>8, <1>9
     DEF Next, Begin, ReadParams, ReadRuleContent, ReadAllContent, GetGroups, ReadRating,
         SendContent, ReadClusterInfo, CallNilClient, ProcessClustersDetail, SendResult, EndRequest,
         Goto, RespondOneOf, Respond

(***************************************************************************)
(* What is counted stays what may be counted.                              *)
(***************************************************************************)
LEMMA StepCounted ==
  ASSUME ContentKnown, Typed, OwnPlaces, Unset, SeveritiesRead, ToCount, CountedKnown, Next
  PROVE  CountedKnown'
<1>1. CASE counted' = {}
  BY <1>1 DEF CountedKnown
<1>2. CASE /\ UNCHANGED <<view, hits, acked, disabled, managed, clusterInfo, counted>>
           /\ published \subseteq published'
  <2>1. \A c : Countable(c)' = Countable(c)
    BY <1>2, LessDue
  <2>2. EverManagedRules \subseteq EverManagedRules'
    BY <1>2, MoreContent
  <2>3. QED
    BY <1>2, <2>1, <2>2 DEF CountedKnown
<1>3. CASE CountHit \/ CountReportHit \/ FillInRecommendation
  <2>1. PICK h \in pending : Turn(h)
    BY <1>3, OneTurn
  <2>2. UNCHANGED <<view, hits, acked, disabled, managed, clusterInfo, published>>
    BY <2>1 DEF Turn
  <2>3. \A c : Countable(c)' = Countable(c)
    BY <2>2, LessDue
  <2>4. EverManagedRules' = EverManagedRules
    BY <2>2 DEF EverManagedRules
  <2>5. \A g \in counted' :
          /\ g[1] \in clusterInfo /\ g[2] \in Countable(g[1])
          /\ \E s \in published : g[2] \in s.has
          /\ view = "overview" /\ g[1] \in managed => g[2] \in EverManagedRules
    BY <2>1 DEF Turn, CountedKnown
  <2>6. QED
    BY <2>2, <2>3, <2>4, <2>5 DEF CountedKnown
<1>4. CASE ReadSeverities
  <2>1. CASE UNCHANGED counted
    BY <1>2, <1>4, <2>1 DEF ReadSeverities
  <2>2. CASE ~UNCHANGED counted
    <3>1. /\ pc = "severities" /\ view = "workloads"
          /\ counted' = {h \in Clusters \X Rules : /\ h[1] \in clusterInfo /\ h[2] \in hits[h[1]]
                                                   /\ h[2] \in storage.has \ InternalRules}
          /\ UNCHANGED <<view, hits, acked, disabled, managed, clusterInfo, published>>
      BY <1>4, <2>2 DEF ReadSeverities
    <3>2. acked = {} /\ \A h \in Clusters \X Rules : disabled[h[1]] = {}
      BY <3>1 DEF Unset, NoRules
    <3>3. \A c : Countable(c)' = Countable(c)
      BY <3>1, LessDue
    <3>4. \A h \in counted' : h[2] \in Countable(h[1])
      BY <3>1, <3>2 DEF Countable
    <3>5. storage \in published
      BY DEF ContentKnown
    <3>6. QED
      BY <3>1, <3>3, <3>4, <3>5 DEF CountedKnown
  <2>3. QED
    BY <2>1, <2>2
<1>5. CASE pc \notin {"loop", "done"} /\ UNCHANGED counted
  BY <1>1, <1>5 DEF Unset
<1>6. CASE ContentSwap \/ SendResult
  BY <1>2, <1>6 DEF ContentSwap, SendResult
<1>7. CASE EndRequest
  BY <1>1, <1>7 DEF EndRequest
<1>8. QED
  BY <1>3, <1>4, <1>5, <1>6, <1>7
     DEF Next, Begin, ReadParams, ReadRuleContent, ReadAllContent, GetGroups, ReadRating,
         SendContent, ReadClusterInfo, ReadClusterInfoFails, CallNilClient, ReadHits, ReadHitsFails,
         ReadReports, ReadAcks, ReadAcksFails, ReadDisabled, ReadDisabledFails, ProcessClustersDetail

(***************************************************************************)
(* When a result is sent, nothing that must be counted is left out.        *)
(***************************************************************************)
LEMMA StepAllCounted ==
  ASSUME ContentKnown, Typed, OwnPlaces, Unset, SoFar, ToCount, AllCounted, Next
  PROVE  AllCounted'
<1> SUFFICES ASSUME view' \in {"overview", "overviewPost", "workloads", "namespace"}, Sent'
             PROVE  \A c \in clusterInfo' : \A r \in Due(c)' : <<c, r>> \in counted'
  BY DEF AllCounted
<1>1. CASE ContentSwap /\ Sent
  <2>1. UNCHANGED <<view, hits, acked, disabled, managed, clusterInfo, counted>>
        /\ published \subseteq published'
    BY <1>1 DEF ContentSwap
  <2>2. \A c : Due(c)' \subseteq Due(c)
    BY <2>1, LessDue
  <2>3. QED
    BY <1>1, <2>1, <2>2 DEF AllCounted
<1>2. CASE Sends /\ Respond(200) /\ writes = <<>>
  <2>1. UNCHANGED <<view, hits, acked, disabled, managed, clusterInfo, published>>
    BY <1>2 DEF Sends, SendContent, ProcessClustersDetail, SendResult, ReadSeverities
  <2>2. \A c : Due(c)' \subseteq Due(c)
    BY <2>1, LessDue
  <2>3. SendResult \/ (ReadSeverities /\ view = "workloads")
    BY <1>2, <2>1 DEF Sends, SendContent, ProcessClustersDetail, OwnPlaces, ContentViews
  <2>4. CASE SendResult
    <3>1. pc = "loop" /\ pending = {} /\ UNCHANGED counted
      BY <2>4 DEF SendResult
    <3>2. QED
      BY <1>2, <2>1, <2>2, <3>1 DEF ToCount
  <2>5. CASE ReadSeverities /\ view = "workloads"
    <3>1. ready
      <4>1. writes' = <<200>>
        BY DEF Sent
      <4>2. ~Write(503)
        BY <4>1, Wrote DEF Write, Typed, Codes
      <4>3. QED
        BY <2>5, <4>2 DEF ReadSeverities, Respond
    <3>2. counted' = {h \in Clusters \X Rules : /\ h[1] \in clusterInfo /\ h[2] \in hits[h[1]]
                                                /\ h[2] \in storage.has \ InternalRules}
      BY <2>5, <3>1 DEF ReadSeverities
    <3>3. ASSUME NEW c \in clusterInfo, NEW r \in Due(c)
          PROVE  <<c, r>> \in counted'
      <4>1. c \in Clusters /\ hits[c] \subseteq Rules
        BY DEF Typed, RulesPerCluster
      <4>2. r \in hits[c] /\ r \notin InternalRules /\ r \in StableRules
        BY <2>5 DEF Due, Countable
      <4>3. QED
        BY <3>2, <4>1, <4>2, StableNow
    <3>4. QED
      BY <2>1, <2>2, <3>3
  <2>6. QED
    BY <2>3, <2>4, <2>5
<1>3. QED
  BY <1>1, <1>2, SentBy

(***************************************************************************)
(* The overviews and the workloads count what they should, in whatever     *)
(* order the hits are looked up and whatever becomes of the content.       *)
(***************************************************************************)
THEOREM CountsExact == Spec => []CountedHitsExact
<1> DEFINE Inv == SeveritiesRead /\ ToCount /\ CountedKnown /\ AllCounted
<1>1. Init => Inv
  BY DEF Init, SeveritiesRead, ToCount, CountedKnown, AllCounted, Sent
<1>2. ContentKnown /\ Typed /\ OwnPlaces /\ Unset /\ SoFar /\ Inv /\ [Next]_vars /\ Typed' => Inv'
  <2>1. CASE Next
    BY <2>1, StepSeverities, StepToCount, StepCounted, StepAllCounted
  <2>2. CASE UNCHANGED vars
    <3>1. StableRules' = StableRules
      BY <2>2 DEF StableRules
    <3>2. \A c : Countable(c)' = Countable(c) /\ Due(c)' \subseteq Due(c)
      BY <2>2, LessDue
    <3>3. EverManagedRules' = EverManagedRules
      BY <2>2 DEF EverManagedRules
    <3>4. QED
      BY <2>2, <3>1, <3>2, <3>3 DEF SeveritiesRead, ToCount, CountedKnown, AllCounted, Sent
  <2>3. QED
    BY <2>1, <2>2
<1>3. Inv => CountedHitsExact
  BY CountedHalves
<1>4. QED
  BY <1>1, <1>2, <1>3, Followed, Answered, PTL DEF Spec
==============================================================================
