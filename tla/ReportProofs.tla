---------------------------- MODULE ReportProofs ----------------------------
(***************************************************************************)
(* Theorems about Report, for every set of rules and any number of content *)
(* updates during a request.                                               *)
(*                                                                         *)
(* The response of a request is put together in many steps, so the         *)
(* invariants follow it from place to place: Places says which endpoint    *)
(* and which locals each place stands for, Responses what may have been    *)
(* written there, and Counting relates the counters of                     *)
(* filterRulesInResponse to the sets of rules they count.                  *)
(***************************************************************************)
EXTENDS Report, FiniteSetTheorems, SequenceTheorems, TLAPS

USE DEF vars, contentVars, request, params, filterVars

Early == {"idle", "orgID", "cluster", "identity", "aggregator", "managed", "params", "acks"}
PlaceNames == Early \cup {"filter", "lookup", "send", "done"}

\* The types that the arguments need, with a report that names each rule once.
\* Until the content has been loaded it is empty.
Typed ==
    /\ pc \in PlaceNames
    /\ endpoint \in Endpoints
    /\ token \in BOOLEAN
    /\ report \in Seq(Rules)
    /\ \A i, j \in 1..Len(report) : report[i] = report[j] => i = j
    /\ okRules \in Seq(Rules)
    /\ next \in 1..(Len(report) + 1)
    /\ noContentRulesCnt \in Nat
    /\ disabledRulesCnt \in Nat
    /\ count \in Nat
    /\ writes \in Seq(Nat)
    /\ storage \in published
    /\ ~ready => storage = EmptyStorage

\* Before the loop of filterRulesInResponse nothing has been looked up, and each
\* endpoint has places of its own.
Places ==
    /\ pc \in Early => /\ next = 1 /\ okRules = <<>>
                       /\ noContentRulesCnt = 0 /\ disabledRulesCnt = 0
    /\ pc = "lookup" => endpoint = "rule"
    /\ pc \in {"managed", "lookup"} /\ endpoint = "rule" => Len(report) = 1
    /\ pc = "managed" => endpoint # "metainfo"
    /\ pc \in {"params", "acks", "filter"} => ReportEndpoint
    /\ pc = "send" => endpoint = "metainfo"

\* What has been written at each place.  Without an identity, the handlers that
\* carry on have written the refusal, and none gets past their own check.
Responses ==
    /\ token => Len(writes) <= 1 /\ (pc # "done" => writes = <<>>)
    /\ pc \in {"idle", "orgID", "cluster", "identity"} => writes = <<>>
    /\ pc = "done" => writes # <<>> \/ (token /\ acksFailed)
    /\ ~token =>
          /\ okRules = <<>>
          /\ writes # <<>> => writes[1] \in {400, 403}
          /\ pc \notin {"aggregator", "acks", "filter", "lookup"}
          /\ pc \in {"managed", "params", "send"} => writes # <<>>
          /\ pc = "managed" => endpoint # "rule"

\* The rules that may be in the count.
Countable == Shown \cup WithoutContent

\* Each rule in the list or without content is counted at most once, a shown one is
\* counted, and disabledRulesCnt tells that a rule was hidden.
Counting ==
    ReportEndpoint =>
        /\ Len(okRules) + noContentRulesCnt <= Cardinality(Countable)
        /\ Cardinality(Shown) <= Len(okRules)
        /\ (\A r \in Processed : ~Hidden(r)) => disabledRulesCnt = 0
        /\ writes = <<200>> =>
              /\ count <= Cardinality(Countable) /\ count >= Cardinality(Shown)
              /\ Shown = {} /\ (\A r \in Processed : ~Hidden(r)) => count = 0

-----------------------------------------------------------------------------
(***************************************************************************)
(* A report of the aggregator is a sequence that names each rule once.     *)
(***************************************************************************)
LEMMA ReportTyped ==
  ASSUME NEW s \in Reports
  PROVE  s \in Seq(Rules) /\ \A i, j \in 1..Len(s) : s[i] = s[j] => i = j
<1>1. PICK n \in 0..Cardinality(Rules) :
        s \in [1..n -> Rules] /\ \A i, j \in 1..n : s[i] = s[j] => i = j
  BY DEF Reports
<1>2. n \in Nat
  BY RulesAssumption, FS_CardinalityType
<1>3. s \in Seq(Rules) /\ Len(s) = n
  BY <1>1, <1>2, SeqDef
<1>4. QED
  BY <1>1, <1>3

(***************************************************************************)
(* Every step preserves the types.                                         *)
(***************************************************************************)
LEMMA StepTyped ==
  ASSUME Typed, Places, Next
  PROVE  Typed'
<1> DEFINE Injective(s) == \A i, j \in 1..Len(s) : s[i] = s[j] => i = j
<1>1. ASSUME UNCHANGED <<endpoint, token, report, okRules, next, noContentRulesCnt,
                         disabledRulesCnt, count, contentVars>>,
             pc' \in PlaceNames, writes' \in Seq(Nat)
      PROVE  Typed'
  BY <1>1 DEF Typed
<1>2. ASSUME NEW status \in Nat, Respond(status)
      PROVE  pc' \in PlaceNames /\ writes' \in Seq(Nat)
  BY <1>2 DEF Respond, PlaceNames, Typed
<1>3. Early \subseteq PlaceNames /\ {"filter", "lookup", "send", "done"} \subseteq PlaceNames
  BY DEF PlaceNames
<1>4. /\ pc \in PlaceNames /\ writes \in Seq(Nat)
      /\ {"idle", "orgID", "cluster", "identity", "aggregator", "managed", "params", "acks"}
            \subseteq PlaceNames
  BY DEF Typed, PlaceNames, Early
<1>5. CASE ContentSwap
  BY <1>5 DEF ContentSwap, Typed
<1>6. CASE Begin
  BY <1>6, <1>4 DEF Begin, Typed
<1>7. CASE CheckOrgID \/ ReadPathParams \/ AggregatorFails
  BY <1>7, <1>1, <1>2, <1>4 DEF CheckOrgID, ReadPathParams, AggregatorFails
<1>8. CASE CheckIdentity
  <2>1. Append(writes, 403) \in Seq(Nat)
    BY <1>4
  <2>2. QED
    BY <1>8, <1>1, <1>3, <1>4, <2>1 DEF CheckIdentity
<1>9. CASE AggregatorAnswers
  <2>1. report' \in Seq(Rules) /\ Injective(report')
    <3>1. CASE report' = report
      BY <3>1 DEF Typed
    <3>2. CASE \E r \in Rules : report' = <<r>>
      BY <3>2
    <3>3. CASE report' \in Reports
      BY <3>3, ReportTyped
    <3>4. QED
      BY <1>9, <3>1, <3>2, <3>3 DEF AggregatorAnswers
  <2>2. next = 1
    BY <1>9 DEF AggregatorAnswers, Places, Early
  <2>3. next' \in 1..(Len(report') + 1)
    BY <1>9, <2>1, <2>2 DEF AggregatorAnswers
  <2>4. pc' \in PlaceNames
    BY <1>9, <1>3, <1>4 DEF AggregatorAnswers
  <2>5. QED
    BY <1>9, <2>1, <2>3, <2>4 DEF AggregatorAnswers, Typed
<1>10. CASE FindManaged \/ ReadReportParams
  BY <1>10, <1>1, <1>2, <1>3, <1>4 DEF FindManaged, ReadReportParams
<1>11. CASE ReadAcks \/ ReadAcksFails \/ SendMetainfo
  BY <1>11, <1>1, <1>2, <1>3, <1>4 DEF ReadAcks, ReadAcksFails, SendMetainfo
<1>12. CASE FilterRule
  <2>1. report[next] \in Rules
    BY <1>12 DEF FilterRule, Typed
  <2>2. okRules' \in Seq(Rules)
    BY <1>12, <2>1 DEF FilterRule, Typed
  <2>3. noContentRulesCnt' \in Nat /\ disabledRulesCnt' \in Nat
    BY <1>12 DEF FilterRule, Typed
  <2>4. next' \in 1..(Len(report') + 1)
    BY <1>12 DEF FilterRule, Typed
  <2>5. pc' \in PlaceNames /\ writes' \in Seq(Nat)
    BY <1>12, <1>2, <1>4 DEF FilterRule
  <2>6. QED
    BY <1>12, <2>2, <2>3, <2>4, <2>5 DEF FilterRule, Typed
<1>13. CASE SendReport
  <2>1. count' \in Nat
    BY <1>13 DEF SendReport, GetRuleCount, Typed
  <2>2. pc' \in PlaceNames /\ writes' \in Seq(Nat)
    BY <1>13, <1>2 DEF SendReport
  <2>3. QED
    BY <1>13, <2>1, <2>2 DEF SendReport, Typed
<1>14. CASE SendRule
  <2>1. report[1] \in Rules
    <3>1. report \in Seq(Rules) /\ Len(report) = 1
      BY <1>14 DEF SendRule, Typed, Places
    <3>2. QED
      BY <3>1
  <2>2. okRules' \in Seq(Rules)
    <3>1. <<report[1]>> \in Seq(Rules) /\ okRules \in Seq(Rules)
      BY <2>1 DEF Typed
    <3>2. okRules' = <<report[1]>> \/ okRules' = okRules
      BY <1>14 DEF SendRule
    <3>3. QED
      BY <3>1, <3>2
  <2>3. pc' \in PlaceNames /\ writes' \in Seq(Nat)
    BY <1>14, <1>2 DEF SendRule
  <2>4. QED
    BY <1>14, <2>2, <2>3 DEF SendRule, Typed
<1>15. CASE EndRequest
  BY <1>15, <1>4 DEF EndRequest, Typed
<1>16. QED
  BY <1>5, <1>6, <1>7, <1>8, <1>9, <1>10, <1>11, <1>12, <1>13, <1>14, <1>15 DEF Next

(***************************************************************************)
(* Every step takes a request to a place of its endpoint, and none fills   *)
(* in the locals of filterRulesInResponse before the loop.                 *)
(***************************************************************************)
LEMMA StepPlaces ==
  ASSUME Typed, Places, Next
  PROVE  Places'
<1> USE DEF Places, Early, ReportEndpoint, Respond
<1>1. CASE ContentSwap
  BY <1>1 DEF ContentSwap
<1>2. CASE Begin
  BY <1>2 DEF Begin
<1>3. CASE CheckOrgID \/ ReadPathParams \/ AggregatorFails
  BY <1>3 DEF CheckOrgID, ReadPathParams, AggregatorFails
<1>4. CASE CheckIdentity
  BY <1>4 DEF CheckIdentity, Typed, Endpoints
<1>5. CASE AggregatorAnswers
  BY <1>5 DEF AggregatorAnswers
<1>6. CASE FindManaged
  BY <1>6 DEF FindManaged, Typed, Endpoints
<1>7. CASE ReadReportParams \/ ReadAcks \/ ReadAcksFails
  BY <1>7 DEF ReadReportParams, ReadAcks, ReadAcksFails
<1>8. CASE FilterRule \/ SendReport
  BY <1>8 DEF FilterRule, SendReport
<1>9. CASE SendRule \/ SendMetainfo
  BY <1>9 DEF SendRule, SendMetainfo
<1>10. CASE EndRequest
  BY <1>10 DEF EndRequest
<1>11. QED
  BY <1>1, <1>2, <1>3, <1>4, <1>5, <1>6, <1>7, <1>8, <1>9, <1>10 DEF Next

(***************************************************************************)
(* Every step writes what its place allows: with an identity only the last *)
(* one writes, without one the first write is a refusal.                   *)
(***************************************************************************)
LEMMA StepResponses ==
  ASSUME Typed, Places, Responses, Next
  PROVE  Responses'
<1> USE DEF Responses
<1>1. ASSUME NEW status \in Nat
      PROVE  LET w == Append(writes, status) IN
             /\ w # <<>>
             /\ writes = <<>> => Len(w) = 1 /\ w[1] = status
             /\ writes # <<>> => w[1] = writes[1]
  <2> DEFINE w == Append(writes, status)
  <2>1. writes \in Seq(Nat)
    BY DEF Typed
  <2>2. w \in Seq(Nat) /\ Len(w) = Len(writes) + 1 /\ w[Len(writes) + 1] = status
        /\ \A i \in 1..Len(writes) : w[i] = writes[i]
    BY <2>1
  <2>3. Len(writes) \in Nat /\ (writes = <<>> <=> Len(writes) = 0)
    BY <2>1
  <2>4. w # <<>> /\ (writes = <<>> => Len(w) = 1 /\ w[1] = status)
    BY <2>2, <2>3
  <2>5. writes # <<>> => 1 \in 1..Len(writes)
    BY <2>3
  <2>6. QED
    BY <2>2, <2>4, <2>5
<1>2. ASSUME NEW status \in Nat, Respond(status), pc # "done", UNCHANGED <<token, okRules>>,
             ~token => writes # <<>> \/ status \in {400, 403}
      PROVE  Responses'
  <2>1. /\ writes' # <<>> /\ pc' = "done" /\ UNCHANGED <<token, okRules>>
        /\ writes = <<>> => Len(writes') = 1 /\ writes'[1] = status
        /\ writes # <<>> => writes'[1] = writes[1]
    BY <1>1, <1>2 DEF Respond
  <2>2. token => writes = <<>>
    BY <1>2
  <2>3. ~token => writes'[1] \in {400, 403} /\ okRules' = <<>>
    BY <1>2, <2>1
  <2>4. token' => Len(writes') <= 1
    <3>1. 1 <= 1
      OBVIOUS
    <3>2. QED
      BY <2>1, <2>2, <3>1
  <2>5. QED
    BY <2>1, <2>3, <2>4
<1>3. ASSUME UNCHANGED <<token, okRules, writes>>, pc # "done",
             pc' \notin {"idle", "orgID", "cluster", "identity", "done"},
             ~token => pc \in {"managed", "params", "send"},
             ~token => pc' \notin {"aggregator", "acks", "filter", "lookup", "managed"}
      PROVE  Responses'
  BY <1>3
<1>4. CASE ContentSwap
  BY <1>4 DEF ContentSwap
<1>5. CASE Begin
  BY <1>5 DEF Begin, Places, Early
<1>6. CASE CheckOrgID
  <2>1. CASE token
    BY <1>6, <2>1 DEF CheckOrgID
  <2>2. CASE ~token
    BY <1>6, <1>2, <2>2 DEF CheckOrgID
  <2>3. QED
    BY <2>1, <2>2
<1>7. CASE ReadPathParams
  <2>1. CASE Respond(400)
    BY <1>7, <1>2, <2>1 DEF ReadPathParams
  <2>2. CASE pc' = "identity" /\ UNCHANGED writes
    BY <1>7, <2>2 DEF ReadPathParams
  <2>3. QED
    BY <1>7, <2>1, <2>2 DEF ReadPathParams
<1>8. CASE CheckIdentity
  <2>1. CASE token
    BY <1>8, <1>3, <2>1 DEF CheckIdentity
  <2>2. CASE ~token
    BY <1>8, <1>1, <2>2 DEF CheckIdentity, Typed
  <2>3. QED
    BY <2>1, <2>2
<1>9. CASE AggregatorFails
  BY <1>9, <1>2 DEF AggregatorFails
<1>10. CASE AggregatorAnswers
  BY <1>10, <1>3 DEF AggregatorAnswers
<1>11. CASE FindManaged
  <2>1. CASE UNCHANGED writes /\ pc' = IF endpoint = "rule" THEN "lookup" ELSE "params"
    <3>1. ~token => endpoint # "rule"
      BY <1>11 DEF FindManaged
    <3>2. QED
      BY <1>11, <1>3, <2>1, <3>1 DEF FindManaged
  <2>2. CASE \E status \in {404, 500} : Respond(status)
    BY <1>11, <1>2, <2>2 DEF FindManaged
  <2>3. QED
    BY <1>11, <2>1, <2>2 DEF FindManaged
<1>12. CASE ReadReportParams
  BY <1>12, <1>2, <1>3 DEF ReadReportParams
<1>13. CASE ReadAcks \/ ReadAcksFails
  <2>1. CASE ReadAcks
    BY <1>3, <2>1 DEF ReadAcks
  <2>2. CASE ReadAcksFails
    <3>1. token
      BY <2>2 DEF ReadAcksFails, Typed
    <3>2. QED
      BY <2>2, <3>1 DEF ReadAcksFails
  <2>3. QED
    BY <1>13, <2>1, <2>2
<1>14. CASE FilterRule
  <2>1. token
    BY <1>14 DEF FilterRule, Typed
  <2>2. CASE Respond(503)
    BY <1>14, <1>1, <2>1, <2>2 DEF FilterRule, Respond, Typed
  <2>3. CASE UNCHANGED <<pc, writes>>
    BY <1>14, <2>1, <2>3 DEF FilterRule
  <2>4. QED
    BY <1>14, <2>2, <2>3 DEF FilterRule
<1>15. CASE SendReport \/ SendMetainfo
  BY <1>15, <1>2 DEF SendReport, SendMetainfo
<1>16. CASE SendRule
  <2>1. token /\ UNCHANGED token /\ writes = <<>>
    BY <1>16 DEF SendRule, Typed
  <2>2. PICK status \in Nat : Respond(status)
    BY <1>16 DEF SendRule
  <2>3. QED
    BY <1>1, <2>1, <2>2 DEF Respond
<1>17. CASE EndRequest
  BY <1>17 DEF EndRequest
<1>18. QED
  BY <1>4, <1>5, <1>6, <1>7, <1>8, <1>9, <1>10, <1>11, <1>12, <1>13, <1>14, <1>15, <1>16, <1>17
     DEF Next

(***************************************************************************)
(* Types, places and responses together are inductive.                     *)
(***************************************************************************)
LEMMA Followed == Spec => [](Typed /\ Places /\ Responses)
<1>1. Init => Typed /\ Places /\ Responses
  <2> SUFFICES ASSUME Init PROVE Typed /\ Places /\ Responses
    OBVIOUS
  <2>1. report \in Seq(Rules) /\ okRules \in Seq(Rules) /\ writes \in Seq(Nat) /\ Len(report) = 0
    BY DEF Init
  <2>2. Typed
    <3>1. 1..Len(report) = {} /\ next \in 1..(Len(report) + 1)
      BY <2>1 DEF Init
    <3>2. \A i, j \in 1..Len(report) : report[i] = report[j] => i = j
      BY <3>1
    <3>3. pc \in PlaceNames /\ endpoint \in Endpoints /\ token \in BOOLEAN
      BY DEF Init, PlaceNames, Early, Endpoints
    <3>4. noContentRulesCnt \in Nat /\ disabledRulesCnt \in Nat /\ count \in Nat
      BY DEF Init
    <3>5. storage \in published /\ storage = EmptyStorage
      BY DEF Init
    <3>6. QED
      BY <2>1, <3>1, <3>2, <3>3, <3>4, <3>5 DEF Typed
  <2>3. Places /\ Responses
    BY <2>1 DEF Init, Places, Responses
  <2>4. QED
    BY <2>2, <2>3
<1>2. (Typed /\ Places /\ Responses) /\ [Next]_vars => (Typed /\ Places /\ Responses)'
  <2> SUFFICES ASSUME Typed /\ Places /\ Responses, [Next]_vars
               PROVE  (Typed /\ Places /\ Responses)'
    OBVIOUS
  <2>1. CASE Next
    BY <2>1, StepTyped, StepPlaces, StepResponses
  <2>2. CASE UNCHANGED vars
    BY <2>2 DEF Typed, Places, Responses, ReportEndpoint
  <2>3. QED
    BY <2>1, <2>2
<1>3. QED
  BY <1>1, <1>2, PTL DEF Spec

(***************************************************************************)
(* A request with an identity gets exactly one response, when its handler  *)
(* ends, unless the acknowledgements could not be read; one without gets a *)
(* refusal first, whatever the handlers that carry on after it write.      *)
(***************************************************************************)
THEOREM RespondsOnce == Spec => []OneResponse
<1>1. Typed /\ Places /\ Responses => OneResponse
  BY DEF Typed, Responses, OneResponse
<1>2. QED
  BY <1>1, Followed, PTL

-----------------------------------------------------------------------------
(***************************************************************************)
(* Before the loop nothing is processed and nothing is shown.              *)
(***************************************************************************)
LEMMA NothingYet ==
  ASSUME next = 1, okRules = <<>>
  PROVE  Processed = {} /\ Shown = {} /\ Stable = {}
<1>1. Processed = {}
  BY DEF Processed
<1>2. Shown = {}
  BY DEF Shown
<1>3. QED
  BY <1>1, <1>2 DEF Stable

(***************************************************************************)
(* One turn of the loop processes one rule that was not processed before,  *)
(* and shows that rule or none.                                            *)
(***************************************************************************)
LEMMA TurnProcessesOne ==
  ASSUME Typed, FilterRule
  PROVE  LET r == report[next] IN
         /\ r \in Rules
         /\ r \notin Processed
         /\ Processed' = Processed \cup {r}
         /\ okRules' = Append(okRules, r) => Shown' = Shown \cup {r}
         /\ okRules' = okRules => Shown' = Shown
<1> DEFINE r == report[next]
<1>1. /\ report \in Seq(Rules) /\ next \in 1..Len(report) /\ next' = next + 1
      /\ report' = report /\ okRules \in Seq(Rules)
  BY DEF Typed, FilterRule
<1>2. r \in Rules
  BY <1>1
<1>3. r \notin Processed
  BY <1>1 DEF Typed, Processed
<1>4. Processed' = Processed \cup {r}
  <2>1. 1..(next' - 1) = (1..(next - 1)) \cup {next}
    BY <1>1
  <2>2. QED
    BY <1>1, <2>1 DEF Processed
<1>5. ASSUME okRules' = Append(okRules, r) PROVE Shown' = Shown \cup {r}
  <2>1. /\ Len(okRules') = Len(okRules) + 1
        /\ okRules'[Len(okRules) + 1] = r
        /\ \A i \in 1..Len(okRules) : okRules'[i] = okRules[i]
    BY <1>1, <1>2, <1>5
  <2>2. 1..Len(okRules') = (1..Len(okRules)) \cup {Len(okRules) + 1}
    BY <1>1, <2>1
  <2>3. QED
    BY <2>1, <2>2 DEF Shown
<1>6. okRules' = okRules => Shown' = Shown
  BY DEF Shown
<1>7. QED
  BY <1>2, <1>3, <1>4, <1>5, <1>6

(***************************************************************************)
(* What one turn shows and counts: a rule that is hidden is neither shown  *)
(* nor counted, and one that the content in place can show is shown.       *)
(***************************************************************************)
LEMMA TurnOutcome ==
  ASSUME Typed, FilterRule
  PROVE  LET r == report[next] IN
         /\ UNCHANGED <<includeDisabled, disabled, acked, managed, published, endpoint>>
         /\ okRules' \in {okRules, Append(okRules, r)}
         /\ okRules' = Append(okRules, r) => ~Hidden(r) /\ Showable(r, storage)
         /\ ~Hidden(r) /\ Showable(r, storage) => okRules' = Append(okRules, r)
         /\ noContentRulesCnt' \in {noContentRulesCnt, noContentRulesCnt + 1}
         /\ noContentRulesCnt' # noContentRulesCnt =>
               ~Hidden(r) /\ r \notin storage.has /\ ~(okRules' = Append(okRules, r))
         /\ disabledRulesCnt' # disabledRulesCnt => Hidden(r)
<1> DEFINE r == report[next]
<1>1. UNCHANGED <<includeDisabled, disabled, acked, managed, published, endpoint>>
  BY DEF FilterRule
<1>2. Hidden(r) <=> ~includeDisabled /\ IsDisabledRule(r)
  BY DEF Hidden, IsDisabledRule
<1>3. FetchRuleContent(r) = "found" <=> ready /\ Showable(r, storage)
  BY DEF FetchRuleContent, Showable
<1>4. ~ready => ~Showable(r, storage)
  BY DEF Typed, EmptyStorage, Showable
<1>5. okRules' = IF ~Hidden(r) /\ FetchRuleContent(r) = "found" THEN Append(okRules, r) ELSE okRules
  BY <1>2 DEF FilterRule
<1>6. okRules # Append(okRules, r)
  <2>1. okRules \in Seq(Rules) /\ r \in Rules
    BY DEF Typed, FilterRule
  <2>2. Len(Append(okRules, r)) = Len(okRules) + 1 /\ Len(okRules) \in Nat
    BY <2>1
  <2>3. QED
    BY <2>2
<1>7. /\ noContentRulesCnt \in Nat
      /\ noContentRulesCnt' =
            noContentRulesCnt
              + IF ~Hidden(r) /\ FetchRuleContent(r) \in {"notFound", "timeout"} THEN 1 ELSE 0
  BY <1>2 DEF FilterRule, Typed
<1>8. noContentRulesCnt' \in {noContentRulesCnt, noContentRulesCnt + 1}
  BY <1>7
<1>9. noContentRulesCnt' # noContentRulesCnt =>
        ~Hidden(r) /\ FetchRuleContent(r) \in {"notFound", "timeout"}
  BY <1>7
<1>10. FetchRuleContent(r) \in {"notFound", "timeout"} => r \notin storage.has
  BY DEF FetchRuleContent, Typed, EmptyStorage
<1>11. disabledRulesCnt' # disabledRulesCnt => Hidden(r)
  BY <1>2 DEF FilterRule, Typed
<1>12. QED
  BY <1>1, <1>3, <1>4, <1>5, <1>6, <1>8, <1>9, <1>10, <1>11

(***************************************************************************)
(* A step that is not a turn of the loop, a content update or one of the   *)
(* endpoints without a list either starts afresh or only sends.            *)
(***************************************************************************)
LEMMA OtherSteps ==
  ASSUME Typed, Places, Responses, Next
  PROVE  \/ ContentSwap
         \/ FilterRule
         \/ SendReport
         \/ ~ReportEndpoint'
         \/ /\ next' = 1 /\ okRules' = <<>> /\ noContentRulesCnt' = 0 /\ disabledRulesCnt' = 0
            /\ writes' # <<200>>
<1> USE DEF Places, Early
<1>1. CASE SendRule \/ SendMetainfo
  BY <1>1 DEF SendRule, SendMetainfo, ReportEndpoint
<1>2. CASE EndRequest
  BY <1>2 DEF EndRequest
<1>3. ASSUME UNCHANGED <<filterVars, token>>, pc \in Early,
             \/ UNCHANGED writes
             \/ \E status \in {400, 403, 404, 500, 503} : writes' = Append(writes, status)
      PROVE  /\ next' = 1 /\ okRules' = <<>> /\ noContentRulesCnt' = 0 /\ disabledRulesCnt' = 0
             /\ writes' # <<200>>
  <2>1. next' = 1 /\ okRules' = <<>> /\ noContentRulesCnt' = 0 /\ disabledRulesCnt' = 0
    BY <1>3
  <2>2. writes' # <<200>>
    <3>1. CASE token
      <4>1. writes = <<>>
        BY <1>3, <3>1 DEF Responses
      <4>2. CASE UNCHANGED writes
        BY <4>1, <4>2
      <4>3. ASSUME NEW status \in {400, 403, 404, 500, 503}, writes' = Append(writes, status)
            PROVE  writes' # <<200>>
        <5>1. writes' = <<status>>
          BY <4>1, <4>3
        <5>2. QED
          BY <5>1
      <4>4. QED
        BY <1>3, <4>2, <4>3
    <3>2. CASE ~token
      <4>1. ~token' /\ Responses'
        BY <1>3, <3>2, StepResponses
      <4>2. QED
        BY <4>1 DEF Responses
    <3>3. QED
      BY <3>1, <3>2 DEF Typed
  <2>3. QED
    BY <2>1, <2>2
<1>4. CASE Begin
  BY <1>4 DEF Begin, Responses
<1>5. CASE CheckOrgID \/ ReadPathParams \/ AggregatorFails
  BY <1>5, <1>3 DEF CheckOrgID, ReadPathParams, AggregatorFails, Respond
<1>6. CASE CheckIdentity \/ AggregatorAnswers
  BY <1>6, <1>3 DEF CheckIdentity, AggregatorAnswers
<1>7. CASE FindManaged \/ ReadReportParams
  BY <1>7, <1>3 DEF FindManaged, ReadReportParams, Respond
<1>8. CASE ReadAcks \/ ReadAcksFails
  BY <1>8, <1>3 DEF ReadAcks, ReadAcksFails
<1>9. QED
  BY <1>1, <1>2, <1>4, <1>5, <1>6, <1>7, <1>8 DEF Next

(***************************************************************************)
(* The list of rules of a response holds what it should and nothing else,  *)
(* whichever content updates come between the lookups of its rules.        *)
(***************************************************************************)
THEOREM ShownExact == Spec => []ShownRulesExact
<1>1. Init => ShownRulesExact
  <2> SUFFICES ASSUME Init PROVE ShownRulesExact
    OBVIOUS
  <2>1. Shown = {} /\ Stable = {}
    BY NothingYet DEF Init
  <2>2. QED
    BY <2>1 DEF ShownRulesExact
<1>2. (Typed /\ Places /\ Responses) /\ ShownRulesExact /\ [Next]_vars => ShownRulesExact'
  <2> SUFFICES ASSUME Typed, Places, Responses, ShownRulesExact, [Next]_vars, ReportEndpoint'
               PROVE  /\ Stable' \subseteq Shown'
                      /\ \A r \in Shown' :
                            r \in Processed' /\ ~Hidden(r)' /\ \E s \in published' : Showable(r, s)'
    BY DEF ShownRulesExact
  <2>1. CASE ContentSwap
    <3>1. UNCHANGED <<Processed, Shown, endpoint, includeDisabled, disabled, acked, managed>>
      BY <2>1 DEF ContentSwap, Processed, Shown
    <3>2. published \subseteq published'
      BY <2>1 DEF ContentSwap
    <3>3. QED
      BY <3>1, <3>2 DEF ShownRulesExact, ReportEndpoint, Stable, Hidden, Showable
  <2>2. CASE FilterRule
    <3> DEFINE r == report[next]
    <3>1. /\ Processed' = Processed \cup {r}
          /\ okRules' = Append(okRules, r) => Shown' = Shown \cup {r}
          /\ okRules' = okRules => Shown' = Shown
      BY <2>2, TurnProcessesOne
    <3>2. /\ UNCHANGED <<includeDisabled, disabled, acked, managed, published, endpoint>>
          /\ okRules' \in {okRules, Append(okRules, r)}
          /\ okRules' = Append(okRules, r) => ~Hidden(r) /\ Showable(r, storage)
          /\ ~Hidden(r) /\ Showable(r, storage) => okRules' = Append(okRules, r)
      BY <2>2, TurnOutcome
    <3>3. storage \in published
      BY DEF Typed
    <3>4. /\ Stable \subseteq Shown
          /\ \A q \in Shown : q \in Processed /\ ~Hidden(q) /\ \E s \in published : Showable(q, s)
      BY <3>2 DEF ShownRulesExact, ReportEndpoint
    <3>5. \A q : (Hidden(q)' <=> Hidden(q)) /\ \A s : Showable(q, s)' <=> Showable(q, s)
      BY <3>2 DEF Hidden, Showable
    <3>6. Stable' \subseteq Stable \cup {r} /\ (r \in Stable' => ~Hidden(r) /\ Showable(r, storage))
      BY <3>1, <3>2, <3>3, <3>5 DEF Stable
    <3>7. Shown \subseteq Shown' /\ Shown' \subseteq Shown \cup {r}
      BY <3>1, <3>2
    <3>8. Stable' \subseteq Shown'
      BY <3>1, <3>2, <3>4, <3>6, <3>7
    <3>9. ASSUME NEW q \in Shown'
          PROVE  q \in Processed' /\ ~Hidden(q)' /\ \E s \in published' : Showable(q, s)'
      <4>1. CASE q \in Shown
        BY <3>1, <3>2, <3>4, <3>5, <4>1
      <4>2. CASE q \notin Shown
        <5>1. q = r /\ okRules' = Append(okRules, r)
          BY <3>1, <3>2, <3>7, <4>2
        <5>2. QED
          BY <3>1, <3>2, <3>3, <3>5, <5>1
      <4>3. QED
        BY <4>1, <4>2
    <3>10. QED
      BY <3>8, <3>9
  <2>3. CASE SendReport \/ UNCHANGED vars
    <3>1. UNCHANGED <<report, next, okRules, endpoint, includeDisabled, disabled, acked, managed,
                      published>>
      BY <2>3 DEF SendReport
    <3>2. QED
      BY <3>1 DEF ShownRulesExact, ReportEndpoint, Stable, Hidden, Showable, Processed, Shown
  <2>4. CASE next' = 1 /\ okRules' = <<>>
    <3>1. Processed' = {} /\ Shown' = {}
      BY <2>4 DEF Processed, Shown
    <3>2. QED
      BY <3>1 DEF Stable
  <2>5. QED
    BY <2>1, <2>2, <2>3, <2>4, OtherSteps
<1>3. QED
  BY <1>1, <1>2, Followed, PTL DEF Spec

(***************************************************************************)
(* The sets of rules a request deals with are finite.                      *)
(***************************************************************************)
LEMMA RuleSetsFinite ==
  ASSUME Typed
  PROVE  /\ IsFiniteSet(Countable) /\ IsFiniteSet(Shown)
         /\ Cardinality(Countable) \in Nat /\ Cardinality(Shown) \in Nat
<1>1. Processed \subseteq Rules
  BY DEF Typed, Processed
<1>2. Shown \subseteq Rules
  BY DEF Typed, Shown
<1>3. Countable \subseteq Rules
  BY <1>1, <1>2 DEF Countable, WithoutContent
<1>4. IsFiniteSet(Countable) /\ IsFiniteSet(Shown)
  BY <1>2, <1>3, RulesAssumption, FS_Subset
<1>5. QED
  BY <1>4, FS_CardinalityType

(***************************************************************************)
(* So they are after a step.                                               *)
(***************************************************************************)
LEMMA NextRuleSetsFinite ==
  ASSUME Typed'
  PROVE  IsFiniteSet(Countable') /\ Cardinality(Countable') \in Nat
<1>0. /\ report' \in Seq(Rules) /\ Len(report') \in Nat
      /\ next' \in 1..(Len(report') + 1)
      /\ \A i \in 1..Len(report') : report'[i] \in Rules
  BY DEF Typed
<1>1. Processed' \subseteq Rules
  <2>1. Processed' = {report'[i] : i \in 1..(next' - 1)}
    BY DEF Processed
  <2>2. ASSUME NEW i \in 1..(next' - 1)
        PROVE  i \in 1..Len(report')
    <3> DEFINE n == Len(report')
               k == next'
    <3>1. n \in Nat /\ k \in 1..(n + 1) /\ i \in 1..(k - 1)
      BY <1>0
    <3> HIDE DEF n, k
    <3>2. i \in 1..n
      BY <3>1
    <3>3. QED
      BY <3>2 DEF n
  <2>3. QED
    BY <1>0, <2>1, <2>2
<1>2. Shown' \subseteq Rules
  BY DEF Typed, Shown
<1>3. Countable' \subseteq Rules
  BY <1>1, <1>2 DEF Countable, WithoutContent
<1>4. IsFiniteSet(Countable')
  BY <1>3, RulesAssumption, FS_Subset
<1>5. QED
  BY <1>4, FS_CardinalityType

(***************************************************************************)
(* A turn of the loop keeps the counters in step with the sets: what it    *)
(* adds to the counters is one rule, new to the set.                       *)
(***************************************************************************)
LEMMA TurnCounts ==
  ASSUME Typed, FilterRule, ReportEndpoint, Counting, ShownRulesExact, Typed'
  PROVE  /\ Len(okRules') + noContentRulesCnt' <= Cardinality(Countable')
         /\ Cardinality(Shown') <= Len(okRules')
         /\ (\A q \in Processed' : ~Hidden(q)') => disabledRulesCnt' = 0
<1> DEFINE r == report[next]
<1>1. /\ r \in Rules /\ r \notin Processed
      /\ Processed' = Processed \cup {r}
      /\ okRules' = Append(okRules, r) => Shown' = Shown \cup {r}
      /\ okRules' = okRules => Shown' = Shown
  BY TurnProcessesOne
<1>2. /\ UNCHANGED <<includeDisabled, disabled, acked, managed, published, endpoint>>
      /\ okRules' \in {okRules, Append(okRules, r)}
      /\ okRules' = Append(okRules, r) => ~Hidden(r)
      /\ noContentRulesCnt' \in {noContentRulesCnt, noContentRulesCnt + 1}
      /\ noContentRulesCnt' # noContentRulesCnt =>
            ~Hidden(r) /\ r \notin storage.has /\ ~(okRules' = Append(okRules, r))
      /\ disabledRulesCnt' # disabledRulesCnt => Hidden(r)
  BY TurnOutcome
<1>3. \A q : Hidden(q)' <=> Hidden(q)
  BY <1>2 DEF Hidden
<1>4. WithoutContent \subseteq WithoutContent' /\ Shown \subseteq Shown'
  BY <1>1, <1>2, <1>3 DEF WithoutContent
<1>5. r \notin Countable
  BY <1>1 DEF Countable, WithoutContent, ShownRulesExact
<1>6. /\ IsFiniteSet(Countable) /\ IsFiniteSet(Shown) /\ IsFiniteSet(Countable')
      /\ Cardinality(Countable) \in Nat /\ Cardinality(Shown) \in Nat
      /\ Cardinality(Countable') \in Nat
  BY RuleSetsFinite, NextRuleSetsFinite
<1>7. Cardinality(Countable) <= Cardinality(Countable')
  BY <1>4, <1>6, FS_Subset DEF Countable
<1>8. ASSUME okRules' = Append(okRules, r) \/ noContentRulesCnt' # noContentRulesCnt
      PROVE  Cardinality(Countable) + 1 <= Cardinality(Countable')
  <2>1. r \in Countable'
    <3>1. CASE okRules' = Append(okRules, r)
      BY <1>1, <3>1 DEF Countable
    <3>2. CASE noContentRulesCnt' # noContentRulesCnt
      <4>1. storage \in published /\ r \notin storage.has /\ ~Hidden(r)
        BY <1>2, <3>2 DEF Typed
      <4>2. QED
        BY <1>1, <1>2, <1>3, <4>1 DEF Countable, WithoutContent
    <3>3. QED
      BY <1>8, <3>1, <3>2
  <2>2. Countable \cup {r} \subseteq Countable'
    BY <1>4, <2>1 DEF Countable
  <2>3. Cardinality(Countable \cup {r}) = Cardinality(Countable) + 1
    BY <1>5, <1>6, FS_AddElement
  <2>4. QED
    BY <1>6, <2>2, <2>3, FS_Subset
<1>9. Cardinality(Shown \cup {r}) \in Nat /\ Cardinality(Shown \cup {r}) <= Cardinality(Shown) + 1
  <2>1. IsFiniteSet(Shown) /\ Cardinality(Shown) \in Nat
    BY <1>6
  <2>2. QED
    BY <2>1, FS_AddElement
<1>10. /\ Len(okRules) \in Nat /\ noContentRulesCnt \in Nat
       /\ Len(Append(okRules, r)) = Len(okRules) + 1
  BY <1>1 DEF Typed
<1>11. /\ Len(okRules) + noContentRulesCnt <= Cardinality(Countable)
       /\ Cardinality(Shown) <= Len(okRules)
       /\ (\A q \in Processed : ~Hidden(q)) => disabledRulesCnt = 0
  BY DEF Counting
<1>12. Cardinality(Shown') <= Len(okRules')
  <2>1. CASE okRules' = okRules
    BY <1>1, <1>11, <2>1
  <2>2. CASE okRules' = Append(okRules, r)
    <3>1. Cardinality(Shown \cup {r}) <= Len(okRules) + 1
      BY <1>6, <1>9, <1>10, <1>11
    <3>2. Shown' = Shown \cup {r} /\ Len(okRules') = Len(okRules) + 1
      BY <1>1, <1>10, <2>2
    <3>3. QED
      BY <3>1, <3>2
  <2>3. QED
    BY <1>2, <2>1, <2>2
<1>13. Len(okRules') + noContentRulesCnt' <= Cardinality(Countable')
  <2>1. CASE okRules' = Append(okRules, r)
    <3>1. Len(okRules') = Len(okRules) + 1 /\ noContentRulesCnt' = noContentRulesCnt
      BY <1>2, <1>10, <2>1
    <3>2. Cardinality(Countable) + 1 <= Cardinality(Countable')
      BY <1>8, <2>1
    <3>3. QED
      BY <1>6, <1>10, <1>11, <3>1, <3>2
  <2>2. CASE okRules' = okRules /\ noContentRulesCnt' # noContentRulesCnt
    <3>1. noContentRulesCnt' = noContentRulesCnt + 1
      BY <1>2, <2>2
    <3>2. Cardinality(Countable) + 1 <= Cardinality(Countable')
      BY <1>8, <2>2
    <3>3. QED
      BY <1>6, <1>10, <1>11, <2>2, <3>1, <3>2
  <2>3. CASE okRules' = okRules /\ noContentRulesCnt' = noContentRulesCnt
    BY <1>6, <1>7, <1>10, <1>11, <2>3
  <2>4. QED
    BY <1>2, <2>1, <2>2, <2>3
<1>14. (\A q \in Processed' : ~Hidden(q)') => disabledRulesCnt' = 0
  BY <1>1, <1>2, <1>3, <1>11
<1>15. QED
  BY <1>12, <1>13, <1>14

(***************************************************************************)
(* The count of a report is of rules that are shown or had no content, it  *)
(* never falls short of those that could be shown throughout the request   *)
(* or are in the response, and it is 0 if there is nothing to show and     *)
(* nothing hidden.                                                         *)
(***************************************************************************)
THEOREM CountCorrect == Spec => []CountBounded
<1>1. Init => Counting
  <2> SUFFICES ASSUME Init PROVE Counting
    OBVIOUS
  <2>1. Shown = {} /\ Processed = {}
    BY NothingYet DEF Init
  <2>2. Countable = {}
    BY <2>1 DEF Countable, WithoutContent
  <2>3. Cardinality({}) = 0 /\ Len(okRules) = 0 /\ noContentRulesCnt = 0 /\ disabledRulesCnt = 0
        /\ writes # <<200>>
    BY FS_EmptySet DEF Init
  <2>4. QED
    BY <2>1, <2>2, <2>3 DEF Counting
<1>2. (Typed /\ Places /\ Responses) /\ (Typed /\ Places /\ Responses)' /\ ShownRulesExact
        /\ Counting /\ [Next]_vars
        => Counting'
  <2> DEFINE NoneHidden == \A r \in Processed : ~Hidden(r)
  <2> SUFFICES ASSUME Typed, Typed', Places, Responses, ShownRulesExact, Counting, [Next]_vars,
                      ReportEndpoint'
               PROVE  /\ Len(okRules') + noContentRulesCnt' <= Cardinality(Countable')
                      /\ Cardinality(Shown') <= Len(okRules')
                      /\ NoneHidden' => disabledRulesCnt' = 0
                      /\ writes' = <<200>> =>
                            /\ count' <= Cardinality(Countable') /\ count' >= Cardinality(Shown')
                            /\ Shown' = {} /\ NoneHidden' => count' = 0
    BY DEF Counting
  <2>0. /\ IsFiniteSet(Countable') /\ Cardinality(Countable) \in Nat /\ Cardinality(Countable') \in Nat
        /\ Cardinality(Shown) \in Nat
    BY RuleSetsFinite, NextRuleSetsFinite
  <2>1. CASE ContentSwap \/ UNCHANGED vars
    <3>1. /\ UNCHANGED <<report, next, okRules, endpoint, includeDisabled, disabled, acked,
                         noContentRulesCnt, disabledRulesCnt, writes, count>>
          /\ published \subseteq published'
      BY <2>1 DEF ContentSwap
    <3>2. Shown' = Shown /\ Processed' = Processed /\ \A r : Hidden(r)' <=> Hidden(r)
      BY <3>1 DEF Processed, Hidden, Shown
    <3>3. Countable \subseteq Countable'
      BY <3>1, <3>2 DEF Countable, WithoutContent
    <3>4. Cardinality(Countable) <= Cardinality(Countable')
      BY <2>0, <3>3, FS_Subset
    <3>5. ReportEndpoint /\ Len(okRules) \in Nat /\ noContentRulesCnt \in Nat /\ count \in Nat
      BY <3>1 DEF ReportEndpoint, Typed
    <3>6. /\ Len(okRules) + noContentRulesCnt <= Cardinality(Countable')
          /\ writes = <<200>> => count <= Cardinality(Countable')
      BY <2>0, <3>4, <3>5 DEF Counting
    <3>7. QED
      BY <3>1, <3>2, <3>5, <3>6 DEF Counting
  <2>2. CASE FilterRule
    <3>1. ReportEndpoint
      BY <2>2 DEF FilterRule, ReportEndpoint
    <3>2. /\ Len(okRules') + noContentRulesCnt' <= Cardinality(Countable')
          /\ Cardinality(Shown') <= Len(okRules')
          /\ NoneHidden' => disabledRulesCnt' = 0
      BY <2>2, <3>1, TurnCounts
    <3>3. writes' # <<200>>
      <4>1. writes = <<>>
        BY <2>2 DEF FilterRule, Responses, Typed
      <4>2. CASE UNCHANGED writes
        BY <4>1, <4>2
      <4>3. CASE writes' = Append(writes, 503)
        <5>1. writes' = <<503>>
          BY <4>1, <4>3
        <5>2. QED
          BY <5>1
      <4>4. QED
        BY <2>2, <4>2, <4>3 DEF FilterRule, Respond
    <3>4. QED
      BY <3>2, <3>3
  <2>3. CASE SendReport
    <3>1. UNCHANGED <<report, next, okRules, endpoint, includeDisabled, disabled, acked,
                      noContentRulesCnt, disabledRulesCnt, published>>
      BY <2>3 DEF SendReport
    <3>2. Countable' = Countable /\ Shown' = Shown /\ NoneHidden' = NoneHidden
      BY <3>1 DEF Countable, WithoutContent, Processed, Hidden, Shown
    <3>3. /\ Len(okRules) + noContentRulesCnt <= Cardinality(Countable)
          /\ Cardinality(Shown) <= Len(okRules)
          /\ NoneHidden => disabledRulesCnt = 0
      BY <3>1 DEF Counting, ReportEndpoint
    <3>4. Len(okRules) \in Nat /\ noContentRulesCnt \in Nat /\ (okRules = <<>> <=> Len(okRules) = 0)
      BY EmptySeq DEF Typed
    <3>5. Shown = {} => okRules = <<>>
      <4>1. 1 \in 1..Len(okRules) => okRules[1] \in Shown
        BY DEF Shown
      <4>2. QED
        BY <3>4, <4>1
    <3> HIDE DEF NoneHidden
    <3>6. /\ count' <= Cardinality(Countable) /\ count' >= Cardinality(Shown)
          /\ Shown = {} /\ NoneHidden => count' = 0
      <4>1. CASE okRules = <<>> /\ noContentRulesCnt > 0 /\ disabledRulesCnt = 0
        <5>1. count' = 0 /\ Len(okRules) = 0
          BY <2>3, <4>1 DEF SendReport, GetRuleCount
        <5>2. QED
          BY <2>0, <3>3, <5>1
      <4>2. CASE /\ count' = Len(okRules) + noContentRulesCnt
                 /\ ~(okRules = <<>> /\ noContentRulesCnt > 0 /\ disabledRulesCnt = 0)
        BY <2>0, <3>3, <3>4, <3>5, <4>2
      <4>3. QED
        BY <2>3, <4>1, <4>2 DEF SendReport, GetRuleCount
    <3>7. QED
      BY <3>1, <3>2, <3>3, <3>6
  <2>4. CASE /\ next' = 1 /\ okRules' = <<>> /\ noContentRulesCnt' = 0 /\ disabledRulesCnt' = 0
             /\ writes' # <<200>>
    <3>1. Processed' = {} /\ Shown' = {}
      BY <2>4 DEF Processed, Shown
    <3>2. Countable' = {}
      BY <3>1 DEF Countable, WithoutContent
    <3>3. Cardinality({}) = 0 /\ Len(okRules') = 0
      BY <2>4, FS_EmptySet
    <3>4. QED
      BY <2>4, <3>1, <3>2, <3>3
  <2>5. QED
    BY <2>1, <2>2, <2>3, <2>4, OtherSteps
<1>3. Typed /\ ShownRulesExact /\ Counting => CountBounded
  <2> SUFFICES ASSUME Typed, ShownRulesExact, Counting, ReportEndpoint
               PROVE  writes = <<200>> =>
                        /\ count <= Cardinality(Shown \cup WithoutContent)
                        /\ count >= Cardinality(Stable)
                        /\ count >= Cardinality(Shown)
                        /\ Shown = {} /\ (\A r \in Processed : ~Hidden(r)) => count = 0
    BY DEF CountBounded
  <2> HAVE writes = <<200>>
  <2>1. /\ count <= Cardinality(Countable) /\ Cardinality(Shown) <= count
        /\ Shown = {} /\ (\A r \in Processed : ~Hidden(r)) => count = 0
    BY DEF Counting
  <2>2. Stable \subseteq Shown /\ IsFiniteSet(Shown)
    BY RuleSetsFinite DEF ShownRulesExact
  <2>3. Cardinality(Stable) <= Cardinality(Shown)
    BY <2>2, FS_Subset
  <2>4. QED
    <3>1. Cardinality(Stable) \in Nat /\ Cardinality(Shown) \in Nat /\ count \in Nat
      BY <2>2, FS_Subset, FS_CardinalityType DEF Typed
    <3>2. count >= Cardinality(Stable) /\ count >= Cardinality(Shown)
      BY <2>1, <2>3, <3>1
    <3>3. QED
      BY <2>1, <3>2 DEF Countable
<1>4. QED
  BY <1>1, <1>2, <1>3, Followed, ShownExact, PTL DEF Spec
=============================================================================
