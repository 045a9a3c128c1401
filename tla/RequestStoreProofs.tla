-------------------------- MODULE RequestStoreProofs --------------------------
(***************************************************************************)
(* Theorems about RequestStore, for every set of request IDs and rules,    *)
(* every length of a body, and any number of SCAN calls and of changes of  *)
(* the store during a request.                                             *)
(*                                                                         *)
(* An answer is put together while the store changes.  The history         *)
(* variables seen and held bound what each single command could find       *)
(* (StoreHistory); the other invariants carry that along the loops: over   *)
(* the SCAN calls (Collected), the commands of the pipeline (ListProgress  *)
(* and PostProgress), and the rules of a report (FilterProgress).          *)
(***************************************************************************)
EXTENDS RequestStore, FiniteSetTheorems, SequenceTheorems, TLAPS

USE DEF vars, store, content, request, lists, hits, history

Codes == {200, 400, 403, 404, 500, 503}
Places == {"status", "list", "post", "report", "idle", "params", "found", "pipeline", "acks",
           "disabled", "filter", "done"}
Statuses == [id : RequestIDs, valid : BOOLEAN]

\* Each endpoint has places of its own, and the lists of the others are empty.
OwnPlaces ==
    /\ pc \in Ops => pc = op
    /\ pc = "found" => op = "list"
    /\ pc = "pipeline" => op \in {"list", "post"}
    /\ pc \in {"acks", "disabled", "filter"} => op = "report"
    /\ pc \notin {"pipeline", "done"} => commands = 0 /\ statuses = <<>>
    /\ pc \in {"idle", "params"} => requestIDs = <<>> /\ scans = 0
    /\ pc \notin {"filter", "done"} => filtered = {} /\ disabledRules = {}
    /\ pc \notin {"disabled", "filter", "done"} => ackedRules = {}
    /\ ~ready => contents = {}

\* What has been written, and what has failed, before the handler ends.
SoFar ==
    /\ pc \notin {"filter", "done"} => writes = <<>> /\ failed = {}
    /\ pc = "filter" => \/ writes = <<>> /\ failed = {}
                        \/ writes = <<500>> /\ failed = {"disabled"}

\* The keys that are there lie between those that were there throughout and
\* those that were there at some time.
StoreHistory == held \subseteq Keys /\ Keys \subseteq seen

\* The SCAN calls return nothing but keys, and in the end all that were there
\* throughout.
Collected ==
    op = "list" =>
        /\ \A i \in 1..Len(requestIDs) : Key(requestIDs[i], "request") \in seen
        /\ pc \in {"found", "pipeline"} =>
              \A id \in RequestIDs :
                  Key(id, "request") \in held => \E i \in 1..Len(requestIDs) : requestIDs[i] = id

\* The commands of the pipeline so far, for the list ...
ListProgress ==
    op = "list" /\ pc = "pipeline" =>
        /\ \A i \in 1..commands :
              Key(requestIDs[i], "reports") \in held =>
                  \E j \in 1..Len(statuses) : statuses[j].id = requestIDs[i]
        /\ \A j \in 1..Len(statuses) :
              /\ Key(statuses[j].id, "reports") \in seen
              /\ Key(statuses[j].id, "request") \in seen

\* ... and for the POST variant.
PostProgress ==
    op = "post" /\ pc = "pipeline" =>
        /\ Len(statuses) = commands
        /\ \A i \in 1..commands :
              /\ statuses[i].id = requestIDs[i]
              /\ Key(requestIDs[i], "reports") \in held => statuses[i].valid
              /\ statuses[i].valid => Key(requestIDs[i], "reports") \in seen

\* The rules of a report that are still to be looked at, or shown already.
FilterProgress ==
    /\ pc \in {"acks", "disabled", "filter"} /\ Key(requestID, "reports") \in held =>
          (reports[requestID] \ {BadRule}) \cap stableContents
              \subseteq ruleHits \cup filtered \cup ackedRules \cup disabledRules
    /\ pc = "filter" => filtered \cap (ackedRules \cup disabledRules) = {}

\* The invariant of the store, with what the requests have seen of it.
StoreTyped ==
    /\ requestKeys \subseteq RequestIDs
    /\ reports \in Reports
    /\ StoreHistory
    /\ seen \subseteq AllKeys
    /\ changes \in 0..MaxChanges

\* The locals of the handler and the content it looks up.
LocalTyped ==
    /\ ready \in BOOLEAN /\ contents \subseteq Rules /\ stableContents \subseteq contents
    /\ op \in Ops /\ requestID \in RequestIDs
    /\ pc \in Places
    /\ requestIDs \in Seq(RequestIDs)
    /\ scans \in 0..MaxScans /\ commands \in 0..Len(requestIDs)
    /\ statuses \in Seq(Statuses)
    /\ ruleHits \subseteq Rules /\ ackedRules \subseteq Rules /\ disabledRules \subseteq Rules
    /\ filtered \subseteq Rules
    /\ failed \subseteq {"redis", "acks", "disabled"}
    /\ writes \in Seq(Codes)

\* The handler's own steps leave the store and its history alone.
HandlerStep ==
    \/ ReadParams \/ CheckStatus
    \/ Scan \/ ScanFails \/ CheckFound \/ PipelineCommand \/ PipelineFails \/ SendStatuses
    \/ ReadRuleHits \/ ReadAcks \/ ReadDisabled \/ ReadDisabledFails \/ FilterRule \/ SendReport

-------------------------------------------------------------------------------
(***************************************************************************)
(* Which keys the pattern of SCAN matches.                                 *)
(***************************************************************************)
LEMMA KeyPresent ==
  /\ \A id : Key(id, "request") \in Keys <=> id \in requestKeys
  /\ \A id : Key(id, "reports") \in Keys <=> id \in DOMAIN reports
  /\ \A id : Key(id, "request") \in Keys' <=> id \in requestKeys'
  /\ \A id : Key(id, "reports") \in Keys' <=> id \in DOMAIN reports'
  /\ \A k \in Keys : k = Key(k.id, k.kind) /\ k.kind \in Kinds
BY DEF Key, Keys, Kinds

(***************************************************************************)
(* A store of hashes maps some of the request IDs to members.              *)
(***************************************************************************)
LEMMA ReportsType ==
  ASSUME NEW r
  PROVE  r \in Reports <=> /\ DOMAIN r \subseteq RequestIDs
                           /\ r \in [DOMAIN r -> SUBSET (Rules \cup {BadRule})]
BY DEF Reports

(***************************************************************************)
(* Keys are pairs of a request ID and a kind.                              *)
(***************************************************************************)
LEMMA KeysTyped ==
  /\ requestKeys \subseteq RequestIDs /\ DOMAIN reports \subseteq RequestIDs => Keys \subseteq AllKeys
  /\ requestKeys' \subseteq RequestIDs /\ DOMAIN reports' \subseteq RequestIDs => Keys' \subseteq AllKeys
BY DEF Keys, AllKeys, Kinds

(***************************************************************************)
(* SetToSeq lists the members of a finite set.                             *)
(***************************************************************************)
LEMMA SetToSeqType ==
  ASSUME NEW S, IsFiniteSet(S)
  PROVE  SetToSeq(S) \in Seq(S)
<1>1. Cardinality(S) \in Nat /\ \E f : f \in Bijection(1..Cardinality(S), S)
  BY FS_CardinalityType DEF ExistsBijection
<1>2. \E f \in [1..Cardinality(S) -> S] : IsInjective(f)
  BY <1>1 DEF Bijection, Injection, IsInjective
<1>3. SetToSeq(S) \in [1..Cardinality(S) -> S]
  BY <1>2 DEF SetToSeq
<1>4. QED
  BY <1>1, <1>3, SeqDef

(***************************************************************************)
(* A step is one of the environment, the begin or end of a request, or one *)
(* of the handler, which only reads the store.                             *)
(***************************************************************************)
LEMMA Steps ==
  ASSUME Next
  PROVE  \/ Begin \/ EndRequest \/ StoreResult \/ Expire \/ ContentSwap
         \/ HandlerStep /\ UNCHANGED <<store, content, request, history>>
BY DEF Next, Handler, HandlerStep, ReadParams, CheckStatus, Scan, ScanFails, CheckFound,
       PipelineCommand, PipelineFails, SendStatuses, ReadRuleHits, ReadAcks, ReadDisabled,
       ReadDisabledFails, FilterRule, SendReport

(***************************************************************************)
(* Every step preserves the types of the store and what is known of the    *)
(* keys that were there throughout and at some time.                       *)
(***************************************************************************)
LEMMA StepStore ==
  ASSUME StoreTyped, Next
  PROVE  StoreTyped'
<1> USE DEF StoreTyped, StoreHistory
<1>1. CASE Begin
  <2>1. requestKeys' \subseteq RequestIDs /\ reports' \in Reports /\ seen' = Keys' /\ held' = Keys'
    BY <1>1 DEF Begin
  <2>2. Keys' \subseteq AllKeys
    BY <2>1, KeysTyped, ReportsType
  <2>3. changes' \in 0..MaxChanges
    BY <1>1, RequestStoreAssumption DEF Begin
  <2>4. QED
    BY <2>1, <2>2, <2>3
<1>2. CASE EndRequest
  <2>1. requestKeys' = {} /\ reports' = NoReports /\ seen' = {} /\ held' = {} /\ changes' = 0
    BY <1>2 DEF EndRequest
  <2>2. DOMAIN NoReports = {} /\ NoReports \in Reports
    BY ReportsType DEF NoReports
  <2>3. Keys' = {}
    BY <2>1, <2>2 DEF Keys
  <2>4. QED
    BY <2>1, <2>2, <2>3, RequestStoreAssumption
<1>3. CASE StoreResult
  <2>1. requestKeys' \subseteq RequestIDs /\ requestKeys \subseteq requestKeys'
    BY <1>3 DEF StoreResult
  <2>2. reports' \in Reports /\ DOMAIN reports \subseteq DOMAIN reports'
    <3>1. CASE UNCHANGED reports
      BY <3>1
    <3>2. ASSUME NEW id \in RequestIDs, NEW value \in {{}, Rules},
                 reports' = [i \in DOMAIN reports \cup {id} |-> IF i = id THEN value ELSE reports[i]]
          PROVE  reports' \in Reports /\ DOMAIN reports \subseteq DOMAIN reports'
      <4>1. DOMAIN reports' = DOMAIN reports \cup {id}
        BY <3>2
      <4>2. value \in SUBSET (Rules \cup {BadRule})
        OBVIOUS
      <4>3. reports' \in [DOMAIN reports' -> SUBSET (Rules \cup {BadRule})]
        BY <3>2, <4>1, <4>2, ReportsType
      <4>4. QED
        BY <4>1, <4>3, ReportsType
    <3>3. QED
      BY <1>3, <3>1, <3>2 DEF StoreResult
  <2>3. Keys \subseteq Keys'
    BY <2>1, <2>2 DEF Keys
  <2>4. Keys' \subseteq AllKeys
    BY <2>1, <2>2, KeysTyped, ReportsType
  <2>5. seen' = seen \cup Keys' /\ held' = held /\ changes' \in 0..MaxChanges
    BY <1>3, RequestStoreAssumption DEF StoreResult, Changing
  <2>6. QED
    BY <2>1, <2>2, <2>3, <2>4, <2>5
<1>4. CASE Expire
  <2>1. requestKeys' \subseteq requestKeys
    BY <1>4 DEF Expire
  <2>2. reports' \in Reports /\ DOMAIN reports' \subseteq DOMAIN reports
    <3>1. CASE UNCHANGED reports
      BY <3>1
    <3>2. ASSUME NEW id \in DOMAIN reports, reports' = [i \in DOMAIN reports \ {id} |-> reports[i]]
          PROVE  reports' \in Reports /\ DOMAIN reports' \subseteq DOMAIN reports
      <4>1. DOMAIN reports' = DOMAIN reports \ {id}
        BY <3>2
      <4>2. reports' \in [DOMAIN reports' -> SUBSET (Rules \cup {BadRule})]
        BY <3>2, <4>1, ReportsType
      <4>3. QED
        BY <4>1, <4>2, ReportsType
    <3>3. QED
      BY <1>4, <3>1, <3>2 DEF Expire
  <2>3. Keys' \subseteq Keys
    BY <2>1, <2>2 DEF Keys
  <2>4. seen' = seen /\ held' = held \cap Keys' /\ changes' \in 0..MaxChanges
    BY <1>4, RequestStoreAssumption DEF Expire, Changing
  <2>5. QED
    BY <2>1, <2>2, <2>3, <2>4
<1>5. CASE ContentSwap
  <2>1. UNCHANGED <<requestKeys, reports, seen, held>> /\ changes' \in 0..MaxChanges
    BY <1>5, RequestStoreAssumption DEF ContentSwap
  <2>2. Keys' = Keys
    BY <2>1 DEF Keys
  <2>3. QED
    BY <2>1, <2>2
<1>6. CASE UNCHANGED <<store, history>>
  BY <1>6 DEF Keys
<1>7. QED
  BY <1>1, <1>2, <1>3, <1>4, <1>5, <1>6, Steps

(***************************************************************************)
(* The steps that end a handler, or take it to its next place, and leave   *)
(* its lists alone.                                                        *)
(***************************************************************************)
LEMMA MoveTyped ==
  ASSUME LocalTyped, UNCHANGED <<content, request, lists, ruleHits, ackedRules, disabledRules, filtered>>
  PROVE  /\ \A status \in Codes : Respond(status) /\ UNCHANGED failed => LocalTyped'
         /\ \A status \in Codes, call \in {"redis", "acks", "disabled"} :
               Fail(call, status) => LocalTyped'
         /\ \A place \in Places : pc' = place /\ UNCHANGED <<failed, writes>> => LocalTyped'
<1>1. \A status \in Codes : Append(writes, status) \in Seq(Codes)
  BY DEF LocalTyped
<1>2. "done" \in Places
  BY DEF Places
<1>3. ASSUME pc' \in Places, writes' \in Seq(Codes), failed' \subseteq {"redis", "acks", "disabled"}
      PROVE  LocalTyped'
  BY <1>3 DEF LocalTyped
<1>4. writes \in Seq(Codes) /\ failed \subseteq {"redis", "acks", "disabled"}
  BY DEF LocalTyped
<1>5. QED
  BY <1>1, <1>2, <1>3, <1>4 DEF Respond, Fail, Write

(***************************************************************************)
(* What SCAN returns is a list of request IDs.                             *)
(***************************************************************************)
LEMMA ScanTyped ==
  ASSUME StoreTyped, NEW keys \in SUBSET Keys
  PROVE  /\ RequestKeysOf(keys) \subseteq requestKeys
         /\ SetToSeq(RequestKeysOf(keys)) \in Seq(RequestKeysOf(keys))
         /\ SetToSeq(RequestKeysOf(keys)) \in Seq(RequestIDs)
<1>1. \A k \in Keys : k.kind = "request" => k.id \in requestKeys
  BY DEF Keys
<1>2. RequestKeysOf(keys) \subseteq requestKeys
  BY <1>1 DEF RequestKeysOf
<1>3. RequestKeysOf(keys) \subseteq RequestIDs
  BY <1>2 DEF StoreTyped
<1>4. SetToSeq(RequestKeysOf(keys)) \in Seq(RequestKeysOf(keys))
  BY <1>3, RequestStoreAssumption, FS_Subset, SetToSeqType
<1>5. QED
  BY <1>2, <1>3, <1>4

(***************************************************************************)
(* Every step preserves the types of the locals.                           *)
(***************************************************************************)
LEMMA StepLocal ==
  ASSUME StoreTyped, LocalTyped, OwnPlaces, Next
  PROVE  LocalTyped'
<1>a. /\ Ops \subseteq Places
      /\ {"idle", "params", "found", "pipeline", "acks", "disabled", "filter", "done"} \subseteq Places
      /\ 200 \in Codes /\ 400 \in Codes /\ 403 \in Codes /\ 404 \in Codes /\ 500 \in Codes /\ 503 \in Codes
  BY DEF Ops, Places, Codes
<1>b. \A status \in Codes :
        /\ Write(status) => writes' \in Seq(Codes)
        /\ Respond(status) => pc' \in Places /\ writes' \in Seq(Codes)
  <2>1. \A status \in Codes : Append(writes, status) \in Seq(Codes)
    BY DEF LocalTyped
  <2>2. "done" \in Places
    BY <1>a
  <2>3. QED
    BY <2>1, <2>2 DEF Respond, Write
<1>c. pc \in Places /\ writes \in Seq(Codes) /\ failed \subseteq {"redis", "acks", "disabled"}
  BY DEF LocalTyped
<1>1. CASE Begin
  BY <1>1, <1>a DEF Begin, LocalTyped
<1>2. CASE EndRequest
  <2>1. /\ requestIDs' = <<>> /\ statuses' = <<>> /\ writes' = <<>>
        /\ commands' = 0 /\ scans' = 0 /\ pc' = "idle"
    BY <1>2 DEF EndRequest
  <2>2. scans' \in 0..MaxScans /\ commands' \in 0..Len(requestIDs')
    BY <2>1, RequestStoreAssumption
  <2>3. requestIDs' \in Seq(RequestIDs) /\ statuses' \in Seq(Statuses) /\ writes' \in Seq(Codes)
    BY <2>1
  <2>4. QED
    BY <1>2, <1>a, <2>1, <2>2, <2>3 DEF EndRequest, LocalTyped
<1>3. CASE StoreResult \/ Expire
  BY <1>3 DEF StoreResult, Expire, LocalTyped
<1>4. CASE ContentSwap
  BY <1>4 DEF ContentSwap, LocalTyped
<1>5. CASE ReadParams
  <2>1. requestIDs' \in Seq(RequestIDs)
    <3>1. CASE UNCHANGED requestIDs
      BY <3>1 DEF LocalTyped
    <3>2. CASE requestIDs' = <<>>
      BY <3>2
    <3>3. CASE requestIDs' \in SeqOf(RequestIDs, MaxBody)
      <4>1. PICK m \in 0..MaxBody : requestIDs' \in [1..m -> RequestIDs]
        BY <3>3 DEF SeqOf
      <4>2. m \in Nat
        BY RequestStoreAssumption
      <4>3. QED
        BY <4>1, <4>2, SeqDef
    <3>4. QED
      BY <1>5, <3>1, <3>2, <3>3 DEF ReadParams
  <2>2. commands = 0
    BY <1>5 DEF ReadParams, OwnPlaces
  <2>3. commands' \in 0..Len(requestIDs')
    BY <1>5, <2>1, <2>2 DEF ReadParams
  <2>4. pc' \in Places /\ writes' \in Seq(Codes)
    BY <1>5, <1>a, <1>b, <1>c DEF ReadParams, LocalTyped
  <2>5. QED
    BY <1>5, <2>1, <2>3, <2>4 DEF ReadParams, LocalTyped
<1>6. CASE CheckStatus
  BY <1>6, <1>a, MoveTyped DEF CheckStatus
<1>7. CASE Scan
  <2>1. PICK keys \in SUBSET Keys : requestIDs' = requestIDs \o SetToSeq(RequestKeysOf(keys))
    BY <1>7 DEF Scan
  <2>2. SetToSeq(RequestKeysOf(keys)) \in Seq(RequestIDs)
    BY ScanTyped
  <2>3. requestIDs' \in Seq(RequestIDs)
    BY <2>1, <2>2 DEF LocalTyped
  <2>4. commands = 0
    BY <1>7 DEF Scan, OwnPlaces
  <2>5. scans' \in 0..MaxScans /\ commands' \in 0..Len(requestIDs')
    BY <1>7, <2>3, <2>4, RequestStoreAssumption DEF Scan, LocalTyped
  <2>6. pc' \in Places
    BY <1>7, <1>a DEF Scan, Ops
  <2>7. QED
    BY <1>7, <2>3, <2>5, <2>6 DEF Scan, LocalTyped
<1>8. CASE ScanFails \/ PipelineFails
  BY <1>8, <1>a, MoveTyped DEF ScanFails, PipelineFails
<1>9. CASE CheckFound \/ SendStatuses
  BY <1>9, <1>a, MoveTyped DEF CheckFound, SendStatuses
<1>10. CASE PipelineCommand
  <2>1. requestIDs[commands + 1] \in RequestIDs /\ commands' \in 0..Len(requestIDs)
    BY <1>10 DEF PipelineCommand, LocalTyped
  <2>2. \A id \in RequestIDs, valid \in BOOLEAN : Status(id, valid) \in Statuses
    BY DEF Status, Statuses
  <2>3. statuses' \in Seq(Statuses)
    <3>1. \A status \in Statuses : Append(statuses, status) \in Seq(Statuses)
      BY DEF LocalTyped
    <3>2. \/ statuses' = statuses
          \/ \E valid \in BOOLEAN : statuses' = Append(statuses, Status(requestIDs[commands + 1], valid))
      BY <1>10 DEF PipelineCommand, AddStatus
    <3>3. QED
      BY <2>1, <2>2, <3>1, <3>2 DEF LocalTyped
  <2>4. QED
    BY <1>10, <2>1, <2>3 DEF PipelineCommand, LocalTyped
<1>11. CASE ReadRuleHits
  <2>1. requestID \in DOMAIN reports => RuleIDsIn(reports[requestID]) \subseteq Rules
    BY ReportsType DEF StoreTyped, RuleIDsIn
  <2>2. ruleHits' \subseteq Rules
    BY <1>11, <2>1 DEF ReadRuleHits, LocalTyped
  <2>3. pc' \in Places /\ writes' \in Seq(Codes) /\ failed' \subseteq {"redis", "acks", "disabled"}
    <3>1. CASE pc' = "acks" /\ UNCHANGED <<failed, writes>>
      BY <1>a, <1>c, <3>1
    <3>2. CASE Respond(404) /\ UNCHANGED failed
      BY <1>a, <1>b, <1>c, <3>2
    <3>3. CASE Fail("redis", 500)
      BY <1>a, <1>b, <1>c, <3>3 DEF Fail
    <3>4. QED
      BY <1>11, <3>1, <3>2, <3>3 DEF ReadRuleHits
  <2>4. QED
    BY <1>11, <2>2, <2>3 DEF ReadRuleHits, LocalTyped
<1>12. CASE ReadAcks
  <2>1. pc' \in Places /\ writes' \in Seq(Codes) /\ failed' \subseteq {"redis", "acks", "disabled"}
    <3>1. CASE pc' = "disabled" /\ UNCHANGED <<failed, writes>>
      BY <1>a, <1>c, <3>1
    <3>2. CASE Fail("acks", 500)
      BY <1>a, <1>b, <1>c, <3>2 DEF Fail
    <3>3. QED
      BY <1>12, <3>1, <3>2 DEF ReadAcks
  <2>2. QED
    BY <1>12, <2>1 DEF ReadAcks, LocalTyped
<1>13. CASE ReadDisabled
  BY <1>13, <1>a DEF ReadDisabled, LocalTyped
<1>14. CASE ReadDisabledFails
  <2>1. writes \o <<503, 500>> \in Seq(Codes)
    BY <1>a DEF LocalTyped
  <2>2. pc' \in Places /\ writes' \in Seq(Codes)
    <3>1. CASE writes' = writes \o <<503, 500>> /\ pc' = "done"
      BY <1>a, <2>1, <3>1
    <3>2. CASE Write(500) /\ pc' = "filter"
      BY <1>a, <1>b, <3>2
    <3>3. CASE \E status \in {400, 500} : Respond(status)
      BY <1>a, <1>b, <3>3
    <3>4. QED
      BY <1>14, <3>1, <3>2, <3>3 DEF ReadDisabledFails
  <2>3. QED
    BY <1>14, <2>2 DEF ReadDisabledFails, LocalTyped
<1>15. CASE FilterRule
  BY <1>15 DEF FilterRule, LocalTyped
<1>16. CASE SendReport
  BY <1>16, <1>a, MoveTyped DEF SendReport
<1>17. QED
  BY <1>1, <1>2, <1>3, <1>4, <1>5, <1>6, <1>7, <1>8, <1>9, <1>10, <1>11, <1>12, <1>13, <1>14,
     <1>15, <1>16, Steps DEF HandlerStep

(***************************************************************************)
(* Every step takes a request to a place of its endpoint, and the results  *)
(* of a loop are empty before it.                                          *)
(***************************************************************************)
LEMMA StepPlaces ==
  ASSUME LocalTyped, OwnPlaces, Next
  PROVE  OwnPlaces'
<1> USE DEF OwnPlaces, Ops
<1>1. CASE Begin
  BY <1>1 DEF Begin
<1>2. CASE EndRequest
  BY <1>2 DEF EndRequest
<1>3. CASE StoreResult \/ Expire
  BY <1>3 DEF StoreResult, Expire
<1>4. CASE ContentSwap
  BY <1>4 DEF ContentSwap
<1>5. CASE ReadParams
  BY <1>5 DEF ReadParams, Respond, LocalTyped
<1>6. CASE CheckStatus
  BY <1>6 DEF CheckStatus, Respond, Fail
<1>7. CASE Scan \/ ScanFails
  BY <1>7 DEF Scan, ScanFails, Respond, Fail
<1>8. CASE CheckFound
  BY <1>8 DEF CheckFound, Respond
<1>9. CASE PipelineCommand \/ PipelineFails \/ SendStatuses
  BY <1>9 DEF PipelineCommand, PipelineFails, SendStatuses, Respond, Fail
<1>10. CASE ReadRuleHits \/ ReadAcks
  BY <1>10 DEF ReadRuleHits, ReadAcks, Respond, Fail
<1>11. CASE ReadDisabled \/ ReadDisabledFails
  BY <1>11 DEF ReadDisabled, ReadDisabledFails, Respond
<1>12. CASE FilterRule \/ SendReport
  BY <1>12 DEF FilterRule, SendReport, Respond
<1>13. QED
  BY <1>1, <1>2, <1>3, <1>4, <1>5, <1>6, <1>7, <1>8, <1>9, <1>10, <1>11, <1>12, Steps
     DEF HandlerStep

(***************************************************************************)
(* The state of the store, of the content and of a request keep their      *)
(* types, and what was there throughout a request is there.                *)
(***************************************************************************)
THEOREM TypeCorrect == Spec => [](TypeOK /\ StoreTyped /\ LocalTyped /\ OwnPlaces)
<1> DEFINE Inv == StoreTyped /\ LocalTyped /\ OwnPlaces
<1>1. Init => Inv
  <2> SUFFICES ASSUME Init PROVE Inv
    OBVIOUS
  <2>1. /\ requestKeys = {} /\ reports = NoReports /\ seen = {} /\ held = {} /\ changes = 0
        /\ requestIDs = <<>> /\ statuses = <<>> /\ writes = <<>>
        /\ commands = 0 /\ scans = 0 /\ pc = "idle" /\ op = "status" /\ requestID \in RequestIDs
    BY DEF Init
  <2>2. DOMAIN NoReports = {} /\ NoReports \in Reports
    BY ReportsType DEF NoReports
  <2>3. Keys = {}
    BY <2>1, <2>2 DEF Keys
  <2>4. StoreTyped
    BY <2>1, <2>2, <2>3, RequestStoreAssumption DEF StoreTyped, StoreHistory
  <2>5. scans \in 0..MaxScans /\ commands \in 0..Len(requestIDs)
    BY <2>1, RequestStoreAssumption
  <2>6. requestIDs \in Seq(RequestIDs) /\ statuses \in Seq(Statuses) /\ writes \in Seq(Codes)
    BY <2>1
  <2>7. pc \in Places /\ op \in Ops
    BY <2>1 DEF Places, Ops
  <2>8. LocalTyped
    BY <2>1, <2>5, <2>6, <2>7 DEF Init, LocalTyped
  <2>9. OwnPlaces
    BY <2>1 DEF Init, OwnPlaces, Ops
  <2>10. QED
    BY <2>4, <2>8, <2>9
<1>2. Inv /\ [Next]_vars => Inv'
  <2> SUFFICES ASSUME Inv, [Next]_vars PROVE Inv'
    OBVIOUS
  <2>1. CASE Next
    BY <2>1, StepStore, StepLocal, StepPlaces
  <2>2. CASE UNCHANGED vars
    BY <2>2 DEF StoreTyped, StoreHistory, Keys, LocalTyped, OwnPlaces
  <2>3. QED
    BY <2>1, <2>2
<1>3. Inv => TypeOK
  <2> SUFFICES ASSUME Inv PROVE TypeOK
    OBVIOUS
  <2>1. pc \in Ops \cup {"idle", "params", "found", "pipeline", "acks", "disabled", "filter", "done"}
    BY DEF LocalTyped, Places, Ops
  <2>2. statuses \in Seq([id : RequestIDs, valid : BOOLEAN]) /\ writes \in Seq({200, 400, 403, 404, 500, 503})
    BY DEF LocalTyped, Statuses, Codes
  <2>3. QED
    BY <2>1, <2>2 DEF StoreTyped, StoreHistory, LocalTyped, TypeOK
<1>4. QED
  BY <1>1, <1>2, <1>3, PTL DEF Spec

-------------------------------------------------------------------------------
(***************************************************************************)
(* The first response after a failed call is an error, and there is a      *)
(* second one only if the disabled rules could not be read.                *)
(***************************************************************************)
LEMMA StepAnswers ==
  ASSUME LocalTyped, SoFar, FailureDecidesStatus, Next
  PROVE  SoFar' /\ FailureDecidesStatus'
<1> USE DEF SoFar, FailureDecidesStatus
<1>1. ASSUME NEW status \in Codes, Respond(status), pc \notin {"filter", "done"},
             UNCHANGED failed \/ (status >= 400 /\ failed' # {})
      PROVE  SoFar' /\ FailureDecidesStatus'
  <2>1. writes = <<>> /\ failed = {} /\ Append(<<>>, status) = <<status>>
    BY <1>1
  <2>2. pc' = "done" /\ writes' = <<status>>
    BY <1>1, <2>1 DEF Respond, Write
  <2>3. writes' # <<>> /\ writes'[1] = status /\ Len(writes') = 1
    BY <2>2
  <2>4. failed' # {} => status >= 400
    BY <1>1, <2>1
  <2>5. QED
    BY <2>2, <2>3, <2>4
<1>2. 200 \in Codes /\ 400 \in Codes /\ 403 \in Codes /\ 404 \in Codes /\ 500 \in Codes /\ 503 \in Codes
  BY DEF Codes
<1>3. CASE Begin
  BY <1>3 DEF Begin
<1>4. CASE EndRequest
  BY <1>4 DEF EndRequest
<1>5. CASE StoreResult \/ Expire \/ ContentSwap
  BY <1>5 DEF StoreResult, Expire, ContentSwap
<1>6. CASE ReadParams
  <2>1. CASE \E status \in {400, 403, 500} : Respond(status)
    BY <1>1, <1>2, <1>6, <2>1 DEF ReadParams
  <2>2. CASE pc' = op /\ UNCHANGED writes
    BY <1>6, <2>2 DEF ReadParams, LocalTyped, Ops
  <2>3. QED
    BY <1>6, <2>1, <2>2 DEF ReadParams
<1>7. CASE CheckStatus
  BY <1>1, <1>2, <1>7 DEF CheckStatus, Fail
<1>8. CASE Scan \/ PipelineCommand
  BY <1>8 DEF Scan, PipelineCommand
<1>9. CASE ScanFails \/ PipelineFails
  BY <1>1, <1>2, <1>9 DEF ScanFails, PipelineFails, Fail
<1>10. CASE CheckFound \/ SendStatuses
  <2>1. CASE pc' = "pipeline" /\ UNCHANGED writes
    BY <1>10, <2>1 DEF CheckFound, SendStatuses
  <2>2. CASE Respond(404) \/ Respond(200)
    BY <1>1, <1>2, <1>10, <2>2 DEF CheckFound, SendStatuses
  <2>3. QED
    BY <1>10, <2>1, <2>2 DEF CheckFound, SendStatuses
<1>11. CASE ReadRuleHits
  <2>1. CASE pc' = "acks" /\ UNCHANGED <<failed, writes>>
    BY <1>11, <2>1 DEF ReadRuleHits
  <2>2. CASE (Respond(404) /\ UNCHANGED failed) \/ Fail("redis", 500)
    BY <1>1, <1>2, <1>11, <2>2 DEF ReadRuleHits, Fail
  <2>3. QED
    BY <1>11, <2>1, <2>2 DEF ReadRuleHits
<1>12. CASE ReadAcks
  <2>1. CASE pc' = "disabled" /\ UNCHANGED <<failed, writes>>
    BY <1>12, <2>1 DEF ReadAcks
  <2>2. CASE Fail("acks", 500)
    BY <1>1, <1>2, <1>12, <2>2 DEF ReadAcks, Fail
  <2>3. QED
    BY <1>12, <2>1, <2>2 DEF ReadAcks
<1>13. CASE ReadDisabled
  BY <1>13 DEF ReadDisabled
<1>14. CASE ReadDisabledFails
  <2>1. writes = <<>> /\ failed = {} /\ pc = "disabled" /\ failed' = {"disabled"}
    BY <1>14 DEF ReadDisabledFails
  <2>2. CASE writes' = writes \o <<503, 500>> /\ pc' = "done"
    <3>1. <<>> \o <<503, 500>> = <<503, 500>>
      OBVIOUS
    <3>2. writes' # <<>> /\ writes'[1] = 503
      BY <2>1, <2>2, <3>1
    <3>3. QED
      BY <2>1, <2>2, <3>2
  <2>3. CASE Write(500) /\ pc' = "filter"
    <3>1. Append(<<>>, 500) = <<500>>
      OBVIOUS
    <3>2. writes' = <<500>>
      BY <2>1, <2>3, <3>1 DEF Write
    <3>3. QED
      BY <2>1, <2>3, <3>2
  <2>4. CASE \E status \in {400, 500} : Respond(status)
    BY <1>1, <1>2, <2>1, <2>4
  <2>5. QED
    BY <1>14, <2>2, <2>3, <2>4 DEF ReadDisabledFails
<1>15. CASE FilterRule
  BY <1>15 DEF FilterRule
<1>16. CASE SendReport
  <2>1. pc = "filter" /\ pc' = "done" /\ writes' = Append(writes, 200) /\ failed' = failed
    BY <1>16 DEF SendReport, Respond, Write
  <2>2. CASE writes = <<>> /\ failed = {}
    <3>1. Append(<<>>, 200) = <<200>>
      OBVIOUS
    <3>2. writes' # <<>> /\ Len(writes') = 1
      BY <2>1, <2>2, <3>1
    <3>3. QED
      BY <2>1, <2>2, <3>2
  <2>3. CASE writes = <<500>> /\ failed = {"disabled"}
    <3>1. <<500>> \in Seq(Nat) /\ Len(<<500>>) = 1 /\ <<500>>[1] = 500
      OBVIOUS
    <3>2. Append(<<500>>, 200) # <<>> /\ Append(<<500>>, 200)[1] = 500
      BY <3>1, AppendProperties
    <3>3. writes' # <<>> /\ writes'[1] = 500
      BY <2>1, <2>3, <3>2
    <3>4. QED
      BY <2>1, <2>3, <3>3
  <2>4. QED
    BY <2>1, <2>2, <2>3
<1>17. QED
  BY <1>3, <1>4, <1>5, <1>6, <1>7, <1>8, <1>9, <1>10, <1>11, <1>12, <1>13, <1>14, <1>15, <1>16,
     Steps DEF HandlerStep

(***************************************************************************)
(* A failed call of Redis or of the aggregator decides the status that the *)
(* client sees.                                                            *)
(***************************************************************************)
THEOREM FailureDecides == Spec => []FailureDecidesStatus
<1>1. Init => SoFar /\ FailureDecidesStatus
  BY DEF Init, SoFar, FailureDecidesStatus
<1>2. (TypeOK /\ StoreTyped /\ LocalTyped /\ OwnPlaces) /\ (SoFar /\ FailureDecidesStatus)
        /\ [Next]_vars => (SoFar /\ FailureDecidesStatus)'
  <2> SUFFICES ASSUME LocalTyped, SoFar, FailureDecidesStatus, [Next]_vars
               PROVE  (SoFar /\ FailureDecidesStatus)'
    OBVIOUS
  <2>1. CASE Next
    BY <2>1, StepAnswers
  <2>2. CASE UNCHANGED vars
    BY <2>2 DEF SoFar, FailureDecidesStatus
  <2>3. QED
    BY <2>1, <2>2
<1>3. QED
  BY <1>1, <1>2, TypeCorrect, PTL DEF Spec

-------------------------------------------------------------------------------
(***************************************************************************)
(* The response is 200 only after one of the three steps that send data.   *)
(***************************************************************************)
LEMMA AnsweredOK ==
  ASSUME LocalTyped, SoFar, Next, Answered(200)'
  PROVE  CheckStatus \/ SendStatuses \/ SendReport
<1> SUFFICES ASSUME ~CheckStatus, ~SendStatuses, ~SendReport PROVE FALSE
  OBVIOUS
<1>1. pc' = "done" /\ writes' # <<>> /\ writes'[1] = 200
  BY DEF Answered
<1>2. ASSUME NEW status \in Codes, Respond(status), pc \notin {"filter", "done"}, status # 200
      PROVE  FALSE
  <2>1. writes = <<>> /\ Append(<<>>, status) = <<status>>
    BY <1>2 DEF SoFar
  <2>2. writes' = <<status>>
    BY <1>2, <2>1 DEF Respond, Write
  <2>3. QED
    BY <1>1, <1>2, <2>2
<1>3. 400 \in Codes /\ 403 \in Codes /\ 404 \in Codes /\ 500 \in Codes /\ 503 \in Codes
  BY DEF Codes
<1>4. CASE Begin \/ EndRequest
  BY <1>1, <1>4 DEF Begin, EndRequest
<1>5. CASE StoreResult \/ Expire \/ ContentSwap
  BY <1>1, <1>5 DEF StoreResult, Expire, ContentSwap, Changing
<1>6. CASE ReadParams
  BY <1>1, <1>2, <1>3, <1>6 DEF ReadParams, LocalTyped, Ops
<1>7. CASE Scan \/ PipelineCommand \/ FilterRule \/ ReadDisabled
  BY <1>1, <1>7 DEF Scan, PipelineCommand, FilterRule, ReadDisabled
<1>8. CASE ScanFails \/ PipelineFails
  BY <1>2, <1>3, <1>8 DEF ScanFails, PipelineFails, Fail
<1>9. CASE CheckFound
  BY <1>1, <1>2, <1>3, <1>9 DEF CheckFound
<1>10. CASE ReadRuleHits \/ ReadAcks
  BY <1>1, <1>2, <1>3, <1>10 DEF ReadRuleHits, ReadAcks, Fail
<1>11. CASE ReadDisabledFails
  <2>1. CASE writes' = writes \o <<503, 500>>
    <3>1. writes = <<>>
      BY <1>11 DEF ReadDisabledFails, SoFar
    <3>2. <<>> \o <<503, 500>> = <<503, 500>>
      OBVIOUS
    <3>3. writes' = <<503, 500>>
      BY <2>1, <3>1, <3>2
    <3>4. QED
      BY <1>1, <3>3
  <2>2. QED
    BY <1>1, <1>2, <1>3, <1>11, <2>1 DEF ReadDisabledFails
<1>12. QED
  BY <1>4, <1>5, <1>6, <1>7, <1>8, <1>9, <1>10, <1>11, Steps DEF HandlerStep

(***************************************************************************)
(* During a request, what was there throughout can only become less and    *)
(* what was there at some time only more.                                  *)
(***************************************************************************)
LEMMA HistoryMonotone ==
  ASSUME Next, ~Begin, ~EndRequest
  PROVE  held' \subseteq held /\ seen \subseteq seen' /\ UNCHANGED request
<1>1. CASE StoreResult \/ Expire \/ ContentSwap
  BY <1>1 DEF StoreResult, Expire, ContentSwap
<1>2. QED
  BY <1>1, Steps

(***************************************************************************)
(* The SCAN calls collect IDs of keys that are there, and the last one     *)
(* leaves out none that was there throughout.                              *)
(***************************************************************************)
LEMMA StepCollected ==
  ASSUME StoreTyped, LocalTyped, OwnPlaces, Collected, Next
  PROVE  Collected'
<1>1. CASE Begin
  <2>1. requestIDs' = <<>> /\ pc' = "params" /\ Len(<<>>) = 0
    BY <1>1 DEF Begin, OwnPlaces
  <2>2. 1..Len(requestIDs') = {}
    BY <2>1
  <2>3. QED
    BY <2>1, <2>2 DEF Collected
<1>2. CASE EndRequest
  <2>1. requestIDs' = <<>> /\ pc' = "idle" /\ Len(<<>>) = 0
    BY <1>2 DEF EndRequest
  <2>2. 1..Len(requestIDs') = {}
    BY <2>1
  <2>3. QED
    BY <2>1, <2>2 DEF Collected
<1>3. CASE Scan
  <2>1. PICK keys \in SUBSET Keys, last \in BOOLEAN :
          /\ requestIDs' = requestIDs \o SetToSeq(RequestKeysOf(keys))
          /\ last => {k.id : k \in {key \in held : key.kind = "request"}} \subseteq ToSet(requestIDs')
          /\ pc' = IF last THEN "found" ELSE "list"
    BY <1>3 DEF Scan
  <2> DEFINE more == SetToSeq(RequestKeysOf(keys))
  <2>2. UNCHANGED <<request, history, store>>
    BY <1>3 DEF Scan
  <2>3. more \in Seq(RequestIDs) /\ more \in Seq(requestKeys) /\ requestIDs \in Seq(RequestIDs)
    BY ScanTyped DEF LocalTyped
  <2>4. requestIDs' \in Seq(RequestIDs)
    BY <2>1, <2>3
  <2>5. op = "list"
    BY <1>3 DEF Scan, OwnPlaces, Ops
  <2>6. ASSUME NEW i \in 1..Len(requestIDs')
        PROVE  Key(requestIDs'[i], "request") \in seen'
    <3>1. CASE i \in 1..Len(requestIDs)
      <4>1. requestIDs'[i] = requestIDs[i]
        BY <2>1, <2>3, <3>1
      <4>2. QED
        BY <2>2, <2>5, <3>1, <4>1 DEF Collected
    <3>2. CASE i \notin 1..Len(requestIDs)
      <4>1. i - Len(requestIDs) \in 1..Len(more) /\ requestIDs'[i] = more[i - Len(requestIDs)]
        BY <2>1, <2>3, <3>2
      <4>2. requestIDs'[i] \in requestKeys
        BY <2>3, <4>1
      <4>3. Key(requestIDs'[i], "request") \in Keys
        BY <4>2, KeyPresent
      <4>4. QED
        BY <2>2, <4>3 DEF StoreTyped, StoreHistory
    <3>3. QED
      BY <3>1, <3>2
  <2>7. ASSUME last, NEW id \in RequestIDs, Key(id, "request") \in held'
        PROVE  \E i \in 1..Len(requestIDs') : requestIDs'[i] = id
    <3>1. id \in {k.id : k \in {key \in held : key.kind = "request"}}
      BY <2>2, <2>7 DEF Key
    <3>2. id \in ToSet(requestIDs')
      BY <2>1, <2>7, <3>1
    <3>3. QED
      BY <2>4, <3>2 DEF ToSet
  <2>8. pc' \in {"found", "pipeline"} => last
    BY <2>1
  <2>9. QED
    BY <2>6, <2>7, <2>8 DEF Collected
<1>4. CASE ReadParams
  <2>1. op = "list" => requestIDs' = <<>>
    BY <1>4 DEF ReadParams, OwnPlaces
  <2>2. op = "list" => 1..Len(requestIDs') = {}
    BY <2>1
  <2>3. pc' \notin {"found", "pipeline"}
    BY <1>4 DEF ReadParams, Respond, LocalTyped, Ops
  <2>4. QED
    BY <1>4, <2>2, <2>3 DEF ReadParams, Collected
<1>5. ASSUME UNCHANGED requestIDs, held' \subseteq held, seen \subseteq seen', UNCHANGED request,
             pc' \in {"found", "pipeline"} /\ op = "list" => pc \in {"found", "pipeline"}
      PROVE  Collected'
  BY <1>5 DEF Collected
<1>6. CASE UNCHANGED requestIDs /\ ~Begin /\ ~EndRequest
  <2>1. held' \subseteq held /\ seen \subseteq seen' /\ UNCHANGED request
    BY <1>6, HistoryMonotone
  <2>2. CASE CheckFound
    BY <1>5, <1>6, <2>1, <2>2 DEF CheckFound, OwnPlaces, Ops
  <2>3. CASE pc' = pc \/ pc' \notin {"found", "pipeline"}
    BY <1>5, <1>6, <2>1, <2>3
  <2>4. StoreResult \/ Expire \/ ContentSwap \/ PipelineCommand \/ FilterRule => pc' = pc
    BY DEF StoreResult, Expire, ContentSwap, PipelineCommand, FilterRule
  <2>5. CheckStatus \/ ScanFails \/ PipelineFails \/ SendStatuses \/ SendReport
          => pc' \notin {"found", "pipeline"}
    BY DEF CheckStatus, ScanFails, PipelineFails, SendStatuses, SendReport, Respond, Fail
  <2>6. ReadRuleHits \/ ReadAcks \/ ReadDisabled \/ ReadDisabledFails
          => pc' \notin {"found", "pipeline"}
    BY DEF ReadRuleHits, ReadAcks, ReadDisabled, ReadDisabledFails, Respond, Fail
  <2>7. QED
    BY <1>3, <1>4, <1>6, <2>2, <2>3, <2>4, <2>5, <2>6, Steps DEF HandlerStep
<1>7. QED
  BY <1>1, <1>2, <1>3, <1>4, <1>6, Steps
     DEF StoreResult, Expire, ContentSwap, HandlerStep, CheckStatus, ScanFails, CheckFound,
         PipelineCommand, PipelineFails, SendStatuses, ReadRuleHits, ReadAcks, ReadDisabled,
         ReadDisabledFails, FilterRule, SendReport

(***************************************************************************)
(* One command of the pipeline finds the hash of its ID if that was there  *)
(* throughout, and only if it was there at some time.                      *)
(***************************************************************************)
LEMMA CommandOutcome ==
  ASSUME StoreTyped, LocalTyped, PipelineCommand
  PROVE  LET id == requestIDs[commands + 1] IN
         /\ commands + 1 \in 1..Len(requestIDs) /\ commands' = commands + 1 /\ id \in RequestIDs
         /\ UNCHANGED <<requestIDs, held, seen, request, pc>>
         /\ \/ statuses' = Append(statuses, Status(id, TRUE)) /\ Key(id, "reports") \in seen
            \/ /\ statuses' = IF op = "post" THEN Append(statuses, Status(id, FALSE)) ELSE statuses
               /\ Key(id, "reports") \notin held
<1> DEFINE id == requestIDs[commands + 1]
<1>1. /\ commands + 1 \in 1..Len(requestIDs) /\ commands' = commands + 1 /\ id \in RequestIDs
      /\ UNCHANGED <<requestIDs, held, seen, request, pc>>
  BY DEF PipelineCommand, LocalTyped
<1>2. statuses' = AddStatus(statuses, id)
  BY DEF PipelineCommand
<1>3. Key(id, "reports") \in Keys <=> id \in DOMAIN reports
  BY KeyPresent
<1>4. CASE id \in DOMAIN reports
  BY <1>1, <1>2, <1>3, <1>4 DEF AddStatus, StoreTyped, StoreHistory
<1>5. CASE id \notin DOMAIN reports
  BY <1>1, <1>2, <1>3, <1>5 DEF AddStatus, StoreTyped, StoreHistory
<1>6. QED
  BY <1>4, <1>5

(***************************************************************************)
(* The results of the pipeline grow at the end only.                       *)
(***************************************************************************)
LEMMA AppendStatus ==
  ASSUME LocalTyped, NEW id \in RequestIDs, NEW valid \in BOOLEAN
  PROVE  LET longer == Append(statuses, Status(id, valid)) IN
         /\ Len(statuses) \in Nat
         /\ Len(longer) = Len(statuses) + 1
         /\ \A j \in 1..Len(statuses) : longer[j] = statuses[j]
         /\ longer[Len(statuses) + 1].id = id
         /\ longer[Len(statuses) + 1].valid = valid
<1>1. statuses \in Seq(Statuses) /\ Status(id, valid) \in Statuses
  BY DEF LocalTyped, Statuses, Status
<1>2. Status(id, valid).id = id /\ Status(id, valid).valid = valid
  BY DEF Status
<1>3. QED
  BY <1>1, <1>2, AppendProperties

(***************************************************************************)
(* The steps after which the commands of a pipeline are executed: its      *)
(* start, its commands, and what happens beside the handler.               *)
(***************************************************************************)
LEMMA IntoPipeline ==
  ASSUME LocalTyped, Next, pc' = "pipeline"
  PROVE  CheckFound \/ PipelineCommand \/ (pc = "pipeline" /\ UNCHANGED <<commands, requestIDs, statuses>>)
<1>1. ~Begin /\ ~EndRequest
  BY DEF Begin, EndRequest
<1>2. StoreResult \/ Expire \/ ContentSwap => pc = "pipeline" /\ UNCHANGED <<commands, requestIDs, statuses>>
  BY DEF StoreResult, Expire, ContentSwap
<1>3. ~ReadParams
  BY DEF ReadParams, Respond, LocalTyped, Ops
<1>4. ~CheckStatus /\ ~Scan /\ ~ScanFails /\ ~PipelineFails /\ ~SendStatuses /\ ~SendReport
  BY DEF CheckStatus, Scan, ScanFails, PipelineFails, SendStatuses, SendReport, Respond, Fail
<1>5. ~ReadRuleHits /\ ~ReadAcks /\ ~ReadDisabled /\ ~ReadDisabledFails
  BY DEF ReadRuleHits, ReadAcks, ReadDisabled, ReadDisabledFails, Respond, Fail
<1>6. FilterRule => pc = "pipeline" /\ UNCHANGED <<commands, requestIDs, statuses>>
  BY DEF FilterRule
<1>7. QED
  BY <1>1, <1>2, <1>3, <1>4, <1>5, <1>6, Steps DEF HandlerStep

(***************************************************************************)
(* The pipeline of a list keeps an ID whose hash was there throughout, and *)
(* adds none whose keys were never there.                                  *)
(***************************************************************************)
LEMMA StepList ==
  ASSUME StoreTyped, LocalTyped, OwnPlaces, Collected, ListProgress, Next
  PROVE  ListProgress'
<1> SUFFICES ASSUME op' = "list", pc' = "pipeline"
             PROVE  /\ \A i \in 1..commands' :
                         Key(requestIDs'[i], "reports") \in held' =>
                             \E j \in 1..Len(statuses') : statuses'[j].id = requestIDs'[i]
                    /\ \A j \in 1..Len(statuses') :
                         /\ Key(statuses'[j].id, "reports") \in seen'
                         /\ Key(statuses'[j].id, "request") \in seen'
  BY DEF ListProgress
<1>1. ~Begin /\ ~EndRequest
  BY DEF Begin, EndRequest
<1>2. held' \subseteq held /\ seen \subseteq seen' /\ op = "list"
  BY <1>1, HistoryMonotone
<1>3. CASE CheckFound
  <2>1. commands' = 0 /\ statuses' = <<>> /\ Len(<<>>) = 0
    BY <1>3 DEF CheckFound, OwnPlaces
  <2>2. 1..commands' = {} /\ 1..Len(statuses') = {}
    BY <2>1
  <2>3. QED
    BY <2>2
<1>4. CASE PipelineCommand
  <2> DEFINE id == requestIDs[commands + 1]
  <2>1. /\ commands + 1 \in 1..Len(requestIDs) /\ commands' = commands + 1 /\ id \in RequestIDs
        /\ UNCHANGED <<requestIDs, held, seen, request, pc>>
        /\ \/ statuses' = Append(statuses, Status(id, TRUE)) /\ Key(id, "reports") \in seen
           \/ statuses' = statuses /\ Key(id, "reports") \notin held
    BY <1>2, <1>4, CommandOutcome
  <2>2. /\ \A i \in 1..commands :
             Key(requestIDs[i], "reports") \in held =>
                 \E j \in 1..Len(statuses) : statuses[j].id = requestIDs[i]
        /\ \A j \in 1..Len(statuses) :
             Key(statuses[j].id, "reports") \in seen /\ Key(statuses[j].id, "request") \in seen
    BY <1>2, <2>1 DEF ListProgress
  <2>3. Key(id, "request") \in seen
    BY <1>2, <2>1 DEF Collected
  <2>4. commands \in Nat /\ \A i \in 1..commands' : i \in 1..commands \/ i = commands + 1
    BY <2>1 DEF LocalTyped
  <2>5. CASE statuses' = Append(statuses, Status(id, TRUE)) /\ Key(id, "reports") \in seen
    <3>1. /\ Len(statuses) \in Nat
          /\ Len(statuses') = Len(statuses) + 1
          /\ \A j \in 1..Len(statuses) : statuses'[j] = statuses[j]
          /\ statuses'[Len(statuses) + 1].id = id
      BY <2>1, <2>5, AppendStatus
    <3>2. \A j \in 1..Len(statuses') : j \in 1..Len(statuses) \/ j = Len(statuses) + 1
      BY <3>1
    <3>3. ASSUME NEW j \in 1..Len(statuses')
          PROVE  Key(statuses'[j].id, "reports") \in seen' /\ Key(statuses'[j].id, "request") \in seen'
      BY <2>1, <2>2, <2>3, <2>5, <3>1, <3>2
    <3>4. ASSUME NEW i \in 1..commands', Key(requestIDs'[i], "reports") \in held'
          PROVE  \E j \in 1..Len(statuses') : statuses'[j].id = requestIDs'[i]
      <4>1. CASE i \in 1..commands
        <5>1. PICK j \in 1..Len(statuses) : statuses[j].id = requestIDs[i]
          BY <2>1, <2>2, <3>4, <4>1
        <5>2. j \in 1..Len(statuses') /\ statuses'[j].id = requestIDs'[i]
          BY <2>1, <3>1, <5>1
        <5>3. QED
          BY <5>2
      <4>2. CASE i = commands + 1
        BY <2>1, <3>1, <4>2
      <4>3. QED
        BY <2>4, <4>1, <4>2
    <3>5. QED
      BY <3>3, <3>4
  <2>6. CASE statuses' = statuses /\ Key(id, "reports") \notin held
    BY <2>1, <2>2, <2>4, <2>6
  <2>7. QED
    BY <2>1, <2>5, <2>6
<1>5. CASE pc = "pipeline" /\ UNCHANGED <<commands, requestIDs, statuses>>
  BY <1>2, <1>5 DEF ListProgress
<1>6. QED
  BY <1>3, <1>4, <1>5, IntoPipeline

(***************************************************************************)
(* The pipeline of the POST variant has a result for each of its commands. *)
(***************************************************************************)
LEMMA StepPost ==
  ASSUME StoreTyped, LocalTyped, OwnPlaces, PostProgress, Next
  PROVE  PostProgress'
<1> DEFINE Kept(i) ==
             /\ statuses[i].id = requestIDs[i]
             /\ Key(requestIDs[i], "reports") \in held => statuses[i].valid
             /\ statuses[i].valid => Key(requestIDs[i], "reports") \in seen
<1> SUFFICES ASSUME op' = "post", pc' = "pipeline"
             PROVE  Len(statuses') = commands' /\ \A i \in 1..commands' : Kept(i)'
  BY DEF PostProgress
<1>1. ~Begin /\ ~EndRequest
  BY DEF Begin, EndRequest
<1>2. held' \subseteq held /\ seen \subseteq seen' /\ op = "post"
  BY <1>1, HistoryMonotone
<1>3. CASE CheckFound
  <2>1. commands' = 0 /\ statuses' = <<>> /\ Len(<<>>) = 0
    BY <1>3 DEF CheckFound, OwnPlaces
  <2>2. 1..commands' = {} /\ Len(statuses') = commands'
    BY <2>1
  <2>3. QED
    BY <2>2
<1>4. CASE PipelineCommand
  <2> DEFINE id == requestIDs[commands + 1]
  <2>1. /\ commands' = commands + 1 /\ id \in RequestIDs
        /\ UNCHANGED <<requestIDs, held, seen, request, pc>>
    BY <1>4, CommandOutcome
  <2>2. PICK valid \in BOOLEAN :
          /\ statuses' = Append(statuses, Status(id, valid))
          /\ valid => Key(id, "reports") \in seen
          /\ Key(id, "reports") \in held => valid
    BY <1>2, <1>4, CommandOutcome DEF StoreTyped, StoreHistory
  <2>3. /\ Len(statuses) = commands
        /\ \A i \in 1..commands : Kept(i)
    BY <1>2, <2>1 DEF PostProgress
  <2>4. /\ Len(statuses) \in Nat
        /\ Len(statuses') = Len(statuses) + 1
        /\ \A j \in 1..Len(statuses) : statuses'[j] = statuses[j]
        /\ statuses'[Len(statuses) + 1].id = id
        /\ statuses'[Len(statuses) + 1].valid = valid
    BY <2>1, <2>2, AppendStatus
  <2>5. Len(statuses') = commands'
    BY <2>1, <2>3, <2>4
  <2>6. \A i \in 1..commands' : i \in 1..commands \/ i = commands + 1
    BY <2>1, <2>3, <2>4
  <2>7. ASSUME NEW i \in 1..commands
        PROVE  Kept(i)'
    BY <2>1, <2>3, <2>4
  <2>8. ASSUME NEW i \in Nat, i = commands + 1
        PROVE  Kept(i)'
    BY <2>1, <2>2, <2>3, <2>4, <2>8
  <2> HIDE DEF Kept
  <2>9. QED
    BY <2>3, <2>4, <2>5, <2>6, <2>7, <2>8
<1>5. CASE pc = "pipeline" /\ UNCHANGED <<commands, requestIDs, statuses>>
  BY <1>2, <1>5 DEF PostProgress
<1>6. CheckFound \/ PipelineCommand \/ (pc = "pipeline" /\ UNCHANGED <<commands, requestIDs, statuses>>)
  BY IntoPipeline
<1> HIDE DEF Kept
<1>7. QED
  BY <1>3, <1>4, <1>5, <1>6

(***************************************************************************)
(* What is carried along the SCAN calls and the commands of the pipeline.  *)
(***************************************************************************)
LEMMA ListsFollowed ==
  Spec => [](SoFar /\ Collected /\ ListProgress /\ PostProgress)
<1> DEFINE Inv == SoFar /\ Collected /\ ListProgress /\ PostProgress
<1>1. Init => Inv
  <2> SUFFICES ASSUME Init PROVE Inv
    OBVIOUS
  <2>1. pc = "idle" /\ op = "status" /\ writes = <<>> /\ failed = {}
    BY DEF Init
  <2>2. QED
    BY <2>1 DEF SoFar, Collected, ListProgress, PostProgress
<1>2. (TypeOK /\ StoreTyped /\ LocalTyped /\ OwnPlaces) /\ FailureDecidesStatus /\ Inv /\ [Next]_vars
        => Inv'
  <2> SUFFICES ASSUME StoreTyped, LocalTyped, OwnPlaces, FailureDecidesStatus, Inv, [Next]_vars
               PROVE  Inv'
    OBVIOUS
  <2>1. CASE Next
    BY <2>1, StepAnswers, StepCollected, StepList, StepPost
  <2>2. CASE UNCHANGED vars
    BY <2>2 DEF SoFar, Collected, ListProgress, PostProgress
  <2>3. QED
    BY <2>1, <2>2
<1>3. QED
  BY <1>1, <1>2, TypeCorrect, FailureDecides, PTL DEF Spec

(***************************************************************************)
(* A list of the requests of a cluster omits none whose keys were there    *)
(* throughout, and lists none whose keys were never there, whatever is     *)
(* written or expires between the SCAN calls and the commands.             *)
(***************************************************************************)
THEOREM RequestsListed == Spec => []StoredRequestsListed
<1>1. Init => StoredRequestsListed
  BY DEF Init, StoredRequestsListed
<1>2. (TypeOK /\ StoreTyped /\ LocalTyped /\ OwnPlaces)
        /\ (SoFar /\ Collected /\ ListProgress /\ PostProgress)
        /\ StoredRequestsListed /\ [Next]_vars
        => StoredRequestsListed'
  <2> SUFFICES ASSUME StoreTyped, LocalTyped, OwnPlaces, SoFar, Collected, ListProgress,
                      StoredRequestsListed, [Next]_vars
               PROVE  StoredRequestsListed'
    OBVIOUS
  <2>1. CASE Next
    <3> SUFFICES ASSUME op' = "list", Answered(200)'
                 PROVE  LET listed == {statuses'[i].id : i \in DOMAIN statuses'} IN
                        /\ {id \in RequestIDs : \A kind \in Kinds : Key(id, kind) \in held'}
                              \subseteq listed
                        /\ \A id \in listed : \A kind \in Kinds : Key(id, kind) \in seen'
      BY DEF StoredRequestsListed, Key
    <3>1. CheckStatus \/ SendStatuses \/ SendReport
      BY <2>1, AnsweredOK
    <3>2. SendStatuses /\ op = "list"
      BY <3>1 DEF CheckStatus, SendStatuses, SendReport, OwnPlaces, Ops
    <3>3. pc = "pipeline" /\ commands = Len(requestIDs) /\ UNCHANGED <<statuses, held, seen>>
      BY <3>2 DEF SendStatuses
    <3>4. DOMAIN statuses = 1..Len(statuses)
      BY DEF LocalTyped
    <3>5. Kinds = {"request", "reports"}
      BY DEF Kinds
    <3>6. ASSUME NEW id \in RequestIDs, \A kind \in Kinds : Key(id, kind) \in held
          PROVE  \E j \in DOMAIN statuses : statuses[j].id = id
      <4>1. PICK i \in 1..Len(requestIDs) : requestIDs[i] = id
        BY <3>2, <3>3, <3>5, <3>6 DEF Collected
      <4>2. QED
        BY <3>2, <3>3, <3>4, <3>5, <3>6, <4>1 DEF ListProgress
    <3>7. ASSUME NEW j \in DOMAIN statuses
          PROVE  \A kind \in Kinds : Key(statuses[j].id, kind) \in seen
      BY <3>2, <3>3, <3>4, <3>5 DEF ListProgress
    <3>8. QED
      BY <3>3, <3>6, <3>7
  <2>2. CASE UNCHANGED vars
    BY <2>2 DEF StoredRequestsListed, Answered, Key
  <2>3. QED
    BY <2>1, <2>2
<1>3. QED
  BY <1>1, <1>2, TypeCorrect, ListsFollowed, PTL DEF Spec

(***************************************************************************)
(* The POST variant answers for each ID of the body, in its order, and an  *)
(* ID is valid if its hash was there throughout and only if it was there.  *)
(***************************************************************************)
THEOREM PostAnswered == Spec => []PostAnswersEachID
<1>1. Init => PostAnswersEachID
  BY DEF Init, PostAnswersEachID
<1>2. (TypeOK /\ StoreTyped /\ LocalTyped /\ OwnPlaces)
        /\ (SoFar /\ Collected /\ ListProgress /\ PostProgress)
        /\ PostAnswersEachID /\ [Next]_vars
        => PostAnswersEachID'
  <2> SUFFICES ASSUME StoreTyped, LocalTyped, OwnPlaces, SoFar, PostProgress,
                      PostAnswersEachID, [Next]_vars
               PROVE  PostAnswersEachID'
    OBVIOUS
  <2>1. CASE Next
    <3> SUFFICES ASSUME op' = "post", Answered(200)'
                 PROVE  /\ Len(statuses') = Len(requestIDs')
                        /\ \A i \in DOMAIN statuses' :
                              /\ statuses'[i].id = requestIDs'[i]
                              /\ Key(requestIDs'[i], "reports") \in held' => statuses'[i].valid
                              /\ statuses'[i].valid => Key(requestIDs'[i], "reports") \in seen'
      BY DEF PostAnswersEachID, Key
    <3>1. CheckStatus \/ SendStatuses \/ SendReport
      BY <2>1, AnsweredOK
    <3>2. SendStatuses /\ op = "post"
      BY <3>1 DEF CheckStatus, SendStatuses, SendReport, OwnPlaces, Ops
    <3>3. /\ pc = "pipeline" /\ commands = Len(requestIDs)
          /\ UNCHANGED <<statuses, requestIDs, held, seen>>
      BY <3>2 DEF SendStatuses
    <3>4. DOMAIN statuses = 1..Len(statuses)
      BY DEF LocalTyped
    <3>5. QED
      BY <3>2, <3>3, <3>4 DEF PostProgress
  <2>2. CASE UNCHANGED vars
    BY <2>2 DEF PostAnswersEachID, Answered, Key
  <2>3. QED
    BY <2>1, <2>2
<1>3. QED
  BY <1>1, <1>2, TypeCorrect, ListsFollowed, PTL DEF Spec

-------------------------------------------------------------------------------
(***************************************************************************)
(* A hash that was there throughout has not changed.                       *)
(***************************************************************************)
LEMMA HeldHashKept ==
  ASSUME StoreTyped, Next, ~Begin, ~EndRequest, NEW id, Key(id, "reports") \in held'
  PROVE  Key(id, "reports") \in held /\ reports'[id] = reports[id]
<1>1. Key(id, "reports") \in held
  BY HistoryMonotone
<1>2. id \in DOMAIN reports
  BY <1>1, KeyPresent DEF StoreTyped, StoreHistory
<1>3. id \in DOMAIN reports'
  BY StepStore, KeyPresent DEF StoreTyped, StoreHistory
<1>4. CASE StoreResult
  BY <1>2, <1>4 DEF StoreResult
<1>5. CASE Expire
  BY <1>2, <1>3, <1>5 DEF Expire
<1>6. CASE UNCHANGED reports
  BY <1>1, <1>6
<1>7. QED
  BY <1>1, <1>4, <1>5, <1>6, Steps DEF ContentSwap

(***************************************************************************)
(* Each rule of a report that had content throughout is still to be looked *)
(* at, shown, acknowledged or disabled.                                    *)
(***************************************************************************)
LEMMA StepFilter ==
  ASSUME StoreTyped, LocalTyped, OwnPlaces, FilterProgress, Next
  PROVE  FilterProgress'
<1> DEFINE Left == ruleHits \cup filtered \cup ackedRules \cup disabledRules
<1> DEFINE Due == (reports[requestID] \ {BadRule}) \cap stableContents
<1> SUFFICES ASSUME pc' \in {"acks", "disabled", "filter"}
             PROVE  /\ Key(requestID', "reports") \in held' => Due' \subseteq Left'
                    /\ pc' = "filter" => filtered' \cap (ackedRules' \cup disabledRules') = {}
  BY DEF FilterProgress
<1>1. ~Begin /\ ~EndRequest
  BY DEF Begin, EndRequest
<1>2. UNCHANGED requestID
  BY <1>1, HistoryMonotone
<1>3. Key(requestID', "reports") \in held' =>
        Key(requestID, "reports") \in held /\ reports'[requestID] = reports[requestID]
  BY <1>1, <1>2, HeldHashKept
<1>4. stableContents' \subseteq stableContents
  <2>1. CASE ContentSwap
    BY <2>1 DEF ContentSwap
  <2>2. QED
    BY <1>1, <2>1, Steps DEF StoreResult, Expire
<1>5. Key(requestID', "reports") \in held' => Due' \subseteq Due
  BY <1>2, <1>3, <1>4
<1>6. ASSUME pc \in {"acks", "disabled", "filter"}, pc = "filter" \/ pc' # "filter",
             UNCHANGED <<ruleHits, filtered, ackedRules, disabledRules>>
      PROVE  /\ Key(requestID', "reports") \in held' => Due' \subseteq Left'
             /\ pc' = "filter" => filtered' \cap (ackedRules' \cup disabledRules') = {}
  BY <1>3, <1>5, <1>6 DEF FilterProgress
<1>7. CASE StoreResult \/ Expire \/ ContentSwap
  BY <1>6, <1>7 DEF StoreResult, Expire, ContentSwap
<1>8. CASE ReadRuleHits
  <2>1. pc' = "acks" /\ ruleHits' = reports[requestID] \ {BadRule}
    BY <1>8 DEF ReadRuleHits, RuleIDsIn, Respond, Fail
  <2>2. QED
    BY <1>5, <2>1
<1>9. CASE ReadAcks
  <2>1. /\ pc = "acks" /\ pc' = "disabled" /\ UNCHANGED <<ruleHits, filtered, disabledRules>>
    BY <1>9 DEF ReadAcks, Respond, Fail
  <2>2. ackedRules = {}
    BY <2>1 DEF OwnPlaces
  <2>3. QED
    BY <1>3, <1>5, <2>1, <2>2 DEF FilterProgress
<1>10. CASE ReadDisabled
  <2>1. /\ pc = "disabled" /\ pc' = "filter" /\ UNCHANGED <<ruleHits, filtered, ackedRules>>
    BY <1>10 DEF ReadDisabled
  <2>2. disabledRules = {} /\ filtered = {}
    BY <2>1 DEF OwnPlaces
  <2>3. QED
    BY <1>3, <1>5, <2>1, <2>2 DEF FilterProgress
<1>11. CASE ReadDisabledFails
  BY <1>3, <1>5, <1>11 DEF ReadDisabledFails, FilterProgress, OwnPlaces, Respond
<1>12. CASE FilterRule
  <2>1. PICK rule \in ruleHits :
          /\ ruleHits' = ruleHits \ {rule}
          /\ filtered' = IF Shown(rule) THEN filtered \cup {rule} ELSE filtered
    BY <1>12 DEF FilterRule
  <2>2. UNCHANGED <<ackedRules, disabledRules, ready, contents, stableContents>> /\ pc = "filter"
    BY <1>12 DEF FilterRule
  <2>3. filtered' \cap (ackedRules' \cup disabledRules') = {}
    BY <2>1, <2>2 DEF Shown, FilterProgress
  <2>4. rule \in stableContents => rule \in filtered' \cup ackedRules \cup disabledRules
    BY <2>1 DEF Shown, LocalTyped, OwnPlaces
  <2>5. Key(requestID', "reports") \in held' => Due' \subseteq Left'
    <3>1. ASSUME Key(requestID', "reports") \in held', NEW x \in Due'
          PROVE  x \in Left'
      <4>1. x \in Left /\ x \in stableContents
        BY <1>3, <1>5, <2>2, <3>1 DEF FilterProgress
      <4>2. QED
        BY <2>1, <2>2, <2>4, <4>1
    <3>2. QED
      BY <3>1
  <2>6. QED
    BY <2>3, <2>5
<1>13. QED
  BY <1>1, <1>7, <1>8, <1>9, <1>10, <1>11, <1>12, Steps
     DEF HandlerStep, ReadParams, CheckStatus, Scan, ScanFails, CheckFound, PipelineCommand,
         PipelineFails, SendStatuses, SendReport, Respond, Fail, LocalTyped, Ops

(***************************************************************************)
(* The report of a request shows no acknowledged and no disabled rule, and *)
(* if its hash did not expire all others of its hits that had content      *)
(* throughout, whichever content update came between two lookups.          *)
(***************************************************************************)
THEOREM ReportMatches == Spec => []ReportMatchesUserData
<1>1. Init => FilterProgress /\ ReportMatchesUserData
  BY DEF Init, FilterProgress, ReportMatchesUserData
<1>2. (TypeOK /\ StoreTyped /\ LocalTyped /\ OwnPlaces)
        /\ (SoFar /\ Collected /\ ListProgress /\ PostProgress)
        /\ (FilterProgress /\ ReportMatchesUserData) /\ [Next]_vars
        => (FilterProgress /\ ReportMatchesUserData)'
  <2> SUFFICES ASSUME StoreTyped, LocalTyped, OwnPlaces, SoFar, FilterProgress,
                      ReportMatchesUserData, [Next]_vars
               PROVE  FilterProgress' /\ ReportMatchesUserData'
    OBVIOUS
  <2>1. CASE Next
    <3>1. FilterProgress'
      BY <2>1, StepFilter
    <3>2. ASSUME op' = "report", Answered(200)'
          PROVE  /\ filtered' \cap (ackedRules' \cup disabledRules') = {}
                 /\ Key(requestID', "reports") \in held'
                       => ((reports'[requestID'] \cap stableContents')
                              \ (ackedRules' \cup disabledRules')) \subseteq filtered'
      <4>1. CheckStatus \/ SendStatuses \/ SendReport
        BY <2>1, <3>2, AnsweredOK
      <4>2. SendReport
        BY <3>2, <4>1 DEF CheckStatus, SendStatuses, SendReport, OwnPlaces, Ops
      <4>3. /\ pc = "filter" /\ ruleHits = {}
            /\ UNCHANGED <<reports, requestID, stableContents, ackedRules, disabledRules, filtered, held>>
        BY <4>2 DEF SendReport
      <4>4. BadRule \notin stableContents
        BY RequestStoreAssumption DEF LocalTyped
      <4>5. QED
        BY <4>3, <4>4 DEF FilterProgress
    <3>3. QED
      BY <3>1, <3>2 DEF ReportMatchesUserData, Key
  <2>2. CASE UNCHANGED vars
    BY <2>2 DEF FilterProgress, ReportMatchesUserData, Answered, Key
  <2>3. QED
    BY <2>1, <2>2
<1>3. QED
  BY <1>1, <1>2, TypeCorrect, ListsFollowed, PTL DEF Spec
===============================================================================
