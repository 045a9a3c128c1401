-------------------------- MODULE BackgroundProofs --------------------------
(***************************************************************************)
(* Theorems about what two goroutines keep in the background for all       *)
(* requests: the rule content (ContentCache), for every set of readers,    *)
(* and the groups (Groups), for every set of handlers and number of polls. *)
(*                                                                         *)
(* Of the content, each invariant is proved from the ones before it.  Of   *)
(* the groups, ConsistentWithinPoll speaks of values that are received in  *)
(* two steps, so it rests on what the updater keeps in step                *)
(* (UpdaterConsistent) and on what a request holds between its two         *)
(* receives (RequestConsistent).                                           *)
(***************************************************************************)
EXTENDS ContentCache, Groups, FiniteSetTheorems, TLAPS

USE DEF vars, updaterVars, callVars, requestVars, condVars

-----------------------------------------------------------------------------
(***************************************************************************)
(* The variables of ContentCache keep their types.                         *)
(***************************************************************************)
THEOREM TypeCorrect == Spec => []TypeOK
<1>1. Init => TypeOK
  BY ConstantsAssumption DEF Init, TypeOK
<1>2. TypeOK /\ [Next]_vars => TypeOK'
  <2> SUFFICES ASSUME TypeOK, [Next]_vars
               PROVE  TypeOK'
    OBVIOUS
  <2> USE ConstantsAssumption DEF TypeOK
  <2>1. CASE ServiceRelease
    BY <2>1 DEF ServiceRelease
  <2>2. CASE UpdateStep \/ StopUpdateContentLoop
    BY <2>2 DEF UpdateStep, GetContentSucceeds, GetContentFails, SetRuleContentDirectory,
                LoadRuleContent, Tick, StopUpdateContentLoop
  <2>3. CASE WaiterParks
    BY <2>3 DEF WaiterParks
  <2>4. ASSUME NEW r \in Readers, BeginRequest(r)
        PROVE  TypeOK'
    BY <2>4 DEF BeginRequest
  <2>5. ASSUME NEW r \in Readers, CheckDirectory(r)
        PROVE  TypeOK'
    BY <2>5 DEF CheckDirectory
  <2>b. ASSUME NEW r \in Readers, Timeout(r)
        PROVE  TypeOK'
    <3>1. left[r] > 0 /\ left[r] \in 0..ReadsPerRequest
      BY <2>b DEF Timeout
    <3>2. /\ left' \in [Readers -> 0..ReadsPerRequest]
          /\ reader' \in [Readers ->
                          {"idle", "check", "lock", "select", "read", "done", "timedOut"}]
      <4>1. CASE goesOn[r]
        <5>1. left[r] - 1 \in 0..ReadsPerRequest /\ AfterGetter(r) \in {"done", "check"}
          BY <3>1 DEF AfterGetter
        <5>2. /\ left' = [left EXCEPT ![r] = left[r] - 1]
              /\ reader' = [reader EXCEPT ![r] = AfterGetter(r)]
          BY <2>b, <4>1 DEF Timeout
        <5>3. QED
          BY <5>1, <5>2
      <4>2. CASE ~goesOn[r]
        BY <2>b, <4>2 DEF Timeout
      <4>3. QED
        BY <4>1, <4>2
    <3>3. \A q \in Readers :
             reader'[q] \in {"check", "lock", "select", "read"} => left'[q] > 0
      BY <2>b, <3>1 DEF Timeout, AfterGetter
    <3>4. QED
      BY <2>b, <3>2, <3>3 DEF Timeout
  <2>a. ASSUME NEW r \in Readers, EndRequest(r)
        PROVE  TypeOK'
    <3>1. reads' \in [Readers -> Seq(0..MaxGeneration)]
      BY <2>a DEF EndRequest
    <3>2. QED
      BY <2>a, <3>1 DEF EndRequest
  <2>6. ASSUME NEW r \in Readers, LockAndSpawn(r)
        PROVE  TypeOK'
    BY <2>6 DEF LockAndSpawn
  <2>7. ASSUME NEW r \in Readers, ReadStorage(r)
        PROVE  TypeOK'
    <3>1. reads' \in [Readers -> Seq(0..MaxGeneration)]
      BY <2>7 DEF ReadStorage
    <3>2. QED
      BY <2>7, <3>1 DEF ReadStorage, AfterGetter
  <2>8. CASE UNCHANGED vars
    BY <2>8
  <2>9. QED
    BY <2>1, <2>2, <2>3, <2>4, <2>5, <2>a, <2>b, <2>6, <2>7, <2>8
       DEF Next, RequestStep
<1>3. QED
  BY <1>1, <1>2, PTL DEF Spec

-----------------------------------------------------------------------------
(***************************************************************************)
(* The storage the getters read is the directory fetched last, except      *)
(* between the two assignments of UpdateContent, and never runs ahead.     *)
(***************************************************************************)
THEOREM StorageFollowsDirectory == Spec => []StorageMatchesDirectory
<1>1. Init => StorageMatchesDirectory
  BY DEF Init, StorageMatchesDirectory
<1>2. TypeOK /\ StorageMatchesDirectory /\ [Next]_vars => StorageMatchesDirectory'
  <2> SUFFICES ASSUME TypeOK, StorageMatchesDirectory, [Next]_vars
               PROVE  StorageMatchesDirectory'
    OBVIOUS
  <2> USE DEF TypeOK, StorageMatchesDirectory
  <2>1. CASE ServiceRelease
    BY <2>1 DEF ServiceRelease
  <2>2. CASE UpdateStep \/ StopUpdateContentLoop
    BY <2>2 DEF UpdateStep, GetContentSucceeds, GetContentFails, SetRuleContentDirectory,
                LoadRuleContent, Tick, StopUpdateContentLoop
  <2>3. CASE WaiterParks
    BY <2>3 DEF WaiterParks
  <2>4. ASSUME NEW r \in Readers, BeginRequest(r) \/ RequestStep(r)
        PROVE  StorageMatchesDirectory'
    BY <2>4 DEF BeginRequest, RequestStep, CheckDirectory, LockAndSpawn, Timeout,
                ReadStorage, EndRequest
  <2>5. CASE UNCHANGED vars
    BY <2>5
  <2>6. QED
    BY <2>1, <2>2, <2>3, <2>4, <2>5 DEF Next
<1>3. QED
  BY <1>1, <1>2, TypeCorrect, PTL DEF Spec

-----------------------------------------------------------------------------
(***************************************************************************)
(* The mutex of the condition variable is held exactly while one spawned   *)
(* goroutine has still to release it.                                      *)
(***************************************************************************)
THEOREM LockAlwaysOwed == Spec => []LockOwedToWaiter
<1>1. Init => LockOwedToWaiter
  BY DEF Init, LockOwedToWaiter
<1>2. TypeOK /\ LockOwedToWaiter /\ [Next]_vars => LockOwedToWaiter'
  <2> SUFFICES ASSUME TypeOK, LockOwedToWaiter, [Next]_vars
               PROVE  LockOwedToWaiter'
    OBVIOUS
  <2> USE DEF TypeOK, LockOwedToWaiter
  <2>1. CASE ServiceRelease \/ UpdateStep \/ StopUpdateContentLoop
    BY <2>1 DEF ServiceRelease, UpdateStep, GetContentSucceeds, GetContentFails,
                SetRuleContentDirectory, LoadRuleContent, Tick, StopUpdateContentLoop
  <2>2. CASE WaiterParks
    BY <2>2 DEF WaiterParks
  <2>3. ASSUME NEW r \in Readers, LockAndSpawn(r)
        PROVE  LockOwedToWaiter'
    BY <2>3 DEF LockAndSpawn
  <2>4. ASSUME NEW r \in Readers,
               BeginRequest(r) \/ CheckDirectory(r) \/ Timeout(r) \/ ReadStorage(r) \/ EndRequest(r)
        PROVE  LockOwedToWaiter'
    BY <2>4 DEF BeginRequest, CheckDirectory, Timeout, ReadStorage, EndRequest
  <2>5. CASE UNCHANGED vars
    BY <2>5
  <2>6. QED
    BY <2>1, <2>2, <2>3, <2>4, <2>5 DEF Next, RequestStep
<1>3. QED
  BY <1>1, <1>2, TypeCorrect, PTL DEF Spec

-----------------------------------------------------------------------------
(***************************************************************************)
(* The directory never becomes nil again: no step of UpdateContent sets it *)
(* to an older generation.                                                 *)
(***************************************************************************)
LEMMA DirectoryGrows ==
  ASSUME TypeOK, StorageMatchesDirectory, [Next]_vars
  PROVE  directory' >= directory /\ storage' >= storage
<1> USE DEF TypeOK, StorageMatchesDirectory
<1>1. CASE ServiceRelease
  BY <1>1 DEF ServiceRelease
<1>2. CASE UpdateStep \/ StopUpdateContentLoop
  BY <1>2 DEF UpdateStep, GetContentSucceeds, GetContentFails, SetRuleContentDirectory,
              LoadRuleContent, Tick, StopUpdateContentLoop
<1>3. CASE WaiterParks
  BY <1>3 DEF WaiterParks
<1>4. ASSUME NEW r \in Readers, BeginRequest(r) \/ RequestStep(r)
      PROVE  directory' >= directory /\ storage' >= storage
  BY <1>4 DEF BeginRequest, RequestStep, CheckDirectory, LockAndSpawn, Timeout,
              ReadStorage, EndRequest
<1>5. CASE UNCHANGED vars
  BY <1>5
<1>6. QED
  BY <1>1, <1>2, <1>3, <1>4, <1>5 DEF Next

(***************************************************************************)
(* Once one getter of a request has passed                                 *)
(* WaitForContentDirectoryToBeReady, the following ones do not wait.       *)
(***************************************************************************)
THEOREM WaitsOnlyBeforeReading == Spec => []NoWaitAfterRead
<1>1. Init => NoWaitAfterRead
  BY DEF Init, NoWaitAfterRead
<1>2. TypeOK /\ StorageMatchesDirectory /\ NoWaitAfterRead /\ [Next]_vars => NoWaitAfterRead'
  <2> SUFFICES ASSUME TypeOK, StorageMatchesDirectory, NoWaitAfterRead, [Next]_vars,
                      NEW q \in Readers
               PROVE  /\ reader'[q] = "read" => directory' # 0
                      /\ reader'[q] = "done" /\ ~goesOn'[q] => directory' # 0
                      /\ reads'[q] # <<>> =>
                           /\ directory' # 0
                           /\ reader'[q] \notin {"lock", "select", "timedOut"}
    BY DEF NoWaitAfterRead
  <2> USE DEF TypeOK, NoWaitAfterRead
  <2>1. directory # 0 => directory' # 0
    <3>1. directory \in Nat /\ directory' \in Nat
      BY ConstantsAssumption DEF Next, ServiceRelease, UpdateStep, GetContentSucceeds,
           GetContentFails, SetRuleContentDirectory, LoadRuleContent, Tick,
           StopUpdateContentLoop, WaiterParks, BeginRequest, RequestStep, CheckDirectory,
           LockAndSpawn, Timeout, ReadStorage, EndRequest
    <3>2. QED
      BY <3>1, DirectoryGrows
  <2>2. CASE ServiceRelease \/ UpdateStep \/ StopUpdateContentLoop \/ WaiterParks \/ UNCHANGED vars
    <3>1. UNCHANGED <<reader, reads, goesOn>>
      BY <2>2 DEF ServiceRelease, UpdateStep, GetContentSucceeds, GetContentFails,
                  SetRuleContentDirectory, LoadRuleContent, Tick, StopUpdateContentLoop, WaiterParks
    <3>2. QED
      BY <2>1, <3>1
  <2>3. ASSUME NEW r \in Readers, BeginRequest(r)
        PROVE  /\ reader'[q] = "read" => directory' # 0
               /\ reader'[q] = "done" /\ ~goesOn'[q] => directory' # 0
               /\ reads'[q] # <<>> =>
                    /\ directory' # 0
                    /\ reader'[q] \notin {"lock", "select", "timedOut"}
    BY <2>3 DEF BeginRequest
  <2>4. ASSUME NEW r \in Readers, RequestStep(r)
        PROVE  /\ reader'[q] = "read" => directory' # 0
               /\ reader'[q] = "done" /\ ~goesOn'[q] => directory' # 0
               /\ reads'[q] # <<>> =>
                    /\ directory' # 0
                    /\ reader'[q] \notin {"lock", "select", "timedOut"}
    BY <2>4 DEF RequestStep, CheckDirectory, LockAndSpawn, Timeout, AfterGetter, ReadStorage,
                EndRequest
  <2>5. QED
    BY <2>2, <2>3, <2>4 DEF Next
<1>3. QED
  BY <1>1, <1>2, TypeCorrect, StorageFollowsDirectory, PTL DEF Spec

(***************************************************************************)
(* The getters of one request see the content move forward only.           *)
(***************************************************************************)
THEOREM ContentMovesForward == Spec => []ReadsMoveForward
<1>1. Init => ReadsMoveForward
  BY DEF Init, ReadsMoveForward
<1>2. TypeOK /\ StorageMatchesDirectory /\ ReadsMoveForward /\ [Next]_vars => ReadsMoveForward'
  <2> SUFFICES ASSUME TypeOK, StorageMatchesDirectory, ReadsMoveForward, [Next]_vars,
                      NEW q \in Readers
               PROVE  /\ \A i, j \in 1..Len(reads'[q]) : i <= j => reads'[q][i] <= reads'[q][j]
                      /\ \A i \in 1..Len(reads'[q]) : reads'[q][i] <= storage'
    BY DEF ReadsMoveForward
  <2>1. /\ storage \in Nat /\ storage' \in Nat /\ storage <= storage'
        /\ reads[q] \in Seq(Nat)
    <3>1. storage \in Nat /\ storage' \in Nat
      BY ConstantsAssumption DEF TypeOK, Next, ServiceRelease, UpdateStep, GetContentSucceeds,
           GetContentFails, SetRuleContentDirectory, LoadRuleContent, Tick,
           StopUpdateContentLoop, WaiterParks, BeginRequest, RequestStep, CheckDirectory,
           LockAndSpawn, Timeout, ReadStorage, EndRequest
    <3>2. reads[q] \in Seq(Nat)
      BY ConstantsAssumption DEF TypeOK
    <3>3. QED
      BY <3>1, <3>2, DirectoryGrows
  <2>2. CASE reads'[q] = reads[q]
    <3>1. \A i \in 1..Len(reads[q]) : reads[q][i] \in Nat /\ reads[q][i] <= storage
      BY <2>1 DEF ReadsMoveForward
    <3>2. \A i \in 1..Len(reads[q]) : reads[q][i] <= storage'
      BY <2>1, <3>1
    <3>3. QED
      BY <2>2, <3>2 DEF ReadsMoveForward
  <2>a. CASE reads'[q] = <<>>
    BY <2>a
  <2>3. CASE reads'[q] = Append(reads[q], storage) /\ storage' = storage
    BY <2>1, <2>3 DEF ReadsMoveForward
  <2>4. \/ reads'[q] = reads[q]
        \/ reads'[q] = <<>>
        \/ reads'[q] = Append(reads[q], storage) /\ storage' = storage
    BY DEF TypeOK, Next, ServiceRelease, UpdateStep, GetContentSucceeds,
           GetContentFails, SetRuleContentDirectory, LoadRuleContent, Tick,
           StopUpdateContentLoop, WaiterParks, BeginRequest, RequestStep, CheckDirectory,
           LockAndSpawn, Timeout, ReadStorage, EndRequest
  <2>5. QED
    BY <2>2, <2>a, <2>3, <2>4
<1>3. QED
  BY <1>1, <1>2, TypeCorrect, StorageFollowsDirectory, PTL DEF Spec

-----------------------------------------------------------------------------
(***************************************************************************)
(* The timed out getters leave behind at most one goroutine for a request  *)
(* whose handler gives up, and at most one for each rule hit of a request  *)
(* whose handler goes on.                                                  *)
(***************************************************************************)
THEOREM WaitersAlwaysBounded == Spec => []WaitersBounded
<1> DEFINE Waits == Readers \X (1..ReadsPerRequest)
           Bound == (started - lenient) + lenient * ReadsPerRequest
<1>1. Init => WaitersBounded
  <2> SUFFICES ASSUME Init
               PROVE  WaitersBounded
    OBVIOUS
  <2>1. AllWaitsLeft = {}
    BY DEF Init, AllWaitsLeft, WaitsLeft
  <2>2. Bound = 0
    BY ConstantsAssumption DEF Init
  <2>3. QED
    BY <2>1, <2>2, FS_EmptySet DEF Init, WaitersBounded
<1>2. TypeOK /\ WaitersBounded /\ [Next]_vars => WaitersBounded'
  <2> SUFFICES ASSUME TypeOK, WaitersBounded, [Next]_vars
               PROVE  WaitersBounded'
    OBVIOUS
  <2>1. IsFiniteSet(Waits)
    <3>1. IsFiniteSet(1..ReadsPerRequest)
      BY ConstantsAssumption, FS_Interval
    <3>2. QED
      BY <3>1, ReadersAssumption, FS_Product
  <2>2. /\ IsFiniteSet(AllWaitsLeft) /\ IsFiniteSet(AllWaitsLeft')
        /\ Cardinality(AllWaitsLeft) \in Nat /\ Cardinality(AllWaitsLeft') \in Nat
    <3>1. AllWaitsLeft \subseteq Waits /\ AllWaitsLeft' \subseteq Waits
      BY DEF AllWaitsLeft
    <3>2. QED
      BY <2>1, <3>1, FS_Subset, FS_CardinalityType
  <2>3. /\ started \in Nat /\ lenient \in Nat /\ unparked \in Nat /\ parked \in Nat
        /\ Bound \in Int
        /\ unparked + parked + Cardinality(AllWaitsLeft) <= Bound
    BY ConstantsAssumption DEF TypeOK, WaitersBounded
  <2>4. CASE UNCHANGED <<requestVars, unparked, parked>>
    BY <2>4 DEF WaitersBounded, AllWaitsLeft, WaitsLeft
  <2>5. CASE WaiterParks
    <3>1. AllWaitsLeft' = AllWaitsLeft /\ UNCHANGED <<started, lenient>>
      BY <2>5 DEF WaiterParks, AllWaitsLeft, WaitsLeft
    <3>2. QED
      BY <2>2, <2>3, <2>5, <3>1 DEF WaiterParks, WaitersBounded
  <2>6. ASSUME NEW r \in Readers, BeginRequest(r)
        PROVE  WaitersBounded'
    <3> DEFINE New == {r} \X (1..ReadsPerRequest)
    <3>1. /\ reader' = [reader EXCEPT ![r] = "check"] /\ reader[r] = "idle"
          /\ left' = [left EXCEPT ![r] = ReadsPerRequest]
          /\ UNCHANGED <<unparked, parked>>
          /\ started' = started + 1
      BY <2>6 DEF BeginRequest
    <3>2. CASE goesOn' = [goesOn EXCEPT ![r] = TRUE] /\ lenient' = lenient + 1
      <4>1. AllWaitsLeft' \subseteq AllWaitsLeft \cup New
        BY <3>1, <3>2 DEF AllWaitsLeft, WaitsLeft, TypeOK
      <4>2. IsFiniteSet(New) /\ Cardinality(New) = ReadsPerRequest
        <5>1. IsFiniteSet({r}) /\ Cardinality({r}) = 1
          BY FS_Singleton
        <5>2. IsFiniteSet(1..ReadsPerRequest) /\ Cardinality(1..ReadsPerRequest) = ReadsPerRequest
          BY ConstantsAssumption, FS_Interval
        <5>3. QED
          <6>1. /\ IsFiniteSet(New)
                /\ Cardinality(New) = Cardinality({r}) * Cardinality(1..ReadsPerRequest)
            BY <5>1, <5>2, FS_Product
          <6>2. QED
            BY <5>1, <5>2, <6>1, ConstantsAssumption
      <4>3. Cardinality(AllWaitsLeft') <= Cardinality(AllWaitsLeft) + ReadsPerRequest
        <5>1. /\ IsFiniteSet(AllWaitsLeft \cup New)
              /\ Cardinality(AllWaitsLeft \cup New)
                   = Cardinality(AllWaitsLeft) + Cardinality(New)
                       - Cardinality(AllWaitsLeft \cap New)
              /\ Cardinality(AllWaitsLeft \cap New) \in Nat
          <6>1. IsFiniteSet(AllWaitsLeft \cap New)
            BY <2>2, FS_Subset
          <6>2. QED
            BY <2>2, <4>2, <6>1, FS_Union, FS_CardinalityType
        <5>2. Cardinality(AllWaitsLeft') <= Cardinality(AllWaitsLeft \cup New)
          BY <4>1, <5>1, FS_Subset
        <5>3. QED
          BY <2>2, <4>2, <5>1, <5>2, ConstantsAssumption
      <4>4. Bound' = Bound + ReadsPerRequest
        BY <2>3, <3>1, <3>2, ConstantsAssumption
      <4>5. QED
        BY <2>2, <2>3, <3>1, <4>3, <4>4, ConstantsAssumption DEF WaitersBounded
    <3>3. CASE goesOn' = [goesOn EXCEPT ![r] = FALSE] /\ lenient' = lenient
      <4>1. AllWaitsLeft' = AllWaitsLeft \cup {<<r, 1>>}
        <5>1. /\ \A q \in Readers \ {r} : WaitsLeft(q)' = WaitsLeft(q)
              /\ WaitsLeft(r)' = {1} /\ WaitsLeft(r) = {}
          BY <3>1, <3>3 DEF WaitsLeft, TypeOK
        <5>2. 1 \in 1..ReadsPerRequest
          BY ConstantsAssumption
        <5>3. QED
          BY <5>1, <5>2 DEF AllWaitsLeft
      <4>2. Cardinality(AllWaitsLeft') <= Cardinality(AllWaitsLeft) + 1
        <5>1. Cardinality(AllWaitsLeft \cup {<<r, 1>>})
                \in {Cardinality(AllWaitsLeft), Cardinality(AllWaitsLeft) + 1}
          BY <2>2, FS_AddElement
        <5>2. QED
          BY <2>2, <4>1, <5>1
      <4>3. Bound' = Bound + 1
        BY <2>3, <3>1, <3>3, ConstantsAssumption
      <4>4. QED
        BY <2>2, <2>3, <3>1, <4>2, <4>3 DEF WaitersBounded
    <3>4. QED
      BY <2>6, <3>2, <3>3 DEF BeginRequest
  <2>7. ASSUME NEW r \in Readers, LockAndSpawn(r)
        PROVE  WaitersBounded'
    <3> DEFINE k == IF goesOn[r] THEN left[r] ELSE 1
               w == <<r, k>>
    <3>a. k \in 1..ReadsPerRequest /\ left[r] \in Nat \ {0}
      BY <2>7, ConstantsAssumption DEF LockAndSpawn, TypeOK
    <3>b. /\ \A q \in Readers \ {r} : WaitsLeft(q)' = WaitsLeft(q)
          /\ k \in WaitsLeft(r)
          /\ WaitsLeft(r)' \subseteq WaitsLeft(r) \ {k}
      <4>1. /\ reader' = [reader EXCEPT ![r] = "select"] /\ reader[r] = "lock"
            /\ UNCHANGED <<goesOn, left>>
        BY <2>7 DEF LockAndSpawn
      <4>2. \A q \in Readers \ {r} : WaitsLeft(q)' = WaitsLeft(q)
        BY <4>1 DEF WaitsLeft, TypeOK
      <4>3. CASE goesOn[r]
        <5>1. WaitsLeft(r) = 1..left[r] /\ WaitsLeft(r)' = 1..(left[r] - 1) /\ k = left[r]
          BY <4>1, <4>3 DEF WaitsLeft, TypeOK
        <5>2. QED
          BY <3>a, <4>2, <5>1
      <4>4. CASE ~goesOn[r]
        <5>1. WaitsLeft(r) = {1} /\ WaitsLeft(r)' = {} /\ k = 1
          BY <4>1, <4>4 DEF WaitsLeft, TypeOK
        <5>2. QED
          BY <4>2, <5>1
      <4>5. QED
        BY <4>3, <4>4
    <3> HIDE DEF k
    <3>1. AllWaitsLeft' \subseteq AllWaitsLeft \ {w} /\ w \in AllWaitsLeft
      BY <3>a, <3>b DEF AllWaitsLeft
    <3>2. /\ IsFiniteSet(AllWaitsLeft \ {w})
          /\ Cardinality(AllWaitsLeft \ {w}) = Cardinality(AllWaitsLeft) - 1
      BY <2>2, <3>1, FS_RemoveElement
    <3>3. Cardinality(AllWaitsLeft') <= Cardinality(AllWaitsLeft) - 1
      BY <3>1, <3>2, FS_Subset
    <3>4. unparked' = unparked + 1 /\ UNCHANGED <<parked, started, lenient>>
      BY <2>7 DEF LockAndSpawn
    <3>5. QED
      BY <2>2, <2>3, <3>3, <3>4 DEF WaitersBounded
  <2>8. ASSUME NEW r \in Readers,
               CheckDirectory(r) \/ Timeout(r) \/ ReadStorage(r) \/ EndRequest(r)
        PROVE  WaitersBounded'
    <3>1. AllWaitsLeft' \subseteq AllWaitsLeft
      <4>1. \A q \in Readers \ {r} : WaitsLeft(q)' = WaitsLeft(q)
        BY <2>8 DEF CheckDirectory, Timeout, ReadStorage, EndRequest, WaitsLeft, TypeOK
      <4>2. WaitsLeft(r)' \subseteq WaitsLeft(r)
        <5>1. CASE CheckDirectory(r) \/ EndRequest(r)
          BY <5>1 DEF CheckDirectory, EndRequest, WaitsLeft, TypeOK
        <5>2. CASE Timeout(r) \/ ReadStorage(r)
          <6>1. left[r] \in Nat \ {0}
            BY <5>2, ConstantsAssumption DEF Timeout, ReadStorage, TypeOK
          <6>2. CASE goesOn[r]
            <7>1. WaitsLeft(r) = 1..(left[r] - 1) \/ WaitsLeft(r) = 1..left[r]
              BY <5>2, <6>2 DEF Timeout, ReadStorage, WaitsLeft
            <7>2. WaitsLeft(r)' = 1..(left[r] - 1) \/ WaitsLeft(r)' = {}
              BY <5>2, <6>2 DEF Timeout, ReadStorage, AfterGetter, WaitsLeft, TypeOK
            <7>3. QED
              BY <6>1, <7>1, <7>2
          <6>3. CASE ~goesOn[r]
            BY <5>2, <6>3 DEF Timeout, ReadStorage, AfterGetter, WaitsLeft, TypeOK
          <6>4. QED
            BY <6>2, <6>3
        <5>3. QED
          BY <2>8, <5>1, <5>2
      <4>3. QED
        BY <4>1, <4>2 DEF AllWaitsLeft
    <3>2. Cardinality(AllWaitsLeft') <= Cardinality(AllWaitsLeft)
      BY <2>2, <3>1, FS_Subset
    <3>3. UNCHANGED <<started, lenient, unparked, parked>>
      BY <2>8 DEF CheckDirectory, Timeout, ReadStorage, EndRequest
    <3>4. QED
      BY <2>2, <2>3, <3>2, <3>3 DEF WaitersBounded
  <2>9. \/ UNCHANGED <<requestVars, unparked, parked>>
        \/ WaiterParks
        \/ \E r \in Readers : BeginRequest(r) \/ RequestStep(r)
    BY DEF Next, ServiceRelease, UpdateStep, GetContentSucceeds, GetContentFails,
           SetRuleContentDirectory, LoadRuleContent, Tick, StopUpdateContentLoop
  <2>10. QED
    BY <2>4, <2>5, <2>6, <2>7, <2>8, <2>9 DEF RequestStep
<1>3. QED
  BY <1>1, <1>2, TypeCorrect, PTL DEF Spec

-----------------------------------------------------------------------------
(***************************************************************************)
(* ContentCache implements PublishedContent: the readers see one published *)
(* generation, replaced as a whole and never by an older one, and are made *)
(* to wait, and so to do without a getter or to give up, only while there  *)
(* is none.                                                                *)
(***************************************************************************)
THEOREM Refinement == Spec => ImplementsPublishedContent
<1> DEFINE Client == [r \in Readers |-> ClientOf(r)]
<1>1. Init => Published!Init
  BY DEF Init, Published!Init, ClientOf
<1>2. TypeOK /\ StorageMatchesDirectory /\ [Next]_vars => [Published!Next]_Published!vars
  <2> SUFFICES ASSUME TypeOK, StorageMatchesDirectory, [Next]_vars
               PROVE  [Published!Next]_Published!vars
    OBVIOUS
  <2>1. CASE UNCHANGED <<storage, reader, reads, goesOn, left>>
    <3>1. Client' = Client
      BY <2>1 DEF ClientOf
    <3>2. QED
      BY <2>1, <3>1 DEF Published!vars
  <2>2. CASE LoadRuleContent
    <3>1. Client' = Client /\ UNCHANGED <<reads, goesOn, left>>
      BY <2>2 DEF ClientOf, LoadRuleContent
    <3>2. storage' \in Nat /\ (storage' > storage \/ storage' = storage)
      BY <2>2, ConstantsAssumption DEF LoadRuleContent, TypeOK, StorageMatchesDirectory
    <3>3. QED
      BY <3>1, <3>2 DEF Published!vars, Published!Next, Published!Publish
  <2>3. ASSUME NEW r \in Readers, BeginRequest(r)
        PROVE  Published!Ask(r)
    <3>1. Client' = [Client EXCEPT ![r] = "asking"] /\ Client[r] = "idle"
      BY <2>3 DEF ClientOf, BeginRequest, TypeOK
    <3>2. \E on \in BOOLEAN : goesOn' = [goesOn EXCEPT ![r] = on]
      BY <2>3 DEF BeginRequest
    <3>3. QED
      BY <2>3, <3>1, <3>2 DEF BeginRequest, Published!Ask
  <2>4. ASSUME NEW r \in Readers, CheckDirectory(r)
        PROVE  Published!Delay(r) \/ UNCHANGED Published!vars
    <3>1. CASE directory = 0
      <4>1. Client' = [Client EXCEPT ![r] = "waiting"] /\ Client[r] = "asking"
        BY <2>4, <3>1 DEF ClientOf, CheckDirectory, TypeOK
      <4>2. storage = 0
        BY <3>1, ConstantsAssumption DEF TypeOK, StorageMatchesDirectory
      <4>3. QED
        BY <2>4, <4>1, <4>2 DEF CheckDirectory, Published!Delay
    <3>2. CASE directory # 0
      <4>1. Client' = Client
        BY <2>4, <3>2 DEF ClientOf, CheckDirectory, TypeOK
      <4>2. QED
        BY <2>4, <4>1 DEF CheckDirectory, Published!vars
    <3>3. QED
      BY <3>1, <3>2
  <2>5. ASSUME NEW r \in Readers, LockAndSpawn(r)
        PROVE  UNCHANGED Published!vars
    <3>1. Client' = Client
      BY <2>5 DEF ClientOf, LockAndSpawn, TypeOK
    <3>2. QED
      BY <2>5, <3>1 DEF LockAndSpawn, Published!vars
  <2>6. ASSUME NEW r \in Readers, Timeout(r)
        PROVE  Published!Refuse(r) \/ Published!DoWithout(r)
    <3>1. Client[r] = "waiting"
      BY <2>6 DEF ClientOf, Timeout
    <3>2. CASE ~goesOn[r]
      <4>1. Client' = [Client EXCEPT ![r] = "refused"]
        BY <2>6, <3>2 DEF ClientOf, Timeout, TypeOK
      <4>2. QED
        BY <2>6, <3>1, <3>2, <4>1 DEF Timeout, Published!Refuse
    <3>3. CASE goesOn[r]
      <4>1. Client' = [Client EXCEPT ![r] = IF left[r] = 1 THEN "answered" ELSE "asking"]
        BY <2>6, <3>3 DEF ClientOf, Timeout, AfterGetter, TypeOK
      <4>2. QED
        BY <2>6, <3>1, <3>3, <4>1 DEF Timeout, Published!DoWithout, Published!Pass
    <3>4. QED
      BY <3>2, <3>3
  <2>7. ASSUME NEW r \in Readers, ReadStorage(r)
        PROVE  Published!Answer(r)
    <3>1. /\ Client[r] = "asking"
          /\ Client' = [Client EXCEPT ![r] =
                          IF left[r] = 1 THEN "answered" ELSE "asking"]
      BY <2>7 DEF ClientOf, ReadStorage, AfterGetter, TypeOK
    <3>2. QED
      BY <2>7, <3>1 DEF ReadStorage, Published!Answer, Published!Pass
  <2>8. ASSUME NEW r \in Readers, EndRequest(r)
        PROVE  Published!Leave(r)
    <3>1. Client' = [Client EXCEPT ![r] = "idle"] /\ Client[r] \in {"answered", "refused"}
      BY <2>8 DEF ClientOf, EndRequest, TypeOK
    <3>2. QED
      BY <2>8, <3>1 DEF EndRequest, Published!Leave
  <2>9. \/ UNCHANGED <<storage, reader, reads, goesOn, left>>
        \/ LoadRuleContent
        \/ \E r \in Readers : BeginRequest(r) \/ RequestStep(r)
    BY DEF Next, ServiceRelease, UpdateStep, GetContentSucceeds, GetContentFails,
           SetRuleContentDirectory, Tick, StopUpdateContentLoop, WaiterParks
  <2>10. QED
    BY <2>1, <2>2, <2>3, <2>4, <2>5, <2>6, <2>7, <2>8, <2>9 DEF Published!Next, RequestStep
<1>3. QED
  BY <1>1, <1>2, TypeCorrect, StorageFollowsDirectory, PTL
     DEF Spec, ImplementsPublishedContent, Published!Spec

-----------------------------------------------------------------------------
USE DEF groupsVars, groupUpdaterVars, handlerVars, groupsHistory

\* The updater polls only while the bound allows it, and its flag and its error
\* are always set together.
UpdaterConsistent ==
    /\ groupUpdater = "poll" => polls < MaxPolls
    /\ currentErrorFound <=> currentError # "nil"

\* A request that has not returned has no result, and it cannot have received
\* the flag of a poll that is still to come.
RequestConsistent ==
    \A h \in Handlers :
        /\ errorFoundAt[h] <= polls
        /\ handler[h] \in {"errorFound", "error", "groups"} => result[h] = Pending

\* What getGroupsConfig may return.
Results == [groups : {"none", "empty", "nil", "config"},
            config : 0..MaxPolls, err : Errors, at : 0..MaxPolls]

\* What a step that returns from getGroupsConfig leaves.
Returned ==
    /\ handler' \in [Handlers -> {"idle", "errorFound", "error", "groups", "done"}]
    /\ result' \in [Handlers -> Results]
    /\ RequestConsistent'

-----------------------------------------------------------------------------
(***************************************************************************)
(* The variables have their first values at the top of updateGroupInfo,    *)
(* and no request is inside getGroupsConfig.                               *)
(***************************************************************************)
LEMMA InitConsistent ==
  GroupsInit => GroupsTypeOK /\ UpdaterConsistent /\ RequestConsistent
<1> SUFFICES ASSUME GroupsInit
             PROVE  GroupsTypeOK /\ UpdaterConsistent /\ RequestConsistent
  OBVIOUS
<1> USE DEF GroupsInit
<1>1. 0 \in 0..MaxPolls
  BY MaxPollsAssumption
<1>2. Pending \in [groups : {"none", "empty", "nil", "config"},
                  config : 0..MaxPolls, err : Errors, at : 0..MaxPolls]
  BY <1>1 DEF Pending, Errors, PollErrors
<1>3. GroupsTypeOK
  BY <1>1, <1>2 DEF GroupsTypeOK, PollErrors
<1>4. UpdaterConsistent
  BY MaxPollsAssumption DEF UpdaterConsistent
<1>5. ASSUME NEW h \in Handlers
      PROVE  errorFoundAt[h] <= polls /\ result[h] = Pending
  OBVIOUS
<1> HIDE DEF GroupsInit
<1>6. QED
  BY <1>3, <1>4, <1>5 DEF RequestConsistent

(***************************************************************************)
(* A poll that returns sets flag, error and groups to agree with one       *)
(* another, whatever its outcome (handleGroupError).                       *)
(***************************************************************************)
LEMMA PollSetsAll ==
  ASSUME GroupsTypeOK, UpdaterConsistent, NEW outcome \in PollOutcomes,
         groupUpdater = "poll", HandleGroupError(outcome, polls + 1)
  PROVE  /\ currentGroups' \in 0..MaxPolls
         /\ currentErrorFound' \in BOOLEAN
         /\ currentError' \in PollErrors
         /\ currentErrorFound' <=> currentError' # "nil"
<1> USE DEF HandleGroupError
<1>1. polls + 1 \in 0..MaxPolls
  BY MaxPollsAssumption DEF GroupsTypeOK, UpdaterConsistent
<1>2. CASE outcome \in {"urlError", "decodeError"}
  <2>1. currentErrorFound' = TRUE /\ currentGroups' = currentGroups
    BY <1>2
  <2>2. currentError' \in PollErrors /\ currentError' # "nil"
    BY <1>2 DEF PollErrors
  <2>3. QED
    BY <2>1, <2>2 DEF GroupsTypeOK
<1>3. CASE outcome \notin {"urlError", "decodeError"}
  <2>1. currentErrorFound' = FALSE /\ currentError' = "nil"
    BY <1>3
  <2>2. currentGroups' \in 0..MaxPolls
    BY <1>1, <1>3, MaxPollsAssumption
  <2>3. QED
    BY <2>1, <2>2 DEF PollErrors
<1>4. QED
  BY <1>2, <1>3

(***************************************************************************)
(* What getGroupsConfig returns is well formed, and a request that returns *)
(* is done: Return preserves what is known of the requests.                *)
(***************************************************************************)
LEMMA ReturnTyped ==
  ASSUME GroupsTypeOK, RequestConsistent, NEW h \in Handlers,
         NEW groups \in {"empty", "nil", "config"}, NEW given \in 0..MaxPolls, NEW err \in Errors,
         Return(h, groups, given, err), UNCHANGED <<polls, errorFoundAt>>
  PROVE  Returned
<1>1. [groups |-> groups, config |-> given, err |-> err, at |-> polls] \in Results
  BY DEF GroupsTypeOK, Results
<1>2. handler' = [handler EXCEPT ![h] = "done"]
  BY DEF Return
<1>3. result' = [result EXCEPT ![h] =
                   [groups |-> groups, config |-> given, err |-> err, at |-> polls]]
  BY DEF Return
<1>4. result \in [Handlers -> Results]
  BY DEF GroupsTypeOK, Results
<1>5. handler \in [Handlers -> {"idle", "errorFound", "error", "groups", "done"}]
  BY DEF GroupsTypeOK
<1>6. result' \in [Handlers -> Results]
  BY <1>1, <1>3, <1>4
<1>7. handler' \in [Handlers -> {"idle", "errorFound", "error", "groups", "done"}]
  BY <1>2, <1>5
<1>8. ASSUME NEW q \in Handlers
      PROVE  /\ errorFoundAt'[q] <= polls'
             /\ handler'[q] \in {"errorFound", "error", "groups"} => result'[q] = Pending
  BY <1>2, <1>3, <1>4, <1>5 DEF RequestConsistent
<1>9. QED
  BY <1>6, <1>7, <1>8 DEF RequestConsistent, Returned

(***************************************************************************)
(* Every step of the updater and of a request preserves the types and the  *)
(* agreement of what each of them holds.                                   *)
(***************************************************************************)
LEMMA StepConsistent ==
  ASSUME GroupsTypeOK, UpdaterConsistent, RequestConsistent, [GroupsNext]_groupsVars
  PROVE  GroupsTypeOK' /\ UpdaterConsistent' /\ RequestConsistent'
<1>a. /\ Pending \in Results
      /\ 0 \in 0..MaxPolls /\ currentGroups \in 0..MaxPolls
      /\ currentError \in Errors /\ "nil" \in Errors /\ "no groups retrieved" \in Errors
  <2>1. 0 \in 0..MaxPolls
    BY MaxPollsAssumption
  <2>2. "none" \in {"none", "empty", "nil", "config"} /\ "nil" \in Errors
    BY DEF Errors, PollErrors
  <2>3. Pending \in Results
    BY <2>1, <2>2 DEF Pending, Results
  <2>4. QED
    BY <2>1, <2>2, <2>3 DEF GroupsTypeOK, Errors
<1>b. /\ \A h \in Handlers :
            Return(h, "nil", 0, currentError) /\ UNCHANGED <<polls, errorFoundAt>> => Returned
      /\ \A h \in Handlers :
            Return(h, "nil", 0, "no groups retrieved") /\ UNCHANGED <<polls, errorFoundAt>>
                => Returned
      /\ \A h \in Handlers :
            Return(h, "config", currentGroups, "nil") /\ UNCHANGED <<polls, errorFoundAt>>
                => Returned
      /\ \A h \in Handlers :
            Return(h, "empty", 0, "nil") /\ UNCHANGED <<polls, errorFoundAt>> => Returned
  BY <1>a, ReturnTyped
<1> USE MaxPollsAssumption DEF GroupsTypeOK, UpdaterConsistent, RequestConsistent
<1>1. CASE PollReturns
  <2>1. PICK outcome \in PollOutcomes :
          /\ HandleGroupError(outcome, polls + 1)
          /\ lastValid' = IF outcome = "config" THEN polls + 1 ELSE lastValid
          /\ deliveredNil' = (deliveredNil \/ outcome = "noGroups")
    BY <1>1 DEF PollReturns
  <2>2. /\ currentGroups' \in 0..MaxPolls
        /\ currentErrorFound' \in BOOLEAN
        /\ currentError' \in PollErrors
        /\ currentErrorFound' <=> currentError' # "nil"
    BY <1>1, <2>1, PollSetsAll DEF PollReturns
  <2>3. lastValid' \in 0..MaxPolls /\ deliveredNil' \in BOOLEAN
    BY <1>1, <2>1 DEF PollReturns
  <2>4. QED
    BY <1>1, <2>2, <2>3 DEF PollReturns
<1>2. CASE EnterSelect \/ PollTick
  BY <1>2 DEF EnterSelect, PollTick
<1>3. ASSUME NEW h \in Handlers, CallGetGroupsConfig(h)
      PROVE  GroupsTypeOK' /\ UpdaterConsistent' /\ RequestConsistent'
  <2>2. result' \in [Handlers -> Results]
    BY <1>3, <1>a DEF CallGetGroupsConfig, Results
  <2>3. RequestConsistent'
    BY <1>3 DEF CallGetGroupsConfig
  <2>4. QED
    BY <1>3, <2>2, <2>3 DEF CallGetGroupsConfig, Results
<1>4. ASSUME NEW h \in Handlers, ReceiveErrorFound(h)
      PROVE  GroupsTypeOK' /\ UpdaterConsistent' /\ RequestConsistent'
  BY <1>4 DEF ReceiveErrorFound, Sent
<1>5. ASSUME NEW h \in Handlers, ReceiveError(h)
      PROVE  GroupsTypeOK' /\ UpdaterConsistent' /\ RequestConsistent'
  <2>1. Return(h, "nil", 0, currentError) /\ UNCHANGED <<polls, errorFoundAt>>
    BY <1>5 DEF ReceiveError, Sent
  <2>2. Returned
    BY <2>1, <1>b
  <2>3. QED
    BY <1>5, <2>2 DEF ReceiveError, Sent, Results, Returned
<1>6. ASSUME NEW h \in Handlers, ReceiveGroups(h)
      PROVE  GroupsTypeOK' /\ UpdaterConsistent' /\ RequestConsistent'
  <2>1. \/ Return(h, "nil", 0, "no groups retrieved")
        \/ Return(h, "config", currentGroups, "nil")
    BY <1>6 DEF ReceiveGroups
  <2>2. UNCHANGED <<polls, errorFoundAt>>
    BY <1>6 DEF ReceiveGroups, Sent
  <2>3. Returned
    BY <2>1, <2>2, <1>b
  <2>4. QED
    BY <1>6, <2>3 DEF ReceiveGroups, Sent, Results, Returned
<1>7. ASSUME NEW h \in Handlers, ErrorFoundDefault(h)
      PROVE  GroupsTypeOK' /\ UpdaterConsistent' /\ RequestConsistent'
  <2>1. Return(h, "empty", 0, "nil") /\ UNCHANGED <<polls, errorFoundAt>>
    BY <1>7 DEF ErrorFoundDefault
  <2>2. Returned
    BY <2>1, <1>b
  <2>3. QED
    BY <1>7, <2>2 DEF ErrorFoundDefault, Results, Returned
<1>8. ASSUME NEW h \in Handlers, SendResponse(h)
      PROVE  GroupsTypeOK' /\ UpdaterConsistent' /\ RequestConsistent'
  BY <1>8 DEF SendResponse
<1>9. CASE UNCHANGED groupsVars
  BY <1>9
<1>10. QED
  BY <1>1, <1>2, <1>3, <1>4, <1>5, <1>6, <1>7, <1>8, <1>9 DEF GroupsNext, Receive

(***************************************************************************)
(* The variables of updateGroupInfo and of the requests keep their types,  *)
(* together with what makes that inductive.                                *)
(***************************************************************************)
THEOREM GroupsTypeCorrect == GroupsSpec => [](GroupsTypeOK /\ UpdaterConsistent /\ RequestConsistent)
<1>1. GroupsTypeOK /\ UpdaterConsistent /\ RequestConsistent /\ [GroupsNext]_groupsVars
        => (GroupsTypeOK /\ UpdaterConsistent /\ RequestConsistent)'
  BY StepConsistent
<1>2. QED
  BY InitConsistent, <1>1, PTL DEF GroupsSpec

-----------------------------------------------------------------------------
(***************************************************************************)
(* Failed polls never cost the proxy its groups: as long as the service    *)
(* has not answered without groups, updateGroupInfo offers the last        *)
(* configuration that was delivered.                                       *)
(***************************************************************************)
THEOREM GroupsKept == GroupsSpec => []LastValidKept
<1>1. GroupsInit => LastValidKept
  BY DEF GroupsInit, LastValidKept
<1>2. GroupsTypeOK /\ LastValidKept /\ [GroupsNext]_groupsVars => LastValidKept'
  <2> SUFFICES ASSUME GroupsTypeOK, LastValidKept, [GroupsNext]_groupsVars
               PROVE  LastValidKept'
    OBVIOUS
  <2>1. CASE PollReturns
    BY <2>1 DEF PollReturns, HandleGroupError, PollOutcomes, LastValidKept, GroupsTypeOK
  <2>2. CASE UNCHANGED <<currentGroups, groupsHistory>>
    BY <2>2 DEF LastValidKept
  <2>3. QED
    BY <2>1, <2>2 DEF GroupsNext, EnterSelect, PollTick, CallGetGroupsConfig, Receive, ReceiveErrorFound,
                      ReceiveError, ReceiveGroups, ErrorFoundDefault, SendResponse, Sent
<1>3. QED
  BY <1>1, <1>2, GroupsTypeCorrect, PTL DEF GroupsSpec

-----------------------------------------------------------------------------
(***************************************************************************)
(* The flag and the value a request receives belong together unless a poll *)
(* came between the two receives of getGroupsConfig.                       *)
(***************************************************************************)
THEOREM ReceivesConsistent == GroupsSpec => []ConsistentWithinPoll
<1>1. GroupsInit => ConsistentWithinPoll
  <2> SUFFICES ASSUME GroupsInit, NEW h \in Handlers
               PROVE  handler[h] = "idle" /\ result[h].groups = "none"
    BY DEF ConsistentWithinPoll
  <2>1. QED
    BY DEF GroupsInit, Pending
<1>2. /\ GroupsTypeOK /\ UpdaterConsistent /\ RequestConsistent
      /\ ConsistentWithinPoll /\ [GroupsNext]_groupsVars
      => ConsistentWithinPoll'
  <2> SUFFICES ASSUME GroupsTypeOK, UpdaterConsistent, RequestConsistent,
                      ConsistentWithinPoll, [GroupsNext]_groupsVars
               PROVE  ConsistentWithinPoll'
    OBVIOUS
  <2> USE DEF GroupsTypeOK, ConsistentWithinPoll
  <2>1. CASE PollReturns
    <3>1. UNCHANGED handlerVars /\ polls' = polls + 1
      BY <2>1 DEF PollReturns
    <3>2. \A h \in Handlers : errorFoundAt'[h] # polls'
      BY <3>1 DEF RequestConsistent
    <3>3. QED
      BY <3>1, <3>2
  <2>2. CASE EnterSelect \/ PollTick
    BY <2>2 DEF EnterSelect, PollTick
  <2>3. ASSUME NEW h \in Handlers, CallGetGroupsConfig(h)
        PROVE  ConsistentWithinPoll'
    BY <2>3 DEF CallGetGroupsConfig, Pending
  <2>4. ASSUME NEW h \in Handlers, ReceiveErrorFound(h)
        PROVE  ConsistentWithinPoll'
    BY <2>4 DEF ReceiveErrorFound, Sent, Pending, UpdaterConsistent, RequestConsistent
  <2>5. ASSUME NEW h \in Handlers, ReceiveError(h)
        PROVE  ConsistentWithinPoll'
    <3>1. handler[h] = "error" /\ handler' = [handler EXCEPT ![h] = "done"]
      BY <2>5 DEF ReceiveError, Return
    <3>2. UNCHANGED <<polls, currentError, errorFoundAt>>
      BY <2>5 DEF ReceiveError, Sent
    <3>3. \A q \in Handlers \ {h} : result'[q] = result[q]
      BY <2>5 DEF ReceiveError, Return
    <3>4. result'[h].err = currentError /\ result'[h].at = polls
      BY <2>5 DEF ReceiveError, Return
    <3>5. currentError = "nil" => errorFoundAt[h] < polls
      BY <3>1 DEF RequestConsistent
    <3>6. QED
      BY <3>1, <3>2, <3>3, <3>4, <3>5
  <2>6. ASSUME NEW h \in Handlers, ReceiveGroups(h)
        PROVE  ConsistentWithinPoll'
    <3>1. handler[h] = "groups" /\ handler' = [handler EXCEPT ![h] = "done"]
      BY <2>6 DEF ReceiveGroups, Return
    <3>2. UNCHANGED <<polls, currentError, errorFoundAt>>
      BY <2>6 DEF ReceiveGroups, Sent
    <3>3. \A q \in Handlers \ {h} : result'[q] = result[q]
      BY <2>6 DEF ReceiveGroups, Return
    <3>4. result'[h].groups # "nil" \/ result'[h].err # "nil"
      <4>1. CASE currentGroups = 0
        <5>1. result' = [result EXCEPT ![h] = [groups |-> "nil", config |-> 0,
                                               err |-> "no groups retrieved", at |-> polls]]
          BY <2>6, <4>1 DEF ReceiveGroups, Return
        <5>2. result'[h].err = "no groups retrieved"
          BY <5>1
        <5>3. QED
          BY <5>2
      <4>2. CASE currentGroups # 0
        BY <2>6, <4>2 DEF ReceiveGroups, Return
      <4>3. QED
        BY <4>1, <4>2
    <3>5. QED
      BY <3>1, <3>2, <3>3, <3>4
  <2>7. ASSUME NEW h \in Handlers, ErrorFoundDefault(h)
        PROVE  ConsistentWithinPoll'
    BY <2>7 DEF ErrorFoundDefault, Return
  <2>8. ASSUME NEW h \in Handlers, SendResponse(h)
        PROVE  ConsistentWithinPoll'
    BY <2>8 DEF SendResponse
  <2>9. CASE UNCHANGED groupsVars
    BY <2>9
  <2>10. QED
    BY <2>1, <2>2, <2>3, <2>4, <2>5, <2>6, <2>7, <2>8, <2>9 DEF GroupsNext, Receive
<1>3. QED
  BY <1>1, <1>2, GroupsTypeCorrect, PTL DEF GroupsSpec
=============================================================================
