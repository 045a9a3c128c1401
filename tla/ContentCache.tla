---------------------------- MODULE ContentCache ----------------------------
(***************************************************************************)
(* The in-memory cache of the rule content (content/content.go): the       *)
(* goroutine RunUpdateContentLoop that polls the content service, the      *)
(* globals it writes, and the request goroutines that read them through    *)
(* WaitForContentDirectoryToBeReady.                                       *)
(*                                                                         *)
(* The content itself is abstracted to the generation of the content       *)
(* service it came from: 0 stands for the nil directory and for the empty  *)
(* map the storage is initialised with.  Pointers are read and written in  *)
(* one step: on the 64-bit platforms the service is built for, a racy read *)
(* of a pointer returns either the old or the new pointer.                 *)
(***************************************************************************)
EXTENDS Naturals, Sequences, FiniteSets

CONSTANTS Readers,          \* goroutines that serve requests
          ReadsPerRequest,  \* content getters one request calls, one after another
          MaxGeneration,    \* bound: generations the content service publishes
          MaxRequests       \* bound: requests served in a behaviour

ASSUME ConstantsAssumption ==
    /\ ReadsPerRequest \in Nat \ {0}
    /\ MaxGeneration \in Nat \ {0}
    /\ MaxRequests \in Nat

\* The process has finitely many goroutines.
ASSUME ReadersAssumption == IsFiniteSet(Readers)

VARIABLES
    served,     \* the generation the content service serves (external)
    directory,  \* ruleContentDirectory, 0 is nil
    storage,    \* rulesWithContentStorage, 0 is getEmptyRulesWithContentMap()
    updater,    \* where RunUpdateContentLoop is
    fetched,    \* contentServiceDirectory, local to UpdateContent
    reader,     \* where each request goroutine is
    reads,      \* what the getters of the current request have returned
    goesOn,     \* whether the handler of the request passes over a getter that failed
    left,       \* getters the request still has to call, the one under way included
    started,    \* number of requests begun
    lenient,    \* number of them whose handler passes over a getter that failed
    mutex,      \* ruleContentDirectoryReady.L, "free" or "held"
    unparked,   \* goroutines spawned to Wait() that have not released L yet
    parked      \* goroutines blocked in ruleContentDirectoryReady.Wait()

updaterVars == <<directory, storage, updater, fetched>>
condVars == <<mutex, unparked, parked>>
callVars == <<reads, goesOn, left, started, lenient>>
requestVars == <<reader, callVars>>
vars == <<served, updaterVars, requestVars, condVars>>

Init ==
    /\ served = 1
    /\ directory = 0
    /\ storage = 0
    /\ updater = "fetch"
    /\ fetched = 0
    /\ reader = [r \in Readers |-> "idle"]
    /\ reads = [r \in Readers |-> <<>>]
    /\ goesOn = [r \in Readers |-> FALSE]
    /\ left = [r \in Readers |-> 0]
    /\ started = 0
    /\ lenient = 0
    /\ mutex = "free"
    /\ unparked = 0
    /\ parked = 0

(***************************************************************************)
(* The content service.                                                    *)
(***************************************************************************)
ServiceRelease ==
    /\ served < MaxGeneration
    /\ served' = served + 1
    /\ UNCHANGED <<updaterVars, requestVars, condVars>>

(***************************************************************************)
(* RunUpdateContentLoop and UpdateContent.                                 *)
(***************************************************************************)
GetContentSucceeds ==
    /\ updater = "fetch"
    /\ fetched' = served
    /\ updater' = "set"
    /\ UNCHANGED <<served, directory, storage, requestVars, condVars>>

\* Deviation: the storage is emptied before the new content has arrived.
GetContentFailsEmptiesStorage ==
    /\ updater = "fetch"
    /\ updater' = "select"
    /\ storage' = 0
    /\ UNCHANGED <<served, directory, fetched, requestVars, condVars>>

\* Deviation: the nil that comes with the error is stored.
GetContentFailsClearsDirectory ==
    /\ updater = "fetch"
    /\ updater' = "select"
    /\ directory' = 0
    /\ UNCHANGED <<served, storage, fetched, requestVars, condVars>>

\* A connection error, or a body that is not a gob: what is cached stays.
GetContentFails ==
    /\ updater = "fetch"
    /\ updater' = "select"
    /\ UNCHANGED <<served, directory, storage, fetched, requestVars, condVars>>

\* Deviation: the update returns before the content is loaded.
SetRuleContentDirectoryOnly ==
    /\ updater = "set"
    /\ directory' = fetched
    /\ updater' = "select"
    /\ UNCHANGED <<served, storage, fetched, requestVars, condVars>>

\* SetRuleContentDirectory, and WaitForContentDirectoryToBeReady, which
\* returns at once because the directory has just been set.
SetRuleContentDirectory ==
    /\ updater = "set"
    /\ directory' = fetched
    /\ updater' = "load"
    /\ UNCHANGED <<served, storage, fetched, requestVars, condVars>>

\* Deviation: content that has been loaded once is kept.
LoadRuleContentOnce ==
    /\ updater = "load"
    /\ storage' = IF storage = 0 THEN directory ELSE storage
    /\ updater' = "select"
    /\ UNCHANGED <<served, directory, fetched, requestVars, condVars>>

\* The new storage is built aside and published by one assignment.
LoadRuleContent ==
    /\ updater = "load"
    /\ storage' = directory
    /\ updater' = "select"
    /\ UNCHANGED <<served, directory, fetched, requestVars, condVars>>

Tick ==
    /\ updater = "select"
    /\ updater' = "fetch"
    /\ UNCHANGED <<served, directory, storage, fetched, requestVars, condVars>>

\* The send in StopUpdateContentLoop meets the select of the loop.
StopUpdateContentLoop ==
    /\ updater = "select"
    /\ updater' = "stopped"
    /\ UNCHANGED <<served, directory, storage, fetched, requestVars, condVars>>

UpdateStep ==
    \/ GetContentSucceeds
    \/ GetContentFails
    \/ SetRuleContentDirectory
    \/ LoadRuleContent
    \/ Tick

(***************************************************************************)
(* The requests.  Every exported getter calls                              *)
(* WaitForContentDirectoryToBeReady and then reads the storage.  A handler *)
(* gives up on the first getter that returns the timeout error, but        *)
(* filterRulesGetContent passes over the rule hit and asks for the next.   *)
(***************************************************************************)
BeginRequest(r) ==
    /\ reader[r] = "idle"
    /\ started < MaxRequests
    /\ started' = started + 1
    /\ \E on \in BOOLEAN :
          /\ goesOn' = [goesOn EXCEPT ![r] = on]
          /\ lenient' = IF on THEN lenient + 1 ELSE lenient
    /\ left' = [left EXCEPT ![r] = ReadsPerRequest]
    /\ reader' = [reader EXCEPT ![r] = "check"]
    /\ UNCHANGED <<served, updaterVars, reads, condVars>>

\* Deviation: the getter waits whether the directory is set or not.
CheckDirectoryAlwaysWaits(r) ==
    /\ reader[r] = "check"
    /\ reader' = [reader EXCEPT ![r] = "lock"]
    /\ UNCHANGED <<served, updaterVars, callVars, condVars>>

\* if ruleContentDirectory == nil
CheckDirectory(r) ==
    /\ reader[r] = "check"
    /\ reader' = [reader EXCEPT ![r] = IF directory = 0 THEN "lock" ELSE "read"]
    /\ UNCHANGED <<served, updaterVars, callVars, condVars>>

\* L.Lock(), then the goroutine that will Wait() is spawned.
LockAndSpawn(r) ==
    /\ reader[r] = "lock"
    /\ mutex = "free"
    /\ mutex' = "held"
    /\ unparked' = unparked + 1
    /\ reader' = [reader EXCEPT ![r] = "select"]
    /\ UNCHANGED <<served, updaterVars, callVars, parked>>

\* Deviation: the goroutine waits without releasing the mutex.
WaiterKeepsLock ==
    /\ unparked > 0
    /\ unparked' = unparked - 1
    /\ parked' = parked + 1
    /\ UNCHANGED <<served, updaterVars, requestVars, mutex>>

\* Cond.Wait() enters the notify list and releases L.  Nothing calls Signal
\* or Broadcast: the goroutine stays there, done is never closed, and the
\* branch <-done of the select and the Unlock after it are never reached.
WaiterParks ==
    /\ unparked > 0
    /\ unparked' = unparked - 1
    /\ parked' = parked + 1
    /\ mutex' = "free"
    /\ UNCHANGED <<served, updaterVars, requestVars>>

\* Deviation: the mutex is unlocked on this path too.
TimeoutUnlocks(r) ==
    /\ reader[r] = "select"
    /\ reader' = [reader EXCEPT ![r] = "timedOut"]
    /\ mutex' = "free"
    /\ UNCHANGED <<served, updaterVars, callVars, unparked, parked>>

\* Deviation: the goroutine is written off although it may be parked already.
TimeoutForgetsWaiter(r) ==
    /\ reader[r] = "select"
    /\ reader' = [reader EXCEPT ![r] = "timedOut"]
    /\ unparked' = unparked - 1
    /\ UNCHANGED <<served, updaterVars, callVars, mutex, parked>>

\* Deviation: the getter tries again instead of returning the error.
TimeoutRetries(r) ==
    /\ reader[r] = "select"
    /\ reader' = [reader EXCEPT ![r] = "check"]
    /\ UNCHANGED <<served, updaterVars, callVars, condVars>>

\* Where a request goes once the getter under way has returned.
AfterGetter(r) == IF left[r] = 1 THEN "done" ELSE "check"

\* <-time.After(contentDirectoryTimeout): the error is returned, L is not
\* touched, and the handler gives up or passes over what it cannot get.
Timeout(r) ==
    /\ reader[r] = "select"
    /\ \/ /\ ~goesOn[r]
          /\ reader' = [reader EXCEPT ![r] = "timedOut"]
          /\ UNCHANGED left
       \/ /\ goesOn[r]
          /\ left' = [left EXCEPT ![r] = @ - 1]
          /\ reader' = [reader EXCEPT ![r] = AfterGetter(r)]
    /\ UNCHANGED <<served, updaterVars, reads, goesOn, started, lenient, condVars>>

ReadStorage(r) ==
    /\ reader[r] = "read"
    /\ reads' = [reads EXCEPT ![r] = Append(@, storage)]
    /\ left' = [left EXCEPT ![r] = @ - 1]
    /\ reader' = [reader EXCEPT ![r] = AfterGetter(r)]
    /\ UNCHANGED <<served, updaterVars, goesOn, started, lenient, condVars>>

\* The handler returns, and what was local to the request is gone.
EndRequest(r) ==
    /\ reader[r] \in {"done", "timedOut"}
    /\ reader' = [reader EXCEPT ![r] = "idle"]
    /\ reads' = [reads EXCEPT ![r] = <<>>]
    /\ goesOn' = [goesOn EXCEPT ![r] = FALSE]
    /\ left' = [left EXCEPT ![r] = 0]
    /\ UNCHANGED <<served, updaterVars, started, lenient, condVars>>

RequestStep(r) ==
    \/ CheckDirectory(r)
    \/ LockAndSpawn(r)
    \/ Timeout(r)
    \/ ReadStorage(r)
    \/ EndRequest(r)

Next ==
    \/ ServiceRelease
    \/ UpdateStep
    \/ StopUpdateContentLoop
    \/ WaiterParks
    \/ \E r \in Readers : BeginRequest(r) \/ RequestStep(r)

Spec == Init /\ [][Next]_vars

\* The Go scheduler runs every goroutine that can run, timers fire, and a
\* sync.Mutex hands itself to a waiter that has starved.  The service is
\* assumed to answer some of the polls.
FairSpec ==
    /\ Spec
    /\ WF_vars(UpdateStep)
    /\ SF_vars(GetContentSucceeds)
    /\ WF_vars(WaiterParks)
    /\ \A r \in Readers : WF_vars(RequestStep(r)) /\ SF_vars(LockAndSpawn(r))

-----------------------------------------------------------------------------
TypeOK ==
    /\ served \in 1..MaxGeneration
    /\ directory \in 0..MaxGeneration
    /\ storage \in 0..MaxGeneration
    /\ updater \in {"fetch", "set", "load", "select", "stopped"}
    /\ fetched \in 0..MaxGeneration
    /\ reader \in [Readers -> {"idle", "check", "lock", "select", "read", "done", "timedOut"}]
    /\ reads \in [Readers -> Seq(0..MaxGeneration)]
    /\ goesOn \in [Readers -> BOOLEAN]
    /\ left \in [Readers -> 0..ReadsPerRequest]
    /\ \A r \in Readers : reader[r] \in {"check", "lock", "select", "read"} => left[r] > 0
    /\ started \in 0..MaxRequests
    /\ lenient \in 0..started
    /\ mutex \in {"free", "held"}
    /\ unparked \in Nat
    /\ parked \in Nat

(***************************************************************************)
(* Outside the window between SetRuleContentDirectory and the swap at the  *)
(* end of LoadRuleContent, what the getters read is exactly the directory  *)
(* that was fetched last, and neither is ever ahead of the service         *)
(* (UpdateContent, content.go:428-443).                                    *)
(***************************************************************************)
StorageMatchesDirectory ==
    /\ updater # "load" => storage = directory
    /\ storage <= directory
    /\ directory <= served
    /\ updater \in {"set", "load"} => directory <= fetched /\ fetched <= served

(***************************************************************************)
(* The mutex of the condition variable is held exactly while one spawned   *)
(* goroutine still has to release it in Cond.Wait: a request that times    *)
(* out before that goroutine ran leaves no lock behind, and the goroutine  *)
(* never unlocks a mutex that is not locked, which would end the process   *)
(* (WaitForContentDirectoryToBeReady, content.go:197-221).                 *)
(***************************************************************************)
LockOwedToWaiter ==
    /\ mutex = "held" <=> unparked = 1
    /\ unparked <= 1

\* The waits request r may still begin, numbered from its last getter: one for
\* a handler that gives up, one for each getter left for one that goes on.
WaitsLeft(r) ==
    CASE reader[r] \in {"check", "lock", "read"} -> IF goesOn[r] THEN 1..left[r] ELSE {1}
      [] reader[r] = "select" -> IF goesOn[r] THEN 1..(left[r] - 1) ELSE {}
      [] OTHER -> {}

AllWaitsLeft == {w \in Readers \X (1..ReadsPerRequest) : w[2] \in WaitsLeft(w[1])}

(***************************************************************************)
(* How many goroutines the timed out getters leave behind, for they are    *)
(* never woken: at most one for a request whose handler gives up, however  *)
(* many getters it calls, since the directory never becomes nil again, and *)
(* at most one for each rule hit that filterRulesGetContent passes over;   *)
(* the waits still to come are within the bound already (content.go:200-   *)
(* 215, handlers_v2.go:1550-1555).                                         *)
(***************************************************************************)
WaitersBounded ==
    unparked + parked + Cardinality(AllWaitsLeft)
      <= (started - lenient) + lenient * ReadsPerRequest

(***************************************************************************)
(* The getters of one request see the content move forward only: a later   *)
(* getter never answers from an older generation than an earlier one, and  *)
(* none from a generation newer than the one cached now (parsing.go:104    *)
(* publishes whole generations, in the order of the polls).                *)
(***************************************************************************)
ReadsMoveForward ==
    \A r \in Readers :
        /\ \A i, j \in 1..Len(reads[r]) : i <= j => reads[r][i] <= reads[r][j]
        /\ \A i \in 1..Len(reads[r]) : reads[r][i] <= storage

(***************************************************************************)
(* A request that has read some content has the directory set behind it:   *)
(* once one getter of a request passed WaitForContentDirectoryToBeReady,   *)
(* the following ones do not wait.  Only filterRulesGetContent can be done *)
(* without any.                                                            *)
(***************************************************************************)
NoWaitAfterRead ==
    \A r \in Readers :
        /\ reader[r] = "read" => directory # 0
        /\ reader[r] = "done" /\ ~goesOn[r] => directory # 0
        /\ reads[r] # <<>> => directory # 0 /\ reader[r] \notin {"lock", "select", "timedOut"}

(***************************************************************************)
(* Every request is answered or refused: no getter is blocked for good by  *)
(* the mutex, the condition variable or the timer (content.go:197-221).    *)
(***************************************************************************)
RequestsEnd ==
    \A r \in Readers : reader[r] = "check" ~> reader[r] \in {"done", "timedOut"}

(***************************************************************************)
(* The last generation the content service publishes reaches the readers,  *)
(* unless the loop was stopped (RunUpdateContentLoop, content.go:402-414). *)
(***************************************************************************)
ContentRefreshed ==
    served = MaxGeneration ~> (storage = MaxGeneration \/ updater = "stopped")

(***************************************************************************)
(* Refinement: the cache behaves like one published generation.            *)
(***************************************************************************)
ClientOf(r) ==
    CASE reader[r] = "idle" -> "idle"
      [] reader[r] \in {"check", "read"} -> "asking"
      [] reader[r] \in {"lock", "select"} -> "waiting"
      [] reader[r] = "done" -> "answered"
      [] reader[r] = "timedOut" -> "refused"

Published == INSTANCE PublishedContent WITH
    published <- storage,
    client <- [r \in Readers |-> ClientOf(r)],
    answers <- reads,
    goesOn <- goesOn,
    left <- left

\* The cache implements PublishedContent (UpdateContent, LoadRuleContent and
\* the getters of content.go).
ImplementsPublishedContent == Published!Spec

-----------------------------------------------------------------------------
(***************************************************************************)
(* "RuleContentDirectoryTimeoutError is used, when the content directory   *)
(* is empty for too long time" (content.go:189): when the error is         *)
(* returned the directory is empty.                                        *)
(***************************************************************************)
TimeoutMeansEmpty ==
    [][\A r \in Readers :
          reader[r] = "select" /\ reader'[r] # "select" => directory = 0]_vars
=============================================================================
