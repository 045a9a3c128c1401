------------------------------- MODULE Groups -------------------------------
(***************************************************************************)
(* The groups configuration: the goroutine updateGroupInfo (smart_proxy.go)*)
(* polls the content service and offers what it knows on three unbuffered  *)
(* channels; getGroupsConfig (server/server.go) takes it from there for    *)
(* each request.                                                           *)
(*                                                                         *)
(* A configuration is abstracted to the number of the poll that returned   *)
(* it; 0 is the nil slice.  A send and a receive on an unbuffered channel  *)
(* are one step of both goroutines.                                        *)
(***************************************************************************)
EXTENDS Naturals

CONSTANTS Handlers,  \* goroutines that serve requests
          MaxPolls   \* bound: polls of the content service in a behaviour

ASSUME MaxPollsAssumption == MaxPolls \in Nat \ {0}

\* What a call of services.GetGroups can come back with: a configuration, a
\* body without the "groups" key (no status code is checked), a connection
\* error, or a body that does not decode.
PollOutcomes == {"config", "noGroups", "urlError", "decodeError"}

VARIABLES
    polls,               \* polls completed
    groupUpdater,        \* where updateGroupInfo is
    currentGroups,       \* its local currentGroups
    currentErrorFound,   \* its local currentErrorFound
    currentError,        \* its local currentError
    handler,             \* where each request is in getGroupsConfig
    errorFoundAt,        \* the poll whose errorFound flag the request received
    result,              \* what getGroupsConfig returned to the request
    lastValid,           \* history: the last configuration the service delivered
    deliveredNil         \* history: the service has answered without groups

groupUpdaterVars == <<polls, groupUpdater, currentGroups, currentErrorFound, currentError>>
handlerVars == <<handler, errorFoundAt, result>>
groupsHistory == <<lastValid, deliveredNil>>
groupsVars == <<groupUpdaterVars, handlerVars, groupsHistory>>

Pending == [groups |-> "none", config |-> 0, err |-> "nil", at |-> 0]

GroupsInit ==
    /\ polls = 0
    /\ groupUpdater = "poll"
    /\ currentGroups = 0
    /\ currentErrorFound = FALSE
    /\ currentError = "nil"
    /\ handler = [h \in Handlers |-> "idle"]
    /\ errorFoundAt = [h \in Handlers |-> 0]
    /\ result = [h \in Handlers |-> Pending]
    /\ lastValid = 0
    /\ deliveredNil = FALSE

(***************************************************************************)
(* updateGroupInfo                                                         *)
(***************************************************************************)

\* Deviation: the groups that came with the error replace the current ones.
HandleGroupErrorDropsGroups(outcome, poll) ==
    /\ currentGroups' = IF outcome = "config" THEN poll ELSE 0
    /\ currentErrorFound' = (outcome \in {"urlError", "decodeError"})
    /\ currentError' = CASE outcome = "urlError" -> "unavailable"
                         [] outcome = "decodeError" -> "decode"
                         [] OTHER -> "nil"

\* Deviation: an answer without groups is treated as an error of the poll.
HandleGroupErrorRejectsNil(outcome, poll) ==
    IF outcome = "config"
    THEN /\ currentErrorFound' = FALSE
         /\ currentError' = "nil"
         /\ currentGroups' = poll
    ELSE /\ currentErrorFound' = TRUE
         /\ currentError' = IF outcome = "noGroups" THEN "no groups retrieved" ELSE "decode"
         /\ UNCHANGED currentGroups

\* handleGroupError, and the same logic in the first lines of updateGroupInfo.
HandleGroupError(outcome, poll) ==
    IF outcome \in {"urlError", "decodeError"}
    THEN /\ currentErrorFound' = TRUE
         /\ currentError' = IF outcome = "urlError" THEN "unavailable" ELSE "decode"
         /\ UNCHANGED currentGroups
    ELSE /\ currentErrorFound' = FALSE
         /\ currentError' = "nil"
         /\ currentGroups' = IF outcome = "config" THEN poll ELSE 0

\* A call of GetGroups returns: the one made first, or the one of a tick.
PollReturns ==
    /\ groupUpdater = "poll"
    /\ \E outcome \in PollOutcomes :
        /\ HandleGroupError(outcome, polls + 1)
        /\ lastValid' = IF outcome = "config" THEN polls + 1 ELSE lastValid
        /\ deliveredNil' = (deliveredNil \/ outcome = "noGroups")
    /\ polls' = polls + 1
    /\ groupUpdater' = "loop"
    /\ UNCHANGED handlerVars

\* The goroutine comes (back) to its select and offers all three values.
EnterSelect ==
    /\ groupUpdater = "loop"
    /\ groupUpdater' = "select"
    /\ UNCHANGED <<polls, currentGroups, currentErrorFound, currentError, handlerVars, groupsHistory>>

PollTick ==
    /\ groupUpdater = "select"
    /\ polls < MaxPolls
    /\ groupUpdater' = "poll"
    /\ UNCHANGED <<polls, currentGroups, currentErrorFound, currentError, handlerVars, groupsHistory>>

(***************************************************************************)
(* getGroupsConfig                                                         *)
(***************************************************************************)
CallGetGroupsConfig(h) ==
    /\ handler[h] = "idle"
    /\ handler' = [handler EXCEPT ![h] = "errorFound"]
    /\ result' = [result EXCEPT ![h] = Pending]
    /\ UNCHANGED <<groupUpdaterVars, errorFoundAt, groupsHistory>>

\* A send of the updater completes and it goes round its loop.
Sent ==
    /\ groupUpdater = "select"
    /\ groupUpdater' = "loop"
    /\ UNCHANGED <<polls, currentGroups, currentErrorFound, currentError, groupsHistory>>

Return(h, groups, config, err) ==
    /\ handler' = [handler EXCEPT ![h] = "done"]
    /\ result' = [result EXCEPT ![h] =
                    [groups |-> groups, config |-> config, err |-> err, at |-> polls]]

\* Deviation: the flag is read the wrong way round.
ReceiveErrorFoundInverted(h) ==
    /\ handler[h] = "errorFound"
    /\ Sent
    /\ handler' = [handler EXCEPT ![h] = IF currentErrorFound THEN "groups" ELSE "error"]
    /\ errorFoundAt' = [errorFoundAt EXCEPT ![h] = polls]
    /\ UNCHANGED result

\* case val := <-server.ErrorFoundChannel
ReceiveErrorFound(h) ==
    /\ handler[h] = "errorFound"
    /\ Sent
    /\ handler' = [handler EXCEPT ![h] = IF currentErrorFound THEN "error" ELSE "groups"]
    /\ errorFoundAt' = [errorFoundAt EXCEPT ![h] = polls]
    /\ UNCHANGED result

\* default: nobody is sending at this moment; an empty list and no error.
ErrorFoundDefault(h) ==
    /\ handler[h] = "errorFound"
    /\ groupUpdater # "select"
    /\ Return(h, "empty", 0, "nil")
    /\ UNCHANGED <<groupUpdaterVars, errorFoundAt, groupsHistory>>

\* err = <-server.ErrorChannel; return nil, err
ReceiveError(h) ==
    /\ handler[h] = "error"
    /\ Sent
    /\ Return(h, "nil", 0, currentError)
    /\ UNCHANGED errorFoundAt

\* Deviation: an error from the service leaves the request waiting for groups.
ReceiveGroupsUnlessError(h) ==
    /\ handler[h] = "groups"
    /\ ~currentErrorFound
    /\ Sent
    /\ IF currentGroups = 0
       THEN Return(h, "nil", 0, "no groups retrieved")
       ELSE Return(h, "config", currentGroups, "nil")
    /\ UNCHANGED errorFoundAt

\* groupsConfig := <-server.GroupsChannel, and the check for nil
ReceiveGroups(h) ==
    /\ handler[h] = "groups"
    /\ Sent
    /\ IF currentGroups = 0
       THEN Return(h, "nil", 0, "no groups retrieved")
       ELSE Return(h, "config", currentGroups, "nil")
    /\ UNCHANGED errorFoundAt

\* getGroups sends the response: an error if there is one, 200 otherwise.
SendResponse(h) ==
    /\ handler[h] = "done"
    /\ handler' = [handler EXCEPT ![h] = "idle"]
    /\ UNCHANGED <<groupUpdaterVars, errorFoundAt, result, groupsHistory>>

Receive(h) == ReceiveErrorFound(h) \/ ReceiveError(h) \/ ReceiveGroups(h)

GroupsNext ==
    \/ PollReturns
    \/ EnterSelect
    \/ PollTick
    \/ \E h \in Handlers : \/ CallGetGroupsConfig(h)
                           \/ Receive(h)
                           \/ ErrorFoundDefault(h)
                           \/ SendResponse(h)

GroupsSpec == GroupsInit /\ [][GroupsNext]_groupsVars

\* The scheduler runs the goroutines that can run; a select picks among its
\* ready cases at random and the receivers of a channel queue up, so that a
\* receiver is not passed over for ever; a poll comes back in the end.
FairGroupsSpec ==
    /\ GroupsSpec
    /\ WF_groupsVars(PollReturns)
    /\ WF_groupsVars(EnterSelect)
    /\ \A h \in Handlers :
        /\ SF_groupsVars(ReceiveError(h))
        /\ SF_groupsVars(ReceiveGroups(h))
        /\ WF_groupsVars(ReceiveErrorFound(h) \/ ErrorFoundDefault(h))
        /\ WF_groupsVars(SendResponse(h))

-----------------------------------------------------------------------------
PollErrors == {"nil", "unavailable", "decode"}
Errors == PollErrors \cup {"no groups retrieved"}

GroupsTypeOK ==
    /\ polls \in 0..MaxPolls
    /\ groupUpdater \in {"poll", "loop", "select"}
    /\ currentGroups \in 0..MaxPolls
    /\ currentErrorFound \in BOOLEAN
    /\ currentError \in PollErrors
    /\ handler \in [Handlers -> {"idle", "errorFound", "error", "groups", "done"}]
    /\ errorFoundAt \in [Handlers -> 0..MaxPolls]
    /\ result \in [Handlers -> [groups : {"none", "empty", "nil", "config"},
                                config : 0..MaxPolls, err : Errors, at : 0..MaxPolls]]
    /\ lastValid \in 0..MaxPolls
    /\ deliveredNil \in BOOLEAN

(***************************************************************************)
(* Failed polls never cost the proxy its groups: what updateGroupInfo      *)
(* offers is the last configuration that was delivered, unless the service *)
(* itself answered without groups (handleGroupError, smart_proxy.go:226).  *)
(***************************************************************************)
LastValidKept ==
    ~deliveredNil => currentGroups = lastValid

(***************************************************************************)
(* The two values a request receives belong together unless a poll came    *)
(* between the two receives: if none did, a request that was told of an    *)
(* error returns that error, and one that was not returns a configuration  *)
(* or says that there is none (server.go:1236-1264).                       *)
(***************************************************************************)
ConsistentWithinPoll ==
    \A h \in Handlers :
        /\ handler[h] = "error" /\ errorFoundAt[h] = polls => currentError # "nil"
        /\ handler[h] = "groups" /\ errorFoundAt[h] = polls => currentError = "nil"
        /\ result[h].groups = "nil" /\ result[h].err = "nil" => errorFoundAt[h] < result[h].at

(***************************************************************************)
(* A request that found the updater at its select is answered: the polls   *)
(* in between and the other requests delay it but do not block it for good *)
(* (the blocking receives of server.go:1249 and 1257).                     *)
(***************************************************************************)
RequestsAnswered ==
    \A h \in Handlers : handler[h] = "errorFound" ~> handler[h] = "done"
=============================================================================
