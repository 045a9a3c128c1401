-------------------------------- MODULE Acks --------------------------------
(***************************************************************************)
(* Acknowledgement of a rule for an organisation (server/acks_handlers.go, *)
(* acks_utils.go).  The proxy keeps no state: each handler is a sequence   *)
(* of calls to the aggregator, which holds the acknowledgements, and the   *)
(* calls of concurrent requests interleave.                                *)
(*                                                                         *)
(* The handlers only touch the rule their request names, so the model has  *)
(* one rule.  Its acknowledgement is abstracted to the justification, the  *)
(* one field a request sets.                                               *)
(***************************************************************************)
EXTENDS Naturals

CONSTANTS Clients,         \* concurrent requests of one organisation
          Justifications,  \* what a request can carry as justification
          NoAck            \* the rule is not acknowledged

ASSUME NoAckAssumption == NoAck \notin Justifications

Methods == {"GET", "POST", "PUT", "DELETE"}

VARIABLES
    ack,              \* the acknowledgement in the aggregator (external)
    client,           \* where the handler of each request is
    method,           \* the method of the request
    justification,    \* the justification of the request
    previouslyAcked,  \* the requests whose local previouslyAcked is true
    response,         \* status code and acknowledgement sent to the client
    applied,          \* history: requests whose own call reached the aggregator
    interfered        \* history: requests since whose beginning another one
                      \* changed the acknowledgement

local == <<method, justification>>
acksVars == <<ack, client, local, previouslyAcked, response, applied, interfered>>

NoResponse == [status |-> 0, body |-> NoAck]

AcksInit ==
    /\ ack = NoAck
    /\ client = [c \in Clients |-> "idle"]
    /\ method = [c \in Clients |-> "GET"]
    /\ justification \in [Clients -> Justifications]
    /\ previouslyAcked = {}
    /\ response = [c \in Clients |-> NoResponse]
    /\ applied = {}
    /\ interfered = {}

Goto(c, place) == client' = [client EXCEPT ![c] = place]

\* The handler writes its response and returns.
Reply(c, status, body) ==
    /\ Goto(c, "done")
    /\ response' = [response EXCEPT ![c] = [status |-> status, body |-> body]]

\* A request comes in; the one before it on this connection is over.
BeginRequest(c) ==
    /\ client[c] \in {"idle", "done"}
    /\ \E o \in Methods, j \in Justifications :
        /\ method' = [method EXCEPT ![c] = o]
        /\ justification' = [justification EXCEPT ![c] = j]
    /\ Goto(c, "validate")
    /\ previouslyAcked' = previouslyAcked \ {c}
    /\ response' = [response EXCEPT ![c] = NoResponse]
    /\ applied' = applied \ {c}
    /\ interfered' = interfered \ {c}
    /\ UNCHANGED ack

\* The token, the rule selector and the body: a bad one ends the request
\* before the aggregator is called.
Validate(c) ==
    /\ client[c] = "validate"
    /\ \/ Goto(c, "read") /\ UNCHANGED response
       \/ Reply(c, 403, NoAck)
       \/ Reply(c, 400, NoAck)
    /\ UNCHANGED <<ack, local, previouslyAcked, applied, interfered>>

\* readRuleDisableStatus failed: no connection, an unexpected status, a bad body.
ReadFails(c) ==
    /\ client[c] \in {"read", "reread"}
    /\ Reply(c, 500, NoAck)
    /\ UNCHANGED <<ack, local, previouslyAcked, applied, interfered>>

\* What readRuleDisableStatus reports: the rule is acknowledged.
Found == ack # NoAck

\* Deviation: POST writes the acknowledgement whether the rule had one or not.
AfterPostReadWrites(c) ==
    /\ previouslyAcked' = IF Found THEN previouslyAcked \cup {c} ELSE previouslyAcked
    /\ Goto(c, "write")
    /\ UNCHANGED response

\* acknowledgePost has read the status.
AfterPostRead(c) ==
    /\ previouslyAcked' = IF Found THEN previouslyAcked \cup {c} ELSE previouslyAcked
    /\ Goto(c, IF Found THEN "reread" ELSE "write")
    /\ UNCHANGED response

\* Deviation: a rule that is not acknowledged is updated all the same.
AfterUpdateReadUnchecked(c) ==
    Goto(c, "write") /\ UNCHANGED <<response, previouslyAcked>>

\* updateAcknowledge and deleteAcknowledge have read the status.
AfterUpdateRead(c) ==
    /\ IF Found THEN Goto(c, "write") /\ UNCHANGED response
                ELSE Reply(c, 404, NoAck)
    /\ UNCHANGED previouslyAcked

\* The first readRuleDisableStatus of the handlers, and what each does next.
ReadStatus(c) ==
    /\ client[c] = "read"
    /\ \/ /\ method[c] = "GET"
          /\ IF Found THEN Reply(c, 200, ack) ELSE Reply(c, 404, NoAck)
          /\ UNCHANGED previouslyAcked
       \/ method[c] = "POST" /\ AfterPostRead(c)
       \/ method[c] \in {"PUT", "DELETE"} /\ AfterUpdateRead(c)
    /\ UNCHANGED <<ack, local, applied, interfered>>

\* What the aggregator makes of the call: acknowledging and re-enabling set
\* the state whatever it was, updating needs an acknowledgement to update.
AggregatorApplies(c) ==
    /\ ack' = CASE method[c] = "POST" -> justification[c]
                [] method[c] = "PUT" -> IF ack = NoAck THEN NoAck ELSE justification[c]
                [] method[c] = "DELETE" -> NoAck
    /\ applied' = applied \cup {c}
    /\ interfered' = IF ack' = ack THEN interfered ELSE interfered \cup (Clients \ {c})

\* Deviation: a deletion is followed by the re-read as well.
WriteSucceedsRereads(c) ==
    /\ client[c] = "write"
    /\ AggregatorApplies(c)
    /\ Goto(c, "reread")
    /\ UNCHANGED <<local, response, previouslyAcked>>

\* ackRuleSystemWide, updateAckRuleSystemWide, deleteAckRuleSystemWide answered 200.
WriteSucceeds(c) ==
    /\ client[c] = "write"
    /\ AggregatorApplies(c)
    /\ IF method[c] = "DELETE" THEN Reply(c, 204, NoAck)
                           ELSE Goto(c, "reread") /\ UNCHANGED response
    /\ UNCHANGED <<local, previouslyAcked>>

\* Deviation: the status of the aggregator is passed on to the client.
WriteFailsForwardsStatus(c) ==
    /\ client[c] = "write"
    /\ Reply(c, 503, NoAck)
    /\ UNCHANGED <<ack, applied, interfered, local, previouslyAcked>>

\* They returned an error.  The aggregator may have done the work already if
\* it is the answer that got lost.
WriteFails(c) ==
    /\ client[c] = "write"
    /\ \/ AggregatorApplies(c)
       \/ UNCHANGED <<ack, applied, interfered>>
    /\ Reply(c, IF method[c] = "POST" THEN 400 ELSE 500, NoAck)
    /\ UNCHANGED <<local, previouslyAcked>>

\* "Aggregator REST API is source of truth": whether the acknowledgement was
\* found this time is ignored, and what was read goes to the client.
Reread(c) ==
    /\ client[c] = "reread"
    /\ Reply(c, IF method[c] = "POST" /\ c \notin previouslyAcked THEN 201 ELSE 200, ack)
    /\ UNCHANGED <<ack, local, previouslyAcked, applied, interfered>>

Step(c) ==
    \/ BeginRequest(c) \/ Validate(c) \/ ReadFails(c) \/ ReadStatus(c)
    \/ WriteSucceeds(c) \/ WriteFails(c) \/ Reread(c)

AcksNext == \E c \in Clients : Step(c)

AcksSpec == AcksInit /\ [][AcksNext]_acksVars

-----------------------------------------------------------------------------
AckOrNone == Justifications \cup {NoAck}

AcksTypeOK ==
    /\ ack \in AckOrNone
    /\ client \in [Clients -> {"idle", "validate", "read", "write", "reread", "done"}]
    /\ method \in [Clients -> Methods]
    /\ justification \in [Clients -> Justifications]
    /\ previouslyAcked \subseteq Clients
    /\ response \in [Clients -> [status : {0, 200, 201, 204, 400, 403, 404, 500},
                                 body : AckOrNone]]
    /\ applied \subseteq Clients
    /\ interfered \subseteq Clients

ReplyExplainedTo(c) ==
    client[c] = "done" /\ c \notin interfered =>
        LET reply == response[c] IN
        /\ reply.status = 201 => reply.body = justification[c]
        /\ reply.status = 200 => reply.body # NoAck
        /\ reply.status = 200 /\ method[c] = "PUT" => reply.body = justification[c]
        /\ reply.status \in {200, 201} => ack = reply.body
        /\ reply.status \in {204, 404} => ack = NoAck

(***************************************************************************)
(* A request that no other request interfered with is answered as if the   *)
(* aggregator had been its own: 201 and an update carry the justification  *)
(* it sent, 200 an existing acknowledgement, and after 204 and 404 the     *)
(* rule is not acknowledged (the read, write, re-read sequences of         *)
(* acks_handlers.go:172-394).                                              *)
(***************************************************************************)
ReplyExplained == \A c \in Clients : ReplyExplainedTo(c)

StatusTellsEffectTo(c) ==
    client[c] = "done" =>
        LET status == response[c].status IN
        /\ status \in {201, 204} => c \in applied
        /\ status \in {403, 404} => c \notin applied
        /\ status = 200 => (c \in applied <=> method[c] = "PUT")

(***************************************************************************)
(* The status code tells whether the request changed anything, also when   *)
(* requests interleave: 201 and 204 only if its own call was applied, 200  *)
(* to a POST, 403 and 404 only if none was, so that an acknowledgement a   *)
(* POST has seen is never overwritten by it (acks_handlers.go:219-233).    *)
(***************************************************************************)
StatusTellsEffect == \A c \in Clients : StatusTellsEffectTo(c)

HandlerKnows(c) ==
    /\ client[c] \in {"idle", "validate", "read"} => c \notin applied
    /\ client[c] \in {"validate", "read"} => c \notin previouslyAcked
    /\ client[c] = "write" => /\ method[c] # "GET"
                              /\ c \notin applied
                              /\ c \notin previouslyAcked
                              /\ c \notin interfered => (ack # NoAck <=> method[c] # "POST")
    /\ client[c] = "reread" =>
          /\ method[c] \in {"POST", "PUT"}
          /\ c \in previouslyAcked => method[c] = "POST"
          /\ c \in applied <=> c \notin previouslyAcked
          /\ c \notin interfered => ack # NoAck
          /\ c \notin interfered /\ c \notin previouslyAcked => ack = justification[c]

(***************************************************************************)
(* What a handler has learnt from one call still holds at the next one, as *)
(* long as nobody interfered: the branch taken after the first read fits   *)
(* the acknowledgement that is then written, and the re-read finds what    *)
(* was written (acks_handlers.go:211-253, 305-342).  Every step preserves  *)
(* this, and the two properties above follow.                              *)
(***************************************************************************)
HandlersKnow == \A c \in Clients : HandlerKnows(c)

=============================================================================
