----------------------------- MODULE AcksProofs -----------------------------
(***************************************************************************)
(* Theorems about Acks, for every set of clients and of justifications.    *)
(*                                                                         *)
(* What a client is told (ReplyExplained, StatusTellsEffect) rests on what *)
(* its handler knows between two calls to the aggregator (HandlersKnow).   *)
(***************************************************************************)
EXTENDS Acks, TLAPS

(***************************************************************************)
(* The variables keep their types.  A handler that is about to write is    *)
(* not one of a GET, which HandlersKnow says.                              *)
(***************************************************************************)
LEMMA TypePreserved ==
  ASSUME AcksTypeOK, HandlersKnow, [AcksNext]_acksVars
  PROVE  AcksTypeOK'
<1> USE DEF AcksTypeOK, AckOrNone, Methods, NoResponse
<1>1. ASSUME NEW c \in Clients, BeginRequest(c)
      PROVE  AcksTypeOK'
  BY <1>1 DEF BeginRequest, Goto
<1>2. ASSUME NEW c \in Clients, Validate(c)
      PROVE  AcksTypeOK'
  <2>1. CASE Goto(c, "read") /\ UNCHANGED response
    BY <1>2, <2>1 DEF Validate, Goto, local
  <2>2. ASSUME NEW status \in {400, 403}, Reply(c, status, NoAck)
        PROVE  AcksTypeOK'
    <3>1. UNCHANGED <<ack, method, justification, previouslyAcked, applied, interfered>>
      BY <1>2 DEF Validate, local
    <3>2. QED
      BY <2>2, <3>1 DEF Goto, Reply
  <2>3. QED
    BY <1>2, <2>1, <2>2 DEF Validate
<1>3. ASSUME NEW c \in Clients, ReadFails(c)
      PROVE  AcksTypeOK'
  BY <1>3 DEF ReadFails, Goto, Reply, local
<1>4. ASSUME NEW c \in Clients, ReadStatus(c)
      PROVE  AcksTypeOK'
  BY <1>4 DEF ReadStatus, AfterPostRead, AfterUpdateRead, Found, Goto, Reply, local
<1>5. ASSUME NEW c \in Clients, WriteSucceeds(c) \/ WriteFails(c)
      PROVE  AcksTypeOK'
  <2>1. method[c] # "GET"
    BY <1>5 DEF HandlersKnow, HandlerKnows, WriteSucceeds, WriteFails
  <2>2. ASSUME AggregatorApplies(c)
        PROVE  /\ ack' \in AckOrNone
               /\ applied' \subseteq Clients
               /\ interfered' \subseteq Clients
    BY <2>1, <2>2 DEF AggregatorApplies
  <2>3. QED
    BY <1>5, <2>2 DEF WriteSucceeds, WriteFails, Goto, Reply, local
<1>6. ASSUME NEW c \in Clients, Reread(c)
      PROVE  AcksTypeOK'
  BY <1>6 DEF Reread, Goto, Reply, local
<1>7. CASE UNCHANGED acksVars
  BY <1>7 DEF acksVars, local
<1>8. QED
  BY <1>1, <1>2, <1>3, <1>4, <1>5, <1>6, <1>7 DEF AcksNext, Step

-----------------------------------------------------------------------------
(***************************************************************************)
(* A step of one request leaves the locals of another alone, and marks it  *)
(* if it changed the acknowledgement.                                      *)
(***************************************************************************)
LEMMA OthersUntouched ==
  ASSUME AcksTypeOK, NEW c \in Clients, NEW d \in Clients, c # d, Step(c)
  PROVE  /\ client'[d] = client[d]
         /\ method'[d] = method[d]
         /\ justification'[d] = justification[d]
         /\ response'[d] = response[d]
         /\ d \in previouslyAcked' <=> d \in previouslyAcked
         /\ d \in applied' <=> d \in applied
         /\ d \in interfered' \/ (ack' = ack /\ d \notin interfered)
<1> USE DEF AcksTypeOK, Goto, Reply, local
<1>1. CASE BeginRequest(c)
  BY <1>1 DEF BeginRequest
<1>2. CASE Validate(c) \/ ReadFails(c) \/ Reread(c)
  BY <1>2 DEF Validate, ReadFails, Reread
<1>3. CASE ReadStatus(c)
  BY <1>3 DEF ReadStatus, AfterPostRead, AfterUpdateRead
<1>4. CASE WriteSucceeds(c) \/ WriteFails(c)
  <2>1. ASSUME AggregatorApplies(c)
        PROVE  /\ d \in applied' <=> d \in applied
               /\ d \in interfered' \/ (ack' = ack /\ d \notin interfered)
    BY <2>1 DEF AggregatorApplies
  <2>2. QED
    BY <1>4, <2>1 DEF WriteSucceeds, WriteFails
<1>5. QED
  BY <1>1, <1>2, <1>3, <1>4 DEF Step

(***************************************************************************)
(* What holds for a request is not disturbed by the steps of the others.   *)
(***************************************************************************)
LEMMA OthersKeep ==
  ASSUME AcksTypeOK, NEW c \in Clients, NEW d \in Clients, c # d, Step(c)
  PROVE  /\ HandlerKnows(d) => HandlerKnows(d)'
         /\ ReplyExplainedTo(d) => ReplyExplainedTo(d)'
         /\ StatusTellsEffectTo(d) => StatusTellsEffectTo(d)'
<1>1. HandlerKnows(d) => HandlerKnows(d)'
  BY OthersUntouched DEF HandlerKnows
<1>2. ReplyExplainedTo(d) => ReplyExplainedTo(d)'
  BY OthersUntouched DEF ReplyExplainedTo
<1>3. StatusTellsEffectTo(d) => StatusTellsEffectTo(d)'
  BY OthersUntouched DEF StatusTellsEffectTo
<1>4. QED
  BY <1>1, <1>2, <1>3

(***************************************************************************)
(* A step of a request, given what its handler knows, leads to a place     *)
(* where the handler knows what it should, or to an answer that is         *)
(* explained and tells the effect of the request.                          *)
(***************************************************************************)
LEMMA OwnStep ==
  ASSUME AcksTypeOK, NEW c \in Clients, HandlerKnows(c), Step(c)
  PROVE  HandlerKnows(c)' /\ ReplyExplainedTo(c)' /\ StatusTellsEffectTo(c)'
<1> USE DEF AcksTypeOK, Goto, Reply, local, HandlerKnows, ReplyExplainedTo, StatusTellsEffectTo
<1>1. CASE BeginRequest(c)
  BY <1>1 DEF BeginRequest
<1>2. CASE Validate(c)
  BY <1>2 DEF Validate
<1>3. CASE ReadFails(c)
  BY <1>3 DEF ReadFails
<1>4. CASE ReadStatus(c)
  BY <1>4 DEF ReadStatus, AfterPostRead, AfterUpdateRead, Found, Methods
<1>5. CASE WriteSucceeds(c)
  <2>1. method[c] \in {"POST", "PUT", "DELETE"} /\ justification[c] # NoAck
    BY <1>5, NoAckAssumption DEF WriteSucceeds, Methods
  <2>2. c \in applied' /\ (c \in interfered' <=> c \in interfered)
    BY <1>5 DEF WriteSucceeds, AggregatorApplies
  <2>3. QED
    BY <1>5, <2>1, <2>2 DEF WriteSucceeds, AggregatorApplies
<1>6. CASE WriteFails(c)
  BY <1>6 DEF WriteFails
<1>7. CASE Reread(c)
  BY <1>7 DEF Reread
<1>8. QED
  BY <1>1, <1>2, <1>3, <1>4, <1>5, <1>6, <1>7 DEF Step

(***************************************************************************)
(* The inductive invariant.                                                *)
(***************************************************************************)
Inv == AcksTypeOK /\ HandlersKnow /\ ReplyExplained /\ StatusTellsEffect

LEMMA InvHolds == AcksSpec => []Inv
<1>1. AcksInit => Inv
  BY DEF AcksInit, Inv, AcksTypeOK, AckOrNone, Methods, NoResponse, HandlersKnow, HandlerKnows,
         ReplyExplained, ReplyExplainedTo, StatusTellsEffect, StatusTellsEffectTo
<1>2. Inv /\ [AcksNext]_acksVars => Inv'
  <2> SUFFICES ASSUME Inv, [AcksNext]_acksVars
               PROVE  Inv'
    OBVIOUS
  <2>1. AcksTypeOK'
    BY TypePreserved DEF Inv
  <2>2. ASSUME NEW c \in Clients, Step(c), NEW d \in Clients
        PROVE  HandlerKnows(d)' /\ ReplyExplainedTo(d)' /\ StatusTellsEffectTo(d)'
    <3>1. HandlerKnows(d) /\ ReplyExplainedTo(d) /\ StatusTellsEffectTo(d)
      BY DEF Inv, HandlersKnow, ReplyExplained, StatusTellsEffect
    <3>2. CASE c = d
      BY <2>2, <3>1, <3>2, OwnStep DEF Inv
    <3>3. CASE c # d
      BY <2>2, <3>1, <3>3, OthersKeep DEF Inv
    <3>4. QED
      BY <3>2, <3>3
  <2>3. CASE UNCHANGED acksVars
    BY <2>3 DEF Inv, AcksTypeOK, HandlersKnow, HandlerKnows, ReplyExplained, ReplyExplainedTo,
                StatusTellsEffect, StatusTellsEffectTo, acksVars, local
  <2>4. QED
    BY <2>1, <2>2, <2>3 DEF Inv, AcksNext, HandlersKnow, ReplyExplained, StatusTellsEffect
<1>3. QED
  BY <1>1, <1>2, PTL DEF AcksSpec

-----------------------------------------------------------------------------
(***************************************************************************)
(* The variables of Acks keep their types: in particular no handler sends  *)
(* a status other than the documented ones.                                *)
(***************************************************************************)
THEOREM TypeCorrect == AcksSpec => []AcksTypeOK
<1>1. Inv => AcksTypeOK
  BY DEF Inv
<1>2. QED
  BY <1>1, InvHolds, PTL

(***************************************************************************)
(* A request nobody interfered with is answered as if it had been alone.   *)
(***************************************************************************)
THEOREM RepliesExplained == AcksSpec => []ReplyExplained
<1>1. Inv => ReplyExplained
  BY DEF Inv
<1>2. QED
  BY <1>1, InvHolds, PTL

(***************************************************************************)
(* The status code of every request tells whether it changed anything.     *)
(***************************************************************************)
THEOREM StatusesTellEffect == AcksSpec => []StatusTellsEffect
<1>1. Inv => StatusTellsEffect
  BY DEF Inv
<1>2. QED
  BY <1>1, InvHolds, PTL

(***************************************************************************)
(* What a handler learnt from one call still holds at the next one.        *)
(***************************************************************************)
THEOREM HandlersAlwaysKnow == AcksSpec => []HandlersKnow
<1>1. Inv => HandlersKnow
  BY DEF Inv
<1>2. QED
  BY <1>1, InvHolds, PTL
=============================================================================
