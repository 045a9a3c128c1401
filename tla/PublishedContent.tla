-------------------------- MODULE PublishedContent --------------------------
(***************************************************************************)
(* What the content package promises to the request handlers: there is one *)
(* published generation of the rule content, it is replaced as a whole and *)
(* never by an older one, every getter answers from the generation that is *)
(* published at the moment it answers, and a getter can only fail if it    *)
(* began to wait while nothing was published.  A request gives up on the   *)
(* first getter that fails, or goes on with the next one; one that gives   *)
(* up is answered only with all its getters.                               *)
(*                                                                         *)
(* ContentCache is shown to implement this specification.                  *)
(***************************************************************************)
EXTENDS Naturals, Sequences

CONSTANTS Readers,          \* the goroutines that serve requests
          ReadsPerRequest   \* content getters called by one request

VARIABLES published,  \* the published generation, 0 while there is none
          client,     \* [Readers -> {"idle", "asking", "waiting", "answered", "refused"}]
          goesOn,     \* [Readers -> BOOLEAN], whether the request does without a failed getter
          left,       \* [Readers -> Nat], getters the request has still to call
          answers     \* [Readers -> Seq(Nat)], what the getters of the request returned

vars == <<published, client, goesOn, left, answers>>

Init ==
    /\ published = 0
    /\ client = [r \in Readers |-> "idle"]
    /\ goesOn = [r \in Readers |-> FALSE]
    /\ left = [r \in Readers |-> 0]
    /\ answers = [r \in Readers |-> <<>>]

\* A newer generation replaces the published one.
Publish ==
    /\ published' \in Nat
    /\ published' > published
    /\ UNCHANGED <<client, goesOn, left, answers>>

Ask(r) ==
    /\ client[r] = "idle"
    /\ client' = [client EXCEPT ![r] = "asking"]
    /\ \E on \in BOOLEAN : goesOn' = [goesOn EXCEPT ![r] = on]
    /\ left' = [left EXCEPT ![r] = ReadsPerRequest]
    /\ UNCHANGED <<published, answers>>

\* Only a request that finds nothing published is made to wait.
Delay(r) ==
    /\ client[r] = "asking"
    /\ published = 0
    /\ client' = [client EXCEPT ![r] = "waiting"]
    /\ UNCHANGED <<published, goesOn, left, answers>>

\* One getter less, and the request is answered when it was the last one.
Pass(r) ==
    /\ left' = [left EXCEPT ![r] = @ - 1]
    /\ client' = [client EXCEPT ![r] = IF left[r] = 1 THEN "answered" ELSE "asking"]

Answer(r) ==
    /\ client[r] = "asking"
    /\ answers' = [answers EXCEPT ![r] = Append(@, published)]
    /\ Pass(r)
    /\ UNCHANGED <<published, goesOn>>

\* The getter fails and the request goes on with the next one.
DoWithout(r) ==
    /\ client[r] = "waiting"
    /\ goesOn[r]
    /\ Pass(r)
    /\ UNCHANGED <<published, goesOn, answers>>

Refuse(r) ==
    /\ client[r] = "waiting"
    /\ ~goesOn[r]
    /\ client' = [client EXCEPT ![r] = "refused"]
    /\ UNCHANGED <<published, goesOn, left, answers>>

Leave(r) ==
    /\ client[r] \in {"answered", "refused"}
    /\ client' = [client EXCEPT ![r] = "idle"]
    /\ goesOn' = [goesOn EXCEPT ![r] = FALSE]
    /\ left' = [left EXCEPT ![r] = 0]
    /\ answers' = [answers EXCEPT ![r] = <<>>]
    /\ UNCHANGED published

Next ==
    \/ Publish
    \/ \E r \in Readers :
          Ask(r) \/ Delay(r) \/ Answer(r) \/ DoWithout(r) \/ Refuse(r) \/ Leave(r)

Spec == Init /\ [][Next]_vars
=============================================================================
