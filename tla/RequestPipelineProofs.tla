----------------------- MODULE RequestPipelineProofs -----------------------
(***************************************************************************)
(* Theorems about RequestPipeline, for every set of requests and every     *)
(* number of pages of permissions.                                         *)
(*                                                                         *)
(* What is forwarded was let through by several steps in turn, so the      *)
(* invariants say what each step a request has behind it established:      *)
(* Fresh before RBAC is asked, Admitted after the middlewares, and Sending *)
(* after the modifiers.  That no response is lost without a reason rests   *)
(* on SharedMap: who is at server.InfoParams, and that requests which were *)
(* in infoMap together are recorded as such.                               *)
(***************************************************************************)
EXTENDS RequestPipeline, FiniteSetTheorems, SequenceTheorems, TLAPS

USE DEF pipelineVars, input, access, info

\* The permissions of each request, and what has been read of them.
AccessTyped ==
    /\ acls \in [Requests -> Seq(Pages)]
    /\ pageNum \in [Requests -> Nat]

\* Nothing has been read before RBAC is asked, nor is there an identity before
\* the token is read.
Fresh ==
    \A r \in Requests :
        /\ stage[r] \in {"idle", "authentication", "authorization"} => pageNum[r] = 1 /\ ~granted[r]
        /\ stage[r] \in {"idle", "authentication"} => identity[r] = "none"

\* The identity in the context is the token of the request, a request with the
\* method OPTIONS is for an endpoint that has it, nobody reads the token of an
\* exempt one, and a permission is granted only by a page.
Identified ==
    \A r \in Requests :
        /\ identity[r] \in {"none", token[r]}
        /\ options[r] => endpoint[r] \in WithOptions
        /\ Exempt(r) => token[r] # "service"
        /\ granted[r] => \E i \in DOMAIN acls[r] : acls[r][i] = "granting"

\* The middlewares let a request through only with an identity, and a service
\* account only with a permission if that is enforced.
Admitted ==
    \A r \in Requests :
        /\ (stage[r] \in {"authorization", "rbac", "endpoint", "send"} /\ config.auth /\ ~Exempt(r))
              => identity[r] # "none"
        /\ (stage[r] \in {"endpoint", "send"} /\ config.useRBAC /\ config.enforce /\ token[r] = "service")
              => granted[r]

\* The modifiers let a request through only with an identity or unmodified.
Sending ==
    \A r \in Requests :
        /\ stage[r] = "send" => identity[r] # "none" \/ endpoint[r] = "debug"
        /\ r \in forwarded => stage[r] = "done"

\* Only a request that is done has been answered.
Unanswered ==
    \A r \in Requests : stage[r] # "done" => responses[r] = <<>>

\* Who is at server.InfoParams, and who has been in infoMap together.
SharedMap ==
    /\ \A r \in Requests : mapUse[r] = "none" \/ stage[r] \in {"writing", "iterating"}
    /\ \A r \in InInfo, q \in InInfo : r # q => r \in overlapped

\* A request is lost for one of the two reasons.
LostExplained ==
    \A r \in Requests :
        stage[r] = "lost" => r \in nilInfo \/ \E p \in overlapped, q \in overlapped : p # q

\* A step of one request.
Step(r) ==
    \/ Arrive(r) \/ Authentication(r) \/ Authorization(r)
    \/ ReadPermissions(r) \/ ReadPermissionsEnds(r) \/ ReadPermissionsFails(r)
    \/ ModifyRequest(r) \/ SendToAggregator(r)
    \/ CheckRating(r) \/ PostRatingToAggregator(r) \/ SendSpec(r)
    \/ BeginInfo(r) \/ FillIn(r) \/ FillInEnds(r) \/ InfoFromService(r) \/ MarshalInfo(r)
    \/ SendInfo(r) \/ Leave(r)

\* What a step leaves of places and responses.
Codes == {200, 400, 403, 404, 500, 503}
Moved == stage' \in [Requests -> Labels] /\ responses' \in [Requests -> Seq(Codes)]

-----------------------------------------------------------------------------
(***************************************************************************)
(* A request goes on to another place, with or without a response written. *)
(***************************************************************************)
LEMMA ProceedMoves ==
  ASSUME PipelineTypeOK, NEW r \in Requests, NEW label \in Labels, Proceed(r, label), UNCHANGED responses
  PROVE  Moved
BY DEF PipelineTypeOK, Proceed, Moved, Codes

(***************************************************************************)
(* SendResponse and the errors write one status code more.                 *)
(***************************************************************************)
LEMMA AnswerMoves ==
  ASSUME PipelineTypeOK, NEW r \in Requests, NEW status \in Codes, Answer(r, status)
  PROVE  Moved
<1>1. responses \in [Requests -> Seq(Codes)] /\ stage \in [Requests -> Labels]
  BY DEF PipelineTypeOK, Codes
<1>2. stage' = [stage EXCEPT ![r] = "done"] /\ responses' = [responses EXCEPT ![r] = Append(@, status)]
  BY DEF Answer, Proceed, WriteStatus
<1>3. "done" \in Labels
  BY DEF Labels
<1>4. Append(responses[r], status) \in Seq(Codes)
  BY <1>1
<1>5. QED
  BY <1>1, <1>2, <1>3, <1>4 DEF Moved

(***************************************************************************)
(* The errors of a token have a status code, and a token without errors    *)
(* can be read.                                                            *)
(***************************************************************************)
LEMMA TokenErrorCodes ==
  ASSUME NEW r \in Requests
  PROVE  /\ \A status \in TokenErrors(r) : status \in {403, 500}
         /\ TokenErrors(r) = {} => token[r] # "invalid"
BY DEF TokenErrors

(***************************************************************************)
(* Every step leaves each request at a place of the pipeline, with a       *)
(* sequence of status codes written.                                       *)
(***************************************************************************)
LEMMA StepMoves ==
  ASSUME PipelineTypeOK, PipelineNext
  PROVE  Moved
<1> PICK r \in Requests : Step(r)
  BY DEF PipelineNext, Step
<1> USE DEF Step
<1>1. \A label \in Labels : Proceed(r, label) /\ UNCHANGED responses => Moved
  BY ProceedMoves
<1>2. \A status \in Codes : Answer(r, status) => Moved
  BY AnswerMoves
<1>3. /\ {"authentication", "authorization", "rbac", "endpoint", "send"} \subseteq Labels
      /\ {"fillIn", "writing", "services", "marshal", "iterating", "lost"} \subseteq Labels
  BY DEF Labels
<1>4. 200 \in Codes /\ 400 \in Codes /\ 403 \in Codes /\ 404 \in Codes /\ 500 \in Codes /\ 503 \in Codes
  BY DEF Codes
<1>5. CASE Arrive(r)
  BY <1>1, <1>3, <1>5 DEF Arrive
<1>6. CASE Authentication(r)
  BY <1>1, <1>2, <1>3, <1>4, <1>6, TokenErrorCodes DEF Authentication
<1>7. CASE Authorization(r)
  BY <1>1, <1>2, <1>3, <1>4, <1>7, TokenErrorCodes DEF Authorization
<1>8. CASE ReadPermissions(r)
  BY <1>8 DEF ReadPermissions, PipelineTypeOK, Moved, Codes
<1>9. CASE ReadPermissionsEnds(r) \/ ReadPermissionsFails(r)
  BY <1>1, <1>2, <1>3, <1>4, <1>9 DEF ReadPermissionsEnds, ReadPermissionsFails, Decide
<1>10. CASE ModifyRequest(r)
  BY <1>1, <1>2, <1>3, <1>4, <1>10 DEF ModifyRequest
<1>11. CASE SendToAggregator(r)
  BY <1>2, <1>4, <1>11 DEF SendToAggregator
<1>12. CASE CheckRating(r)
  BY <1>1, <1>2, <1>3, <1>4, <1>12 DEF CheckRating
<1>13. CASE PostRatingToAggregator(r)
  <2>1. ASSUME NEW status \in Codes, WriteStatus(r, status)
        PROVE  Moved
    BY <1>13, <1>2, <2>1 DEF PostRatingToAggregator, Answer
  <2>2. ASSUME NEW status \in Codes, responses' = [responses EXCEPT ![r] = @ \o <<status, 200>>]
        PROVE  Moved
    <3>1. responses \in [Requests -> Seq(Codes)] /\ stage \in [Requests -> Labels]
      BY DEF PipelineTypeOK, Codes
    <3>2. <<status, 200>> \in Seq(Codes)
      BY <1>4
    <3>3. responses[r] \o <<status, 200>> \in Seq(Codes)
      BY <3>1, <3>2
    <3>4. stage' \in [Requests -> Labels]
      BY <1>13, <3>1 DEF PostRatingToAggregator, Proceed, Labels
    <3>5. QED
      BY <2>2, <3>1, <3>3, <3>4 DEF Moved
  <2>3. CASE \E status \in {200, 404, 500} : WriteStatus(r, status)
    BY <1>4, <2>1, <2>3
  <2>4. CASE \E status \in {400, 500} : responses' = [responses EXCEPT ![r] = @ \o <<status, 200>>]
    BY <1>4, <2>2, <2>4
  <2>5. QED
    BY <1>13, <2>3, <2>4 DEF PostRatingToAggregator
<1>14. CASE SendSpec(r)
  BY <1>2, <1>4, <1>14 DEF SendSpec
<1>15. CASE BeginInfo(r) \/ FillInEnds(r) \/ InfoFromService(r)
  BY <1>1, <1>3, <1>15 DEF BeginInfo, FillInEnds, InfoFromService
<1>16. CASE FillIn(r) \/ MarshalInfo(r)
  <2>1. CASE Proceed(r, "writing") \/ Proceed(r, "iterating")
    BY <1>1, <1>3, <1>16, <2>1 DEF FillIn, MarshalInfo
  <2>2. CASE stage' = [q \in Requests |-> IF stage[q] \in {"idle", "done", "lost"} THEN stage[q] ELSE "lost"]
    BY <1>16, <2>2 DEF FillIn, MarshalInfo, PipelineTypeOK, Moved, Codes, Labels
  <2>3. QED
    BY <1>16, <2>1, <2>2 DEF FillIn, MarshalInfo, Use
<1>17. CASE SendInfo(r)
  BY <1>2, <1>4, <1>17 DEF SendInfo
<1>18. CASE Leave(r)
  <2>1. <<>> \in Seq(Codes) /\ "idle" \in Labels
    BY DEF Labels
  <2>2. QED
    BY <1>18, <2>1 DEF Leave, Proceed, PipelineTypeOK, Moved, Codes
<1>19. QED
  BY <1>5, <1>6, <1>7, <1>8, <1>9, <1>10, <1>11, <1>12, <1>13, <1>14, <1>15, <1>16, <1>17, <1>18

(***************************************************************************)
(* Every step preserves the types: what is read of the permissions never   *)
(* goes past the page after the last, as RBAC is asked once per request.   *)
(***************************************************************************)
LEMMA StepTyped ==
  ASSUME PipelineTypeOK, AccessTyped, Fresh, PipelineNext
  PROVE  PipelineTypeOK' /\ AccessTyped' /\ Fresh'
<1> PICK r \in Requests : Step(r)
  BY DEF PipelineNext, Step
<1> USE DEF Step
<1> USE DEF Authentication, Authorization, ReadPermissions, ReadPermissionsEnds,
            ReadPermissionsFails, ModifyRequest, SendToAggregator, CheckRating,
            PostRatingToAggregator, SendSpec, BeginInfo, FillIn, FillInEnds, InfoFromService,
            MarshalInfo, SendInfo
<1>1. stage' \in [Requests -> Labels] /\ responses' \in [Requests -> Seq({200, 400, 403, 404, 500, 503})]
  BY StepMoves DEF Moved, Codes
<1>2. /\ config' \in Configs /\ endpoint' \in [Requests -> Endpoints]
      /\ options' \in [Requests -> BOOLEAN] /\ token' \in [Requests -> Tokens]
  <2>1. CASE Arrive(r)
    BY <2>1 DEF Arrive, PipelineTypeOK
  <2>2. CASE Leave(r)
    BY <2>2 DEF Leave, PipelineTypeOK, Endpoints, Tokens
  <2>3. QED
    BY <2>1, <2>2 DEF PipelineTypeOK
<1>3. identity' \in [Requests -> {"none", "user", "service"}]
  <2>1. CASE Authentication(r)
    <3>1. CASE UNCHANGED identity
      BY <3>1 DEF PipelineTypeOK
    <3>2. CASE TokenErrors(r) = {} /\ token[r] # "noOrg" /\ identity' = [identity EXCEPT ![r] = token[r]]
      BY <3>2, TokenErrorCodes DEF PipelineTypeOK, Tokens
    <3>3. QED
      BY <2>1, <3>1, <3>2
  <2>2. CASE Leave(r)
    BY <2>2 DEF Leave, PipelineTypeOK
  <2>3. QED
    BY <2>1, <2>2 DEF Arrive, PipelineTypeOK
<1>4. /\ AccessTyped' /\ granted' \in [Requests -> BOOLEAN]
      /\ \A q \in Requests : pageNum'[q] \in 1..(Len(acls'[q]) + 1)
  <2>1. CASE Authorization(r) /\ acls' # acls
    <3>0. PICK n \in 0..MaxPages :
            \E pages \in [1..n -> Pages] : acls' = [acls EXCEPT ![r] = pages]
      BY <2>1
    <3>1. PICK pages \in [1..n -> Pages] : acls' = [acls EXCEPT ![r] = pages]
      BY <3>0
    <3>2. pages \in Seq(Pages)
      BY RequestPipelineAssumption, SeqDef
    <3>3. pageNum' = pageNum /\ granted' = granted /\ pageNum[r] = 1
      BY <2>1 DEF Fresh
    <3>4. AccessTyped'
      BY <3>1, <3>2, <3>3 DEF AccessTyped
    <3>5. ASSUME NEW q \in Requests
          PROVE  pageNum'[q] \in 1..(Len(acls'[q]) + 1)
      BY <3>1, <3>2, <3>3 DEF AccessTyped, PipelineTypeOK
    <3>6. QED
      BY <3>3, <3>4, <3>5 DEF PipelineTypeOK
  <2>2. CASE ReadPermissions(r)
    <3>1. acls' = acls /\ pageNum' = [pageNum EXCEPT ![r] = @ + 1] /\ pageNum[r] \in DOMAIN acls[r]
      BY <2>2
    <3>2. granted' \in [Requests -> BOOLEAN]
      BY <2>2 DEF PipelineTypeOK
    <3>3. ASSUME NEW q \in Requests
          PROVE  pageNum'[q] \in 1..(Len(acls'[q]) + 1)
      BY <3>1 DEF AccessTyped, PipelineTypeOK
    <3>4. acls' \in [Requests -> Seq(Pages)] /\ pageNum' \in [Requests -> Nat]
      BY <3>1 DEF AccessTyped
    <3>5. QED
      BY <3>2, <3>3, <3>4 DEF AccessTyped
  <2>3. CASE Leave(r)
    <3>1. acls' = [acls EXCEPT ![r] = <<>>] /\ pageNum' = [pageNum EXCEPT ![r] = 1]
      BY <2>3 DEF Leave
    <3>2. granted' \in [Requests -> BOOLEAN]
      BY <2>3 DEF Leave, PipelineTypeOK
    <3>3. ASSUME NEW q \in Requests
          PROVE  pageNum'[q] \in 1..(Len(acls'[q]) + 1)
      BY <3>1 DEF AccessTyped, PipelineTypeOK
    <3>4. acls' \in [Requests -> Seq(Pages)] /\ pageNum' \in [Requests -> Nat]
      BY <3>1 DEF AccessTyped
    <3>5. QED
      BY <3>2, <3>3, <3>4 DEF AccessTyped
  <2>4. CASE UNCHANGED <<acls, pageNum, granted>>
    BY <2>4 DEF PipelineTypeOK, AccessTyped
  <2>5. QED
    BY <2>1, <2>2, <2>3, <2>4 DEF Arrive
<1>5. Fresh'
  <2>1. CASE Leave(r)
    BY <2>1 DEF Leave, Proceed, Fresh, PipelineTypeOK, AccessTyped
  <2>2. CASE ReadPermissions(r)
    BY <2>2 DEF Fresh, PipelineTypeOK, AccessTyped
  <2>3. CASE UNCHANGED <<pageNum, granted>>
    <3>1. CASE FillIn(r) \/ MarshalInfo(r)
      BY <2>3, <3>1 DEF Use, Proceed, Fresh, PipelineTypeOK
    <3>2. CASE Arrive(r)
      BY <2>3, <3>2 DEF Arrive, Proceed, Fresh, PipelineTypeOK
    <3>3. CASE Authentication(r)
      BY <2>3, <3>3 DEF Proceed, Answer, Fresh, PipelineTypeOK
    <3>4. ASSUME NEW label \in Labels, Proceed(r, label), UNCHANGED identity,
                 label \notin {"idle", "authentication", "authorization"}
          PROVE  Fresh'
      BY <2>3, <3>4 DEF Proceed, Fresh, PipelineTypeOK
    <3>5. QED
      BY <2>1, <2>2, <3>1, <3>2, <3>3, <3>4 DEF Answer, Decide, Labels
  <2>4. QED
    BY <2>1, <2>2, <2>3 DEF Arrive
<1>6. mapUse' \in [Requests -> {"none", "write", "iterate"}]
  <2>1. CASE FillIn(r) \/ MarshalInfo(r)
    <3>1. PICK use \in {"write", "iterate"} :
            \/ mapUse' = [mapUse EXCEPT ![r] = use]
            \/ mapUse' = [q \in Requests |-> "none"]
      BY <2>1 DEF Use
    <3>2. QED
      BY <3>1 DEF PipelineTypeOK
  <2>2. CASE FillInEnds(r) \/ SendInfo(r)
    BY <2>2 DEF PipelineTypeOK
  <2>3. QED
    BY <2>1, <2>2 DEF Arrive, Leave, PipelineTypeOK
<1>7. /\ forwarded' \subseteq Requests /\ rbacFailed' \subseteq Requests
      /\ overlapped' \subseteq Requests /\ nilInfo' \subseteq Requests
  <2>1. CASE Leave(r)
    BY <2>1 DEF Leave, PipelineTypeOK
  <2>2. CASE BeginInfo(r)
    BY <2>2 DEF InInfo, PipelineTypeOK
  <2>3. CASE ReadPermissionsFails(r) \/ SendToAggregator(r) \/ PostRatingToAggregator(r)
    BY <2>3 DEF PipelineTypeOK
  <2>4. CASE InfoFromService(r)
    BY <2>4 DEF PipelineTypeOK
  <2>5. QED
    BY <2>1, <2>2, <2>3, <2>4 DEF Arrive, PipelineTypeOK
<1>8. \A q \in Requests : acls'[q] \in Seq(Pages)
  BY <1>4 DEF AccessTyped
<1>9. QED
  BY <1>1, <1>2, <1>3, <1>4, <1>5, <1>6, <1>7, <1>8 DEF PipelineTypeOK

(***************************************************************************)
(* The variables of the pipeline keep their types.                         *)
(***************************************************************************)
THEOREM TypeCorrect == PipelineSpec => [](PipelineTypeOK /\ AccessTyped /\ Fresh)
<1>1. PipelineInit => PipelineTypeOK /\ AccessTyped /\ Fresh
  <2> SUFFICES ASSUME PipelineInit PROVE PipelineTypeOK /\ AccessTyped /\ Fresh
    OBVIOUS
  <2>1. /\ acls \in [Requests -> Seq(Pages)] /\ pageNum \in [Requests -> Nat]
        /\ responses \in [Requests -> Seq({200, 400, 403, 404, 500, 503})]
    BY DEF PipelineInit
  <2>2. ASSUME NEW r \in Requests
        PROVE  acls[r] \in Seq(Pages) /\ pageNum[r] \in 1..(Len(acls[r]) + 1)
    BY DEF PipelineInit
  <2>3. /\ stage \in [Requests -> Labels] /\ endpoint \in [Requests -> Endpoints]
        /\ options \in [Requests -> BOOLEAN] /\ token \in [Requests -> Tokens]
        /\ identity \in [Requests -> {"none", "user", "service"}]
        /\ granted \in [Requests -> BOOLEAN]
        /\ mapUse \in [Requests -> {"none", "write", "iterate"}]
    BY DEF PipelineInit, Labels, Endpoints, Tokens
  <2>4. /\ config \in Configs
        /\ forwarded \subseteq Requests /\ rbacFailed \subseteq Requests
        /\ overlapped \subseteq Requests /\ nilInfo \subseteq Requests
    BY DEF PipelineInit
  <2>5. Fresh
    BY DEF PipelineInit, Fresh
  <2>6. QED
    BY <2>1, <2>2, <2>3, <2>4, <2>5 DEF PipelineTypeOK, AccessTyped
<1>2. (PipelineTypeOK /\ AccessTyped /\ Fresh) /\ [PipelineNext]_pipelineVars => (PipelineTypeOK /\ AccessTyped /\ Fresh)'
  <2> SUFFICES ASSUME PipelineTypeOK /\ AccessTyped /\ Fresh, [PipelineNext]_pipelineVars
               PROVE  (PipelineTypeOK /\ AccessTyped /\ Fresh)'
    OBVIOUS
  <2>1. CASE PipelineNext
    BY <2>1, StepTyped
  <2>2. CASE UNCHANGED pipelineVars
    BY <2>2 DEF PipelineTypeOK, AccessTyped, Fresh
  <2>3. QED
    BY <2>1, <2>2
<1>3. QED
  BY <1>1, <1>2, PTL DEF PipelineSpec

-----------------------------------------------------------------------------
(***************************************************************************)
(* Every step keeps the identity, the token and the permissions of a       *)
(* request in agreement: they change only where the middlewares set them   *)
(* and when the request ends.                                              *)
(***************************************************************************)
LEMMA StepIdentified ==
  ASSUME PipelineTypeOK, AccessTyped, Fresh, Identified, PipelineNext
  PROVE  Identified'
<1> PICK r \in Requests : Step(r)
  BY DEF PipelineNext, Step
<1> USE DEF Step
<1> SUFFICES ASSUME NEW q \in Requests
             PROVE  /\ identity'[q] \in {"none", token'[q]}
                    /\ options'[q] => endpoint'[q] \in WithOptions
                    /\ (endpoint'[q] \in NoAuthURLs \/ options'[q]) => token'[q] # "service"
                    /\ granted'[q] => \E i \in DOMAIN acls'[q] : acls'[q][i] = "granting"
  BY DEF Identified, Exempt
<1>1. /\ identity[q] \in {"none", token[q]}
      /\ options[q] => endpoint[q] \in WithOptions
      /\ (endpoint[q] \in NoAuthURLs \/ options[q]) => token[q] # "service"
      /\ granted[q] => \E i \in DOMAIN acls[q] : acls[q][i] = "granting"
  BY DEF Identified, Exempt
<1>2. CASE Arrive(r)
  BY <1>1, <1>2 DEF Arrive, PipelineTypeOK, Fresh
<1>3. CASE Authentication(r)
  BY <1>1, <1>3 DEF Authentication, PipelineTypeOK
<1>4. CASE Authorization(r)
  <2>1. q = r => ~granted'[q]
    BY <1>4 DEF Authorization, Fresh
  <2>2. q # r => acls'[q] = acls[q]
    BY <1>4 DEF Authorization, AccessTyped
  <2>3. QED
    BY <1>1, <1>4, <2>1, <2>2 DEF Authorization
<1>5. CASE ReadPermissions(r)
  <2>1. CASE q = r
    BY <1>1, <1>5, <2>1 DEF ReadPermissions, PipelineTypeOK
  <2>2. CASE q # r
    BY <1>1, <1>5, <2>2 DEF ReadPermissions, PipelineTypeOK
  <2>3. QED
    BY <2>1, <2>2
<1>6. CASE Leave(r)
  <2>1. CASE q = r
    BY <1>6, <2>1 DEF Leave, PipelineTypeOK, NoAuthURLs
  <2>2. CASE q # r
    BY <1>1, <1>6, <2>2 DEF Leave, PipelineTypeOK, AccessTyped
  <2>3. QED
    BY <2>1, <2>2
<1>7. CASE UNCHANGED <<identity, input, granted, acls>>
  BY <1>1, <1>7
<1>8. QED
  BY <1>2, <1>3, <1>4, <1>5, <1>6, <1>7
     DEF ReadPermissionsEnds, ReadPermissionsFails, ModifyRequest, SendToAggregator, CheckRating,
         PostRatingToAggregator, SendSpec, BeginInfo, FillIn, FillInEnds, InfoFromService,
         MarshalInfo, SendInfo

(***************************************************************************)
(* Every step keeps the account of what the middlewares have established:  *)
(* the only ways past them are those that check the identity and the       *)
(* permissions, or the exemptions of info, the specifications and OPTIONS. *)
(***************************************************************************)
LEMMA StepAdmitted ==
  ASSUME PipelineTypeOK, AccessTyped, Fresh, Identified, Admitted, PipelineNext
  PROVE  Admitted'
<1> PICK r \in Requests : Step(r)
  BY DEF PipelineNext, Step
<1> DEFINE Known(q) ==
             /\ (stage[q] \in {"authorization", "rbac", "endpoint", "send"} /\ config.auth
                   /\ ~(endpoint[q] \in NoAuthURLs \/ options[q]))
                   => identity[q] # "none"
             /\ (stage[q] \in {"endpoint", "send"} /\ config.useRBAC /\ config.enforce
                   /\ token[q] = "service") => granted[q]
<1> SUFFICES ASSUME NEW q \in Requests PROVE Known(q)'
  BY DEF Admitted, Exempt
<1>1. Known(q)
  BY DEF Admitted, Exempt
<1>2. CASE Arrive(r)
  BY <1>1, <1>2 DEF Arrive, Proceed, PipelineTypeOK
<1>3. CASE Authentication(r)
  <2>1. token[r] # "none"
    BY DEF PipelineTypeOK, Tokens
  <2>2. QED
    BY <1>1, <1>3, <2>1 DEF Authentication, Proceed, Answer, PipelineTypeOK, Exempt
<1>4. CASE Authorization(r)
  <2>1. Exempt(r) => token[r] # "service"
    BY DEF Identified
  <2>2. UNCHANGED <<config, input, identity, granted>>
    BY <1>4 DEF Authorization
  <2>3. \/ stage'[q] = stage[q]
        \/ q = r /\ stage'[q] \in {"done", "rbac"} /\ stage[q] = "authorization"
        \/ /\ q = r /\ stage'[q] = "endpoint" /\ stage[q] = "authorization"
           /\ ~config.useRBAC \/ Exempt(r) \/ token[r] # "service"
    BY <1>4 DEF Authorization, Proceed, Answer, PipelineTypeOK
  <2>4. QED
    BY <1>1, <2>1, <2>2, <2>3
<1>5. CASE ReadPermissions(r)
  BY <1>1, <1>5 DEF ReadPermissions, PipelineTypeOK
<1>6. CASE ReadPermissionsEnds(r) \/ ReadPermissionsFails(r)
  <2>1. UNCHANGED <<config, input, identity, granted>>
    BY <1>6 DEF ReadPermissionsEnds, ReadPermissionsFails
  <2>2. \/ stage'[q] = stage[q]
        \/ q = r /\ stage'[q] = "done" /\ stage[q] = "rbac"
        \/ /\ q = r /\ stage'[q] = "endpoint" /\ stage[q] = "rbac"
           /\ ~config.enforce \/ granted[r]
    BY <1>6 DEF ReadPermissionsEnds, ReadPermissionsFails, Decide, Proceed, Answer, PipelineTypeOK
  <2>3. QED
    BY <1>1, <2>1, <2>2
<1>7. CASE Leave(r)
  BY <1>1, <1>7 DEF Leave, Proceed, PipelineTypeOK
<1>8. ASSUME UNCHANGED <<config, input, identity, granted>>,
             stage'[q] = stage[q] \/ stage'[q] \notin {"authorization", "rbac", "endpoint", "send"}
                \/ (stage'[q] = "send" /\ stage[q] = "endpoint")
      PROVE  Known(q)'
  BY <1>1, <1>8
<1>9. CASE ModifyRequest(r) \/ CheckRating(r)
  BY <1>8, <1>9 DEF ModifyRequest, CheckRating, Proceed, Answer, PipelineTypeOK
<1>10. CASE SendToAggregator(r) \/ PostRatingToAggregator(r) \/ SendSpec(r)
  BY <1>8, <1>10 DEF SendToAggregator, PostRatingToAggregator, SendSpec, Proceed, Answer, PipelineTypeOK
<1>11. CASE BeginInfo(r) \/ FillInEnds(r) \/ InfoFromService(r) \/ SendInfo(r)
  BY <1>8, <1>11 DEF BeginInfo, FillInEnds, InfoFromService, SendInfo, Proceed, Answer, PipelineTypeOK
<1>12. CASE FillIn(r) \/ MarshalInfo(r)
  BY <1>8, <1>12 DEF FillIn, MarshalInfo, Use, Proceed, PipelineTypeOK
<1>13. QED
  BY <1>2, <1>3, <1>4, <1>5, <1>6, <1>7, <1>9, <1>10, <1>11, <1>12 DEF Step

(***************************************************************************)
(* Every step keeps the account of what the modifiers of proxyTo and the   *)
(* checks of postRating have established, and a request that was sent on   *)
(* is done.                                                                *)
(***************************************************************************)
LEMMA StepSending ==
  ASSUME PipelineTypeOK, Sending, PipelineNext
  PROVE  Sending'
<1> PICK r \in Requests : Step(r)
  BY DEF PipelineNext, Step
<1> DEFINE Known(q) ==
             /\ stage[q] = "send" => identity[q] # "none" \/ endpoint[q] = "debug"
             /\ q \in forwarded => stage[q] = "done"
<1> SUFFICES ASSUME NEW q \in Requests PROVE Known(q)'
  BY DEF Sending
<1>1. Known(q)
  BY DEF Sending
<1>2. CASE Arrive(r)
  BY <1>1, <1>2 DEF Arrive, Proceed, PipelineTypeOK
<1>3. CASE Authentication(r)
  BY <1>1, <1>3 DEF Authentication, Proceed, Answer, PipelineTypeOK
<1>4. CASE Leave(r)
  BY <1>1, <1>4 DEF Leave, Proceed, PipelineTypeOK
<1>5. CASE ModifyRequest(r)
  BY <1>1, <1>5 DEF ModifyRequest, Proceed, Answer, PipelineTypeOK
<1>6. CASE CheckRating(r)
  BY <1>1, <1>6 DEF CheckRating, Proceed, Answer, PipelineTypeOK
<1>7. CASE SendToAggregator(r) \/ PostRatingToAggregator(r)
  BY <1>1, <1>7 DEF SendToAggregator, PostRatingToAggregator, Proceed, Answer, PipelineTypeOK
<1>8. ASSUME UNCHANGED <<input, identity, forwarded>>,
             stage'[q] = stage[q] \/ (stage'[q] # "send" /\ stage[q] # "done")
      PROVE  Known(q)'
  BY <1>1, <1>8
<1>9. CASE Authorization(r) \/ ReadPermissions(r)
  BY <1>8, <1>9 DEF Authorization, ReadPermissions, Proceed, Answer, PipelineTypeOK
<1>10. CASE ReadPermissionsEnds(r) \/ ReadPermissionsFails(r)
  BY <1>8, <1>10 DEF ReadPermissionsEnds, ReadPermissionsFails, Decide, Proceed, Answer, PipelineTypeOK
<1>11. CASE SendSpec(r) \/ BeginInfo(r) \/ FillInEnds(r) \/ InfoFromService(r) \/ SendInfo(r)
  BY <1>8, <1>11 DEF SendSpec, BeginInfo, FillInEnds, InfoFromService, SendInfo, Proceed, Answer,
                     PipelineTypeOK
<1>12. CASE FillIn(r) \/ MarshalInfo(r)
  BY <1>8, <1>12 DEF FillIn, MarshalInfo, Use, Proceed, PipelineTypeOK
<1>13. QED
  BY <1>2, <1>3, <1>4, <1>5, <1>6, <1>7, <1>9, <1>10, <1>11, <1>12 DEF Step

(***************************************************************************)
(* Nothing is sent to the aggregator without an identity, except by a      *)
(* debug endpoint while authentication is off, and nothing for a service   *)
(* account without a permission while that is enforced, whatever RBAC      *)
(* answers and however the requests interleave.                            *)
(***************************************************************************)
THEOREM ForwardedAllowed == PipelineSpec => []ForwardedOnlyIfAllowed
<1> DEFINE Inv == Identified /\ Admitted /\ Sending /\ ForwardedOnlyIfAllowed
<1>1. PipelineInit => Inv
  BY DEF PipelineInit, Identified, Admitted, Sending, ForwardedOnlyIfAllowed, Exempt
<1>2. (PipelineTypeOK /\ AccessTyped /\ Fresh) /\ Inv /\ [PipelineNext]_pipelineVars => Inv'
  <2> SUFFICES ASSUME PipelineTypeOK, AccessTyped, Fresh, Inv, [PipelineNext]_pipelineVars
               PROVE  Inv'
    OBVIOUS
  <2>1. CASE PipelineNext
    <3>1. Identified' /\ Admitted' /\ Sending'
      BY <2>1, StepIdentified, StepAdmitted, StepSending
    <3>2. PICK r \in Requests : Step(r)
      BY <2>1 DEF PipelineNext, Step
    <3> DEFINE Allowed(q) ==
                 /\ \/ identity[q] \in {"user", "service"}
                    \/ endpoint[q] = "debug" /\ ~config.auth
                 /\ (config.useRBAC /\ config.enforce /\ token[q] = "service")
                       => granted[q] /\ \E i \in DOMAIN acls[q] : acls[q][i] = "granting"
    <3>3. ASSUME NEW q \in forwarded' PROVE Allowed(q)'
      <4>1. q \in Requests
        BY <2>1, <3>3, StepTyped DEF PipelineTypeOK
      <4>2. CASE q \in forwarded
        <5>1. Allowed(q) /\ stage[q] = "done"
          BY <4>2 DEF ForwardedOnlyIfAllowed, Sending, PipelineTypeOK
        <5>2. ~Leave(q)
          BY <3>3 DEF Leave
        <5>3. /\ config' = config /\ identity'[q] = identity[q] /\ endpoint'[q] = endpoint[q]
              /\ token'[q] = token[q] /\ granted'[q] = granted[q] /\ acls'[q] = acls[q]
          BY <3>2, <4>1, <5>1, <5>2
             DEF Step, Arrive, Authentication, Authorization, ReadPermissions, ReadPermissionsEnds,
                 ReadPermissionsFails, ModifyRequest, SendToAggregator, CheckRating,
                 PostRatingToAggregator, SendSpec, BeginInfo, FillIn, FillInEnds,
                 InfoFromService, MarshalInfo, SendInfo, Leave, PipelineTypeOK, AccessTyped
        <5>4. QED
          BY <5>1, <5>3
      <4>3. CASE q \notin forwarded
        <5>1. SendToAggregator(q) \/ PostRatingToAggregator(q)
          <6>1. CASE SendToAggregator(r) \/ PostRatingToAggregator(r)
            <7>1. forwarded' = forwarded \cup {r}
              BY <6>1 DEF SendToAggregator, PostRatingToAggregator
            <7>2. q = r
              BY <3>3, <4>3, <7>1
            <7>3. QED
              BY <6>1, <7>2
          <6>2. CASE Leave(r)
            BY <3>3, <4>3, <6>2 DEF Leave
          <6>3. CASE forwarded' = forwarded
            BY <3>3, <4>3, <6>3
          <6>4. QED
            BY <3>2, <6>1, <6>2, <6>3
               DEF Step, Arrive, Authentication, Authorization, ReadPermissions,
                   ReadPermissionsEnds, ReadPermissionsFails, ModifyRequest, CheckRating,
                   SendSpec, BeginInfo, FillIn, FillInEnds, InfoFromService, MarshalInfo, SendInfo
        <5>2. UNCHANGED <<config, input, identity, access>> /\ stage[q] = "send"
          BY <5>1 DEF SendToAggregator, PostRatingToAggregator
        <5>3. identity[q] \in {"user", "service"} \/ (identity[q] = "none" /\ endpoint[q] = "debug")
          BY <4>1, <5>2 DEF Sending, PipelineTypeOK
        <5>4. endpoint[q] = "debug" => ~Exempt(q)
          BY <4>1 DEF Identified, Exempt, WithOptions, NoAuthURLs
        <5>5. config.auth /\ ~Exempt(q) => identity[q] # "none"
          BY <4>1, <5>2 DEF Admitted
        <5>6. config.useRBAC /\ config.enforce /\ token[q] = "service" => granted[q]
          BY <4>1, <5>2 DEF Admitted
        <5>7. granted[q] => \E i \in DOMAIN acls[q] : acls[q][i] = "granting"
          BY <4>1 DEF Identified
        <5>8. Allowed(q)
          BY <5>3, <5>4, <5>5, <5>6, <5>7
        <5>9. QED
          BY <5>2, <5>8
      <4>4. QED
        BY <4>2, <4>3
    <3>4. QED
      BY <3>1, <3>3 DEF ForwardedOnlyIfAllowed
  <2>2. CASE UNCHANGED pipelineVars
    BY <2>2 DEF Identified, Admitted, Sending, ForwardedOnlyIfAllowed, Exempt
  <2>3. QED
    BY <2>1, <2>2
<1>3. QED
  BY <1>1, <1>2, TypeCorrect, PTL DEF PipelineSpec

-----------------------------------------------------------------------------
(***************************************************************************)
(* A request is answered by the step that makes it done, and only then.    *)
(***************************************************************************)
LEMMA StepAnswers ==
  ASSUME PipelineTypeOK, Unanswered, PipelineNext, NEW q \in Requests
  PROVE  /\ stage'[q] # "done" => responses'[q] = <<>>
         /\ stage'[q] = "done" /\ stage[q] # "done" =>
               /\ responses'[q] # <<>>
               /\ Len(responses'[q]) > 1 => endpoint'[q] = "rating" /\ responses'[q][1] >= 400
         /\ stage'[q] = "done" /\ stage[q] = "done" =>
               responses'[q] = responses[q] /\ endpoint'[q] = endpoint[q]
<1> DEFINE Goal ==
             /\ stage'[q] # "done" => responses'[q] = <<>>
             /\ stage'[q] = "done" /\ stage[q] # "done" =>
                   /\ responses'[q] # <<>>
                   /\ Len(responses'[q]) > 1 => endpoint'[q] = "rating" /\ responses'[q][1] >= 400
             /\ stage'[q] = "done" /\ stage[q] = "done" =>
                   responses'[q] = responses[q] /\ endpoint'[q] = endpoint[q]
<1> SUFFICES Goal
  OBVIOUS
<1> PICK r \in Requests : Step(r)
  BY DEF PipelineNext, Step
<1>1. stage[q] # "done" => responses[q] = <<>>
  BY DEF Unanswered
<1>2. ASSUME NEW status \in Codes, Answer(r, status), UNCHANGED endpoint, stage[r] # "done"
      PROVE  Goal
  <2>1. responses'[r] = <<status>>
    <3>1. responses[r] = <<>> /\ Append(<<>>, status) = <<status>>
      BY <1>2 DEF Unanswered
    <3>2. QED
      BY <1>2, <3>1 DEF Answer, WriteStatus, PipelineTypeOK
  <2>2. q # r => stage'[q] = stage[q] /\ responses'[q] = responses[q]
    BY <1>2 DEF Answer, WriteStatus, Proceed, PipelineTypeOK
  <2>3. stage'[r] = "done"
    BY <1>2 DEF Answer, Proceed, PipelineTypeOK
  <2>4. responses'[r] # <<>> /\ ~(Len(responses'[r]) > 1)
    BY <2>1
  <2>5. QED
    BY <1>1, <1>2, <2>2, <2>3, <2>4
<1>3. ASSUME NEW label, Proceed(r, label), UNCHANGED <<responses, endpoint>>, stage[r] # "done", label # "done"
      PROVE  Goal
  BY <1>1, <1>3 DEF Proceed, PipelineTypeOK, Unanswered
<1> HIDE DEF Goal
<1>4. 200 \in Codes /\ 400 \in Codes /\ 403 \in Codes /\ 404 \in Codes /\ 500 \in Codes /\ 503 \in Codes
  BY DEF Codes
<1>5. CASE Arrive(r)
  BY <1>1, <1>5 DEF Arrive, Proceed, PipelineTypeOK, Goal
<1>6. CASE Authentication(r)
  BY <1>2, <1>3, <1>4, <1>6, TokenErrorCodes DEF Authentication
<1>7. CASE Authorization(r)
  BY <1>2, <1>3, <1>4, <1>7, TokenErrorCodes DEF Authorization
<1>8. CASE ReadPermissions(r)
  BY <1>1, <1>8 DEF ReadPermissions, Goal
<1>9. CASE ReadPermissionsEnds(r) \/ ReadPermissionsFails(r)
  BY <1>2, <1>3, <1>4, <1>9 DEF ReadPermissionsEnds, ReadPermissionsFails, Decide
<1>10. CASE ModifyRequest(r)
  BY <1>2, <1>3, <1>4, <1>10 DEF ModifyRequest
<1>11. CASE SendToAggregator(r)
  BY <1>2, <1>4, <1>11 DEF SendToAggregator
<1>12. CASE CheckRating(r)
  BY <1>2, <1>3, <1>4, <1>12 DEF CheckRating
<1>13. CASE PostRatingToAggregator(r)
  <2>1. ASSUME NEW status \in Codes, WriteStatus(r, status)
        PROVE  Goal
    BY <1>13, <1>2, <2>1 DEF PostRatingToAggregator, Answer
  <2>2. ASSUME NEW status \in {400, 500}, responses' = [responses EXCEPT ![r] = @ \o <<status, 200>>]
        PROVE  Goal
    <3>1. responses[r] = <<>> /\ stage[r] = "send" /\ endpoint'[r] = "rating"
      BY <1>13 DEF PostRatingToAggregator, Unanswered
    <3>2. <<>> \o <<status, 200>> = <<status, 200>>
      OBVIOUS
    <3>3. responses'[r] = <<status, 200>>
      BY <2>2, <3>1, <3>2 DEF PipelineTypeOK
    <3>4. stage'[r] = "done" /\ (q # r => stage'[q] = stage[q])
      BY <1>13 DEF PostRatingToAggregator, Proceed, PipelineTypeOK
    <3>5. UNCHANGED endpoint /\ (q # r => responses'[q] = responses[q])
      BY <1>13, <2>2 DEF PostRatingToAggregator, PipelineTypeOK
    <3>6. responses'[r] # <<>> /\ responses'[r][1] >= 400
      BY <3>3
    <3>7. QED
      BY <1>1, <3>1, <3>4, <3>5, <3>6 DEF Goal
  <2>3. CASE \E status \in {200, 404, 500} : WriteStatus(r, status)
    BY <1>4, <2>1, <2>3
  <2>4. CASE \E status \in {400, 500} : responses' = [responses EXCEPT ![r] = @ \o <<status, 200>>]
    <3>1. PICK status \in {400, 500} : responses' = [responses EXCEPT ![r] = @ \o <<status, 200>>]
      BY <2>4
    <3>2. QED
      BY <2>2, <3>1
  <2>5. QED
    BY <1>13, <2>3, <2>4 DEF PostRatingToAggregator
<1>14. CASE SendSpec(r)
  BY <1>2, <1>4, <1>14 DEF SendSpec
<1>15. CASE BeginInfo(r) \/ FillInEnds(r) \/ InfoFromService(r)
  BY <1>3, <1>15 DEF BeginInfo, FillInEnds, InfoFromService
<1>16. CASE FillIn(r) \/ MarshalInfo(r)
  <2>1. CASE Proceed(r, "writing") \/ Proceed(r, "iterating")
    BY <1>3, <1>16, <2>1 DEF FillIn, MarshalInfo
  <2>2. CASE stage' = [p \in Requests |-> IF stage[p] \in {"idle", "done", "lost"} THEN stage[p] ELSE "lost"]
    BY <1>1, <1>16, <2>2 DEF FillIn, MarshalInfo, Goal
  <2>3. QED
    BY <1>16, <2>1, <2>2 DEF FillIn, MarshalInfo, Use
<1>17. CASE SendInfo(r)
  BY <1>2, <1>4, <1>17 DEF SendInfo
<1>18. CASE Leave(r)
  BY <1>1, <1>18 DEF Leave, Proceed, PipelineTypeOK, Goal
<1>19. QED
  BY <1>5, <1>6, <1>7, <1>8, <1>9, <1>10, <1>11, <1>12, <1>13, <1>14, <1>15, <1>16, <1>17, <1>18
     DEF Step, Goal

(***************************************************************************)
(* Only the requests between the two ends of an access are at the shared   *)
(* map, and requests that are in infoMap together have been recorded when  *)
(* the later of them came in.                                              *)
(***************************************************************************)
LEMMA StepSharedMap ==
  ASSUME PipelineTypeOK, SharedMap, PipelineNext
  PROVE  SharedMap'
<1> PICK r \in Requests : Step(r)
  BY DEF PipelineNext, Step
<1> DEFINE Inside == {"fillIn", "writing", "services", "marshal", "iterating"}
<1> DEFINE At(q) == mapUse[q] = "none" \/ stage[q] \in {"writing", "iterating"}
<1> DEFINE Recorded(p, q) == stage[p] \in Inside /\ stage[q] \in Inside /\ p # q => p \in overlapped
<1> SUFFICES ASSUME NEW p \in Requests, NEW q \in Requests
             PROVE  At(q)' /\ Recorded(p, q)'
  BY DEF SharedMap, InInfo
<1>1. At(p) /\ At(q) /\ Recorded(p, q) /\ Recorded(q, p)
  BY DEF SharedMap, InInfo
<1>2. CASE BeginInfo(r)
  <2>1. mapUse' = mapUse /\ stage[r] = "endpoint" /\ stage' = [stage EXCEPT ![r] = "fillIn"]
    BY <1>2 DEF BeginInfo, Proceed
  <2>2. At(q)'
    BY <1>1, <2>1 DEF PipelineTypeOK
  <2>3. overlapped \subseteq overlapped'
    BY <1>2 DEF BeginInfo
  <2>4. \A a \in Requests : stage[a] \in Inside => a \in overlapped' /\ r \in overlapped'
    BY <1>2 DEF BeginInfo, InInfo
  <2>5. Recorded(p, q)'
    BY <1>1, <2>1, <2>3, <2>4 DEF PipelineTypeOK
  <2>6. QED
    BY <2>2, <2>5
<1>3. CASE FillIn(r) \/ MarshalInfo(r)
  <2>1. UNCHANGED overlapped
    BY <1>3 DEF FillIn, MarshalInfo
  <2>2. CASE /\ stage[r] \in Inside
             /\ \E use \in {"write", "iterate"} : mapUse' = [mapUse EXCEPT ![r] = use]
             /\ Proceed(r, "writing") \/ Proceed(r, "iterating")
    BY <1>1, <2>1, <2>2 DEF Proceed, PipelineTypeOK
  <2>3. CASE /\ mapUse' = [a \in Requests |-> "none"]
             /\ stage' = [a \in Requests |-> IF stage[a] \in {"idle", "done", "lost"} THEN stage[a] ELSE "lost"]
    BY <1>1, <2>1, <2>3
  <2>4. QED
    BY <1>3, <2>2, <2>3 DEF FillIn, MarshalInfo, Use
<1>4. CASE FillInEnds(r) \/ SendInfo(r)
  BY <1>1, <1>4 DEF FillInEnds, SendInfo, Answer, Proceed, PipelineTypeOK
<1>5. CASE Leave(r)
  BY <1>1, <1>5 DEF Leave, Proceed, PipelineTypeOK
<1>6. ASSUME UNCHANGED <<mapUse, overlapped>>, NEW label, Proceed(r, label),
             label \in Inside => stage[r] \in Inside,
             stage[r] \notin {"writing", "iterating"}
      PROVE  At(q)' /\ Recorded(p, q)'
  BY <1>1, <1>6 DEF Proceed, PipelineTypeOK
<1>7. CASE InfoFromService(r)
  BY <1>6, <1>7 DEF InfoFromService
<1>8. CASE ReadPermissions(r)
  BY <1>1, <1>8 DEF ReadPermissions
<1>9. QED
  BY <1>2, <1>3, <1>4, <1>5, <1>6, <1>7, <1>8
     DEF Step, Arrive, Authentication, Authorization, ReadPermissionsEnds, ReadPermissionsFails,
         ModifyRequest, SendToAggregator, CheckRating, PostRatingToAggregator, SendSpec,
         Decide, Answer

(***************************************************************************)
(* A request is lost only where a service sent no info part, or where two  *)
(* requests in infoMap were at the shared map at the same time.            *)
(***************************************************************************)
LEMMA StepLost ==
  ASSUME PipelineTypeOK, SharedMap, LostExplained, PipelineNext
  PROVE  LostExplained'
<1> PICK r \in Requests : Step(r)
  BY DEF PipelineNext, Step
<1> DEFINE Two == \E a \in overlapped, b \in overlapped : a # b
<1> SUFFICES ASSUME NEW q \in Requests, stage'[q] = "lost"
             PROVE  q \in nilInfo' \/ Two'
  BY DEF LostExplained
<1>1. stage[q] = "lost" => q \in nilInfo \/ Two
  BY DEF LostExplained
<1>2. CASE FillIn(r) \/ MarshalInfo(r)
  <2>1. UNCHANGED <<overlapped, nilInfo>> /\ stage[r] \in {"fillIn", "marshal"}
    BY <1>2 DEF FillIn, MarshalInfo
  <2>2. CASE Proceed(r, "writing") \/ Proceed(r, "iterating")
    BY <1>1, <2>1, <2>2 DEF Proceed, PipelineTypeOK
  <2>3. CASE \E other \in Requests \ {r} : mapUse[other] \in {"write", "iterate"}
    <3>1. PICK other \in Requests \ {r} : mapUse[other] \in {"write", "iterate"}
      BY <2>3
    <3>2. stage[other] \in {"writing", "iterating"}
      BY <3>1 DEF SharedMap
    <3>3. r \in InInfo /\ other \in InInfo
      BY <2>1, <3>2 DEF InInfo
    <3>4. r \in overlapped /\ other \in overlapped /\ r # other
      BY <3>3 DEF SharedMap
    <3>5. QED
      BY <2>1, <3>4
  <2>4. QED
    BY <1>2, <2>2, <2>3 DEF FillIn, MarshalInfo, Use
<1>3. CASE Leave(r)
  BY <1>1, <1>3 DEF Leave, Proceed, PipelineTypeOK
<1>4. CASE InfoFromService(r)
  BY <1>1, <1>4 DEF InfoFromService, Proceed, PipelineTypeOK
<1>5. CASE BeginInfo(r)
  <2>1. stage[q] = "lost" /\ UNCHANGED nilInfo
    BY <1>5 DEF BeginInfo, Proceed, PipelineTypeOK
  <2>2. overlapped \subseteq overlapped'
    BY <1>5 DEF BeginInfo
  <2>3. QED
    BY <1>1, <2>1, <2>2
<1>6. ASSUME UNCHANGED <<nilInfo, overlapped>>, NEW label, Proceed(r, label), label # "lost"
      PROVE  q \in nilInfo' \/ Two'
  BY <1>1, <1>6 DEF Proceed, PipelineTypeOK
<1>7. CASE ReadPermissions(r)
  BY <1>1, <1>7 DEF ReadPermissions
<1>8. QED
  BY <1>2, <1>3, <1>4, <1>5, <1>6, <1>7
     DEF Step, Arrive, Authentication, Authorization, ReadPermissionsEnds, ReadPermissionsFails,
         ModifyRequest, SendToAggregator, CheckRating, PostRatingToAggregator, SendSpec,
         FillInEnds, SendInfo, Decide, Answer

(***************************************************************************)
(* Every request is answered, with one response except after a rating that *)
(* cannot be decoded; one is lost only if info requests were in progress   *)
(* at the same time, or a service sent no info part.                       *)
(***************************************************************************)
THEOREM Answered == PipelineSpec => []AnsweredUnlessInfoPanics
<1> DEFINE Done ==
             \A r \in Requests : stage[r] = "done" =>
                 /\ responses[r] # <<>>
                 /\ Len(responses[r]) > 1 => endpoint[r] = "rating" /\ responses[r][1] >= 400
<1> DEFINE Inv == Unanswered /\ SharedMap /\ LostExplained /\ Done
<1>1. PipelineInit => Inv
  BY DEF PipelineInit, Unanswered, SharedMap, LostExplained, InInfo
<1>2. (PipelineTypeOK /\ AccessTyped /\ Fresh) /\ Inv /\ [PipelineNext]_pipelineVars => Inv'
  <2> SUFFICES ASSUME PipelineTypeOK, AccessTyped, Fresh, Inv, [PipelineNext]_pipelineVars
               PROVE  Inv'
    OBVIOUS
  <2>1. CASE PipelineNext
    <3>1. SharedMap' /\ LostExplained'
      BY <2>1, StepSharedMap, StepLost
    <3>2. ASSUME NEW q \in Requests
          PROVE  /\ stage'[q] # "done" => responses'[q] = <<>>
                 /\ stage'[q] = "done" /\ stage[q] # "done" =>
                       /\ responses'[q] # <<>>
                       /\ Len(responses'[q]) > 1 => endpoint'[q] = "rating" /\ responses'[q][1] >= 400
                 /\ stage'[q] = "done" /\ stage[q] = "done" =>
                       responses'[q] = responses[q] /\ endpoint'[q] = endpoint[q]
      BY <2>1, StepAnswers
    <3>3. Unanswered'
      BY <3>2 DEF Unanswered
    <3>4. Done'
      BY <3>2
    <3>5. QED
      BY <3>1, <3>3, <3>4
  <2>2. CASE UNCHANGED pipelineVars
    BY <2>2 DEF Unanswered, SharedMap, LostExplained, InInfo
  <2>3. QED
    BY <2>1, <2>2
<1>3. PipelineTypeOK /\ Inv => AnsweredUnlessInfoPanics
  <2> SUFFICES ASSUME PipelineTypeOK, Inv, NEW r \in Requests, stage[r] = "lost", r \notin nilInfo
               PROVE  Cardinality(overlapped) > 1
    BY DEF AnsweredUnlessInfoPanics
  <2>1. PICK p \in overlapped, q \in overlapped : p # q
    BY DEF LostExplained
  <2>2. IsFiniteSet(overlapped)
    BY RequestPipelineAssumption, FS_Subset DEF PipelineTypeOK
  <2>3. IsFiniteSet(overlapped \ {p}) /\ Cardinality(overlapped \ {p}) = Cardinality(overlapped) - 1
    BY <2>2, FS_RemoveElement
  <2>4. Cardinality(overlapped \ {p}) # 0
    BY <2>1, <2>3, FS_EmptySet
  <2>5. Cardinality(overlapped \ {p}) \in Nat /\ Cardinality(overlapped) \in Nat
    BY <2>2, <2>3, FS_CardinalityType
  <2>6. QED
    BY <2>3, <2>4, <2>5
<1>4. QED
  BY <1>1, <1>2, <1>3, TypeCorrect, PTL DEF PipelineSpec
=============================================================================
