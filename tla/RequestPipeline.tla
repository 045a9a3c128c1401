--------------------------- MODULE RequestPipeline ---------------------------
(***************************************************************************)
(* What happens to a request before and instead of a handler of its own:   *)
(* the Authentication and Authorization middlewares with the RBAC client   *)
(* (server/auth_middleware.go, auth/), the requests that are modified and  *)
(* proxied to the aggregator (proxyTo in server/server.go), the rating     *)
(* (server/rating.go) and the info endpoint (server/handlers_v1.go).       *)
(*                                                                         *)
(* Requests run concurrently.  They share the map server.InfoParams, which *)
(* the info endpoint writes and marshals without a lock; the Go runtime    *)
(* may abort the process when it notices two such accesses at once.        *)
(***************************************************************************)
EXTENDS Naturals, Sequences, FiniteSets

CONSTANTS Requests,    \* requests in progress at the same time
          MaxPages     \* bound: pages of the permissions of an account

ASSUME RequestPipelineAssumption == IsFiniteSet(Requests) /\ MaxPages \in Nat \ {0}

\* "vote": the votes, toggles and feedback of a rule, with the modifiers that put
\* the organisation and perhaps the user into the URL and check the rule;
\* "debugVote": the debug endpoint with the user modifier; "debug": those that are
\* proxied as they are; "spec": metrics and the OpenAPI files.
Endpoints == {"vote", "debugVote", "debug", "rating", "info", "spec"}
Proxied == {"vote", "debugVote", "debug"}
NoAuthURLs == {"info", "spec"}
WithOptions == {"vote", "info"}          \* registered for the method OPTIONS too

\* The identity header: absent, no base64 or no JSON; without organisation; of a
\* user; of a service account.
Tokens == {"invalid", "noOrg", "user", "service"}
Configs == [auth : BOOLEAN, authType : {"xrh", "other"}, useRBAC : BOOLEAN, enforce : BOOLEAN]

\* A page of permissions: with one for the recommendation results of ocp-advisor
\* (or all its resources), or with others only.
Pages == {"granting", "other"}

VARIABLES
    config,      \* Config.Auth, AuthType, UseRBAC and the EnforceAuth of RBAC
    stage,       \* where each request is
    endpoint,    \* what it asks for
    options,     \* its method is OPTIONS
    token,       \* its identity header
    identity,    \* the identity in its context: "none" or the token
    acls,        \* the pages of permissions RBAC has for the account
    pageNum,     \* the page requestAccess asks for
    granted,     \* aggregatePermissions has found a permission
    mapUse,      \* what the request does to server.InfoParams
    forwarded,   \* history: the requests sent on to the aggregator
    rbacFailed,  \* history: those for which RBAC did not answer
    overlapped,  \* history: info requests that were in progress at the same time
    nilInfo,     \* history: those whose service answered without an info part
    responses    \* status codes written to each response, in order

input == <<endpoint, options, token>>
access == <<acls, pageNum, granted, rbacFailed>>
info == <<mapUse, overlapped, nilInfo>>
pipelineVars == <<config, stage, input, identity, access, info, forwarded, responses>>

PipelineInit ==
    /\ config \in Configs
    /\ stage = [r \in Requests |-> "idle"]
    /\ endpoint = [r \in Requests |-> "spec"]
    /\ options = [r \in Requests |-> FALSE]
    /\ token = [r \in Requests |-> "invalid"]
    /\ identity = [r \in Requests |-> "none"]
    /\ acls = [r \in Requests |-> <<>>]
    /\ pageNum = [r \in Requests |-> 1]
    /\ granted = [r \in Requests |-> FALSE]
    /\ mapUse = [r \in Requests |-> "none"]
    /\ forwarded = {}
    /\ rbacFailed = {}
    /\ overlapped = {}
    /\ nilInfo = {}
    /\ responses = [r \in Requests |-> <<>>]

Proceed(r, label) == stage' = [stage EXCEPT ![r] = label]
WriteStatus(r, status) == responses' = [responses EXCEPT ![r] = Append(@, status)]
Answer(r, status) == WriteStatus(r, status) /\ Proceed(r, "done")

\* Requests inside infoMap.
InInfo == {r \in Requests : stage[r] \in {"fillIn", "writing", "services", "marshal", "iterating"}}

Arrive(r) ==
    /\ stage[r] = "idle"
    /\ \E e \in Endpoints, o \in BOOLEAN, t \in Tokens :
          /\ o => e \in WithOptions
          /\ (o \/ e \in NoAuthURLs) => t = "user"      \* nobody reads the header
          /\ endpoint' = [endpoint EXCEPT ![r] = e]
          /\ options' = [options EXCEPT ![r] = o]
          /\ token' = [token EXCEPT ![r] = t]
    /\ Proceed(r, "authentication")
    /\ UNCHANGED <<config, identity, access, info, forwarded, responses>>

(***************************************************************************)
(* The middlewares                                                         *)
(***************************************************************************)
\* URLs and methods for which both middlewares do nothing.
Exempt(r) == endpoint[r] \in NoAuthURLs \/ options[r]

\* DecodeTokenFromHeader: 403 for a token that cannot be read, 500 for an
\* unknown type of authentication.
TokenErrors(r) ==
    (IF token[r] = "invalid" THEN {403} ELSE {})
        \cup (IF config.authType # "xrh" THEN {500} ELSE {})

\* Deviation: a token without organisation is let through.
AuthenticationAnyOrg(r) ==
    /\ stage[r] = "authentication"
    /\ \/ /\ ~config.auth \/ Exempt(r)
          /\ Proceed(r, "authorization") /\ UNCHANGED <<identity, responses>>
       \/ /\ config.auth /\ ~Exempt(r)
          /\ \E status \in TokenErrors(r) : Answer(r, status)
          /\ UNCHANGED identity
       \/ /\ config.auth /\ ~Exempt(r) /\ TokenErrors(r) = {}
          /\ identity' = [identity EXCEPT ![r] = token[r]]
          /\ Proceed(r, "authorization") /\ UNCHANGED responses
    /\ UNCHANGED <<config, input, access, info, forwarded>>

Authentication(r) ==
    /\ stage[r] = "authentication"
    /\ \/ /\ ~config.auth \/ Exempt(r)
          /\ Proceed(r, "authorization") /\ UNCHANGED <<identity, responses>>
       \/ /\ config.auth /\ ~Exempt(r)
          /\ \E status \in TokenErrors(r) : Answer(r, status)
          /\ UNCHANGED identity
       \/ /\ config.auth /\ ~Exempt(r) /\ TokenErrors(r) = {} /\ token[r] = "noOrg"
          /\ Answer(r, 403)
          /\ UNCHANGED identity
       \/ /\ config.auth /\ ~Exempt(r) /\ TokenErrors(r) = {} /\ token[r] # "noOrg"
          /\ identity' = [identity EXCEPT ![r] = token[r]]
          /\ Proceed(r, "authorization") /\ UNCHANGED responses
    /\ UNCHANGED <<config, input, access, info, forwarded>>

\* Only service accounts are checked.
Authorization(r) ==
    /\ stage[r] = "authorization"
    /\ \/ /\ ~config.useRBAC \/ Exempt(r)
          /\ Proceed(r, "endpoint") /\ UNCHANGED <<acls, responses>>
       \/ /\ config.useRBAC /\ ~Exempt(r)
          /\ \E status \in TokenErrors(r) : Answer(r, status)
          /\ UNCHANGED acls
       \/ /\ config.useRBAC /\ ~Exempt(r) /\ TokenErrors(r) = {} /\ token[r] # "service"
          /\ Proceed(r, "endpoint") /\ UNCHANGED <<acls, responses>>
       \/ /\ config.useRBAC /\ ~Exempt(r) /\ TokenErrors(r) = {} /\ token[r] = "service"
          /\ \E n \in 0..MaxPages : \E pages \in [1..n -> Pages] : acls' = [acls EXCEPT ![r] = pages]
          /\ Proceed(r, "rbac") /\ UNCHANGED responses
    /\ UNCHANGED <<config, input, identity, pageNum, granted, rbacFailed, info, forwarded>>

\* The URL of the first page is that of the configuration.  Those of the others
\* are made of the host alone and links.next: without a scheme, so that the
\* request for them cannot be sent.
HasScheme(page) == page = 1

\* What Authorization does with the permissions, once they are read.
Decide(r, permitted) ==
    IF permitted \/ ~config.enforce
       THEN Proceed(r, "endpoint") /\ UNCHANGED responses
       ELSE Answer(r, 403)

\* requestAccess for one page that is there: what it grants is kept whatever
\* becomes of the next one.
ReadPermissions(r) ==
    /\ stage[r] = "rbac" /\ HasScheme(pageNum[r]) /\ pageNum[r] \in DOMAIN acls[r]
    /\ granted' = [granted EXCEPT ![r] = @ \/ acls[r][pageNum[r]] = "granting"]
    /\ pageNum' = [pageNum EXCEPT ![r] = @ + 1]
    /\ UNCHANGED <<config, stage, input, identity, acls, rbacFailed, info, forwarded, responses>>

\* There is no (other) page, or it cannot be asked for.
ReadPermissionsEnds(r) ==
    /\ stage[r] = "rbac" /\ (pageNum[r] \notin DOMAIN acls[r] \/ ~HasScheme(pageNum[r]))
    /\ Decide(r, granted[r])
    /\ UNCHANGED <<config, input, identity, access, info, forwarded>>

\* Deviation: an account is let through if RBAC does not answer.
ReadPermissionsFailsOpen(r) ==
    /\ stage[r] = "rbac" /\ HasScheme(pageNum[r])
    /\ rbacFailed' = rbacFailed \cup {r}
    /\ Decide(r, TRUE)
    /\ UNCHANGED <<config, input, identity, acls, pageNum, granted, info, forwarded>>

\* No answer, a status other than 200, or a body that is no JSON.
ReadPermissionsFails(r) ==
    /\ stage[r] = "rbac" /\ HasScheme(pageNum[r])
    /\ rbacFailed' = rbacFailed \cup {r}
    /\ Decide(r, granted[r])
    /\ UNCHANGED <<config, input, identity, acls, pageNum, granted, info, forwarded>>

(***************************************************************************)
(* proxyTo, postRating and the endpoints without authentication            *)
(***************************************************************************)
\* Deviation: the modifiers do not look for an identity.
ModifyAnyRequest(r) ==
    /\ stage[r] = "endpoint" /\ endpoint[r] \in Proxied
    /\ \/ Proceed(r, "send") /\ UNCHANGED responses
       \/ endpoint[r] = "vote" /\ Answer(r, 404)
    /\ UNCHANGED <<config, input, identity, access, info, forwarded>>

\* Deviation: proxyTo does not return after the error of a modifier.
ModifyRequestGoesOn(r) ==
    /\ stage[r] = "endpoint" /\ endpoint[r] \in Proxied
    /\ \/ (identity[r] # "none" \/ endpoint[r] = "debug") /\ UNCHANGED responses
       \/ identity[r] = "none" /\ endpoint[r] # "debug" /\ WriteStatus(r, 400)
    /\ Proceed(r, "send")
    /\ UNCHANGED <<config, input, identity, access, info, forwarded>>

\* The request modifiers of proxyTo: no identity in the context (400 or 403), an
\* unknown rule or content that is not ready (404).
ModifyRequest(r) ==
    /\ stage[r] = "endpoint" /\ endpoint[r] \in Proxied
    /\ \/ endpoint[r] = "debug" /\ Proceed(r, "send") /\ UNCHANGED responses
       \/ endpoint[r] # "debug" /\ identity[r] # "none" /\ Proceed(r, "send") /\ UNCHANGED responses
       \/ endpoint[r] = "vote" /\ identity[r] = "none" /\ Answer(r, 400)
       \/ endpoint[r] = "debugVote" /\ identity[r] = "none" /\ Answer(r, 403)
       \/ endpoint[r] = "vote" /\ identity[r] # "none" /\ Answer(r, 404)
    /\ UNCHANGED <<config, input, identity, access, info, forwarded>>

\* The aggregator does not answer (503), its body cannot be read (500), or its
\* status, here 200 or 404, is passed on.
SendToAggregator(r) ==
    /\ stage[r] = "send" /\ endpoint[r] \in Proxied
    /\ forwarded' = forwarded \cup {r}
    /\ \E status \in {200, 404, 500, 503} : Answer(r, status)
    /\ UNCHANGED <<config, input, identity, access, info>>

\* postRating: no identity in the context (403), a body that cannot be read (500)
\* or is no rating (400).
CheckRating(r) ==
    /\ stage[r] = "endpoint" /\ endpoint[r] = "rating"
    /\ \/ identity[r] = "none" /\ Answer(r, 403)
       \/ identity[r] # "none" /\ \E status \in {400, 500} : Answer(r, status)
       \/ identity[r] # "none" /\ Proceed(r, "send") /\ UNCHANGED responses
    /\ UNCHANGED <<config, input, identity, access, info, forwarded>>

\* postRatingToAggregator: the aggregator does not answer (500), or its status,
\* here 200 or 404, is passed on.  A rating that cannot be decoded is an error,
\* but the function does not return: the empty rating follows with status 200.
PostRatingToAggregator(r) ==
    /\ stage[r] = "send" /\ endpoint[r] = "rating"
    /\ forwarded' = forwarded \cup {r}
    /\ Proceed(r, "done")
    /\ \/ \E status \in {200, 404, 500} : WriteStatus(r, status)
       \/ \E status \in {400, 500} : responses' = [responses EXCEPT ![r] = @ \o <<status, 200>>]
    /\ UNCHANGED <<config, input, identity, access, info>>

SendSpec(r) ==
    /\ stage[r] = "endpoint" /\ endpoint[r] = "spec"
    /\ Answer(r, 200)
    /\ UNCHANGED <<config, input, identity, access, info, forwarded>>

(***************************************************************************)
(* infoMap                                                                 *)
(***************************************************************************)
BeginInfo(r) ==
    /\ stage[r] = "endpoint" /\ endpoint[r] = "info"
    /\ Proceed(r, "fillIn")
    /\ overlapped' = IF InInfo = {} THEN overlapped ELSE overlapped \cup InInfo \cup {r}
    /\ UNCHANGED <<config, input, identity, access, mapUse, nilInfo, forwarded, responses>>

\* Access to the shared map begins.  If another request is at it, and one of the
\* two writes, the runtime may notice and abort: every request is lost.
Use(r, use, label) ==
    \/ /\ mapUse' = [mapUse EXCEPT ![r] = use]
       /\ Proceed(r, label)
    \/ /\ \E other \in Requests \ {r} :
             mapUse[other] = "write" \/ (mapUse[other] = "iterate" /\ use = "write")
       /\ stage' = [q \in Requests |-> IF stage[q] \in {"idle", "done", "lost"} THEN stage[q] ELSE "lost"]
       /\ mapUse' = [q \in Requests |-> "none"]

\* fillInSmartProxyInfoParams sets the status in server.InfoParams, which is
\* filled once at start.
FillIn(r) ==
    /\ stage[r] = "fillIn"
    /\ Use(r, "write", "writing")
    /\ UNCHANGED <<config, input, identity, access, overlapped, nilInfo, forwarded, responses>>

FillInEnds(r) ==
    /\ stage[r] = "writing"
    /\ mapUse' = [mapUse EXCEPT ![r] = "none"]
    /\ Proceed(r, "services")
    /\ UNCHANGED <<config, input, identity, access, overlapped, nilInfo, forwarded, responses>>

\* Deviation: the error of a service is put into the map that was not returned.
InfoFromServiceNilMap(r) ==
    /\ stage[r] = "services"
    /\ Proceed(r, "marshal") \/ Proceed(r, "lost")
    /\ UNCHANGED <<config, input, identity, access, info, forwarded, responses>>

\* infoFromService for the content service and the aggregator: an error becomes
\* the status, but an answer without an info part is a nil map, and the
\* assignment to it panics.  The HTTP server recovers; no response is sent.
InfoFromService(r) ==
    /\ stage[r] = "services"
    /\ \/ Proceed(r, "marshal") /\ UNCHANGED nilInfo
       \/ Proceed(r, "lost") /\ nilInfo' = nilInfo \cup {r}
    /\ UNCHANGED <<config, input, identity, access, mapUse, overlapped, forwarded, responses>>

MarshalInfo(r) ==
    /\ stage[r] = "marshal"
    /\ Use(r, "iterate", "iterating")
    /\ UNCHANGED <<config, input, identity, access, overlapped, nilInfo, forwarded, responses>>

SendInfo(r) ==
    /\ stage[r] = "iterating"
    /\ mapUse' = [mapUse EXCEPT ![r] = "none"]
    /\ Answer(r, 200)
    /\ UNCHANGED <<config, input, identity, access, overlapped, nilInfo, forwarded>>

Leave(r) ==
    /\ stage[r] \in {"done", "lost"}
    /\ Proceed(r, "idle")
    /\ endpoint' = [endpoint EXCEPT ![r] = "spec"]
    /\ options' = [options EXCEPT ![r] = FALSE]
    /\ token' = [token EXCEPT ![r] = "invalid"]
    /\ identity' = [identity EXCEPT ![r] = "none"]
    /\ acls' = [acls EXCEPT ![r] = <<>>]
    /\ pageNum' = [pageNum EXCEPT ![r] = 1]
    /\ granted' = [granted EXCEPT ![r] = FALSE]
    /\ forwarded' = forwarded \ {r}
    /\ rbacFailed' = rbacFailed \ {r}
    /\ overlapped' = IF \E q \in Requests \ {r} : stage[q] = "lost" THEN overlapped ELSE overlapped \ {r}
    /\ nilInfo' = nilInfo \ {r}
    /\ responses' = [responses EXCEPT ![r] = <<>>]
    /\ UNCHANGED <<config, mapUse>>

PipelineNext ==
    \E r \in Requests :
        \/ Arrive(r) \/ Authentication(r) \/ Authorization(r)
        \/ ReadPermissions(r) \/ ReadPermissionsEnds(r) \/ ReadPermissionsFails(r)
        \/ ModifyRequest(r) \/ SendToAggregator(r)
        \/ CheckRating(r) \/ PostRatingToAggregator(r) \/ SendSpec(r)
        \/ BeginInfo(r) \/ FillIn(r) \/ FillInEnds(r) \/ InfoFromService(r) \/ MarshalInfo(r)
        \/ SendInfo(r) \/ Leave(r)

PipelineSpec == PipelineInit /\ [][PipelineNext]_pipelineVars

(***************************************************************************)
(* Properties                                                              *)
(***************************************************************************)
Labels == {"idle", "authentication", "authorization", "rbac", "endpoint", "send", "fillIn",
           "writing", "services", "marshal", "iterating", "done", "lost"}

PipelineTypeOK ==
    /\ config \in Configs
    /\ stage \in [Requests -> Labels]
    /\ endpoint \in [Requests -> Endpoints]
    /\ options \in [Requests -> BOOLEAN]
    /\ token \in [Requests -> Tokens]
    /\ identity \in [Requests -> {"none", "user", "service"}]
    /\ \A r \in Requests : acls[r] \in Seq(Pages) /\ pageNum[r] \in 1..(Len(acls[r]) + 1)
    /\ granted \in [Requests -> BOOLEAN]
    /\ mapUse \in [Requests -> {"none", "write", "iterate"}]
    /\ forwarded \subseteq Requests /\ rbacFailed \subseteq Requests
    /\ overlapped \subseteq Requests /\ nilInfo \subseteq Requests
    /\ responses \in [Requests -> Seq({200, 400, 403, 404, 500, 503})]

\* Nothing is sent to the aggregator without an identity with an organisation,
\* whether authentication is on or off and whatever the method: a request that
\* passes the middlewares because it is OPTIONS, or because authentication is
\* off, is stopped by the modifiers.  Only the debug endpoints that are proxied
\* unmodified go through, and only if authentication is off.  With enforcing
\* RBAC a service account is forwarded only if a page of permissions that RBAC
\* really returned grants access: an RBAC that does not answer, or answers in
\* part, does not open the service.
ForwardedOnlyIfAllowed ==
    \A r \in forwarded :
        /\ \/ identity[r] \in {"user", "service"}
           \/ endpoint[r] = "debug" /\ ~config.auth
        /\ (config.useRBAC /\ config.enforce /\ token[r] = "service")
              => granted[r] /\ \E i \in DOMAIN acls[r] : acls[r][i] = "granting"

\* Every request is answered, and the first response decides: it is the only one
\* except after a rating that could not be decoded.  One is lost without a
\* response only if two info requests were in progress at the same time, which
\* use server.InfoParams without a lock, or, for an info request, if a service
\* answered without an info part.
AnsweredUnlessInfoPanics ==
    \A r \in Requests :
        /\ stage[r] = "done" =>
              /\ responses[r] # <<>>
              /\ Len(responses[r]) > 1 => endpoint[r] = "rating" /\ responses[r][1] >= 400
        /\ stage[r] = "lost" => r \in nilInfo \/ Cardinality(overlapped) > 1

\* The doc comment of requestAccess: it takes into account that the response is
\* paginated.  A service account that has the permission on any page, while RBAC
\* answers, is not rejected by the Authorization middleware.
PaginationFollowed ==
    \A r \in Requests :
        (stage[r] = "done" /\ responses[r] = <<403>> /\ r \notin rbacFailed)
            => \A i \in DOMAIN acls[r] : acls[r][i] # "granting"
==============================================================================
