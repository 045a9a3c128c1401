------------------------- MODULE InterleavedRequests -------------------------
(***************************************************************************)
(* The requests that nothing in the proxy orders: they meet each other in  *)
(* the aggregator (Acks) or in the map of the info endpoint                *)
(* (RequestPipeline), or they meet other programs in Redis (RequestStore). *)
(*                                                                         *)
(* The three modules have no variable in common and no step of one depends *)
(* on another, so whatever one can do it does while the others are at      *)
(* rest: `moving' is the one that moves in a behaviour.                    *)
(***************************************************************************)
EXTENDS Acks, RequestStore, RequestPipeline

VARIABLE moving

allVars == <<moving, acksVars, vars, pipelineVars>>

\* Of the initial states of a module at rest one is enough.
AllInit ==
    /\ moving \in {"acks", "store", "pipeline"}
    /\ AcksInit
    /\ Init
    /\ PipelineInit
    /\ moving # "acks" => justification = CHOOSE f \in [Clients -> Justifications] : TRUE
    /\ moving # "store" => requestID = CHOOSE id \in RequestIDs : TRUE
    /\ moving # "pipeline" => config = CHOOSE c \in Configs : TRUE

AllNext ==
    \/ moving = "acks" /\ AcksNext /\ UNCHANGED <<moving, vars, pipelineVars>>
    \/ moving = "store" /\ Next /\ UNCHANGED <<moving, acksVars, pipelineVars>>
    \/ moving = "pipeline" /\ PipelineNext /\ UNCHANGED <<moving, acksVars, vars>>

AllSpec == AllInit /\ [][AllNext]_allVars
==============================================================================
