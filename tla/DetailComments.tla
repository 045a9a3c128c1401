--------------------------- MODULE DetailComments ---------------------------
(***************************************************************************)
(* DetailViews together with a record of the comments in its code that     *)
(* some request has refuted so far.  The requests themselves are those of  *)
(* DetailViews.                                                            *)
(***************************************************************************)
EXTENDS DetailViews

VARIABLE refuted

Refuted ==
    (IF DisabledClustersLeftOut THEN {} ELSE {"disabled"}) \cup (IF OverviewErrorHandled THEN {} ELSE {"acks"})

MonitorInit == Init /\ refuted = Refuted
MonitorNext == Next /\ refuted' = refuted \cup Refuted'
MonitorSpec == MonitorInit /\ [][MonitorNext]_<<vars, refuted>>

(***************************************************************************)
(* At least one of two comments is true of the program: "omit disabled     *)
(* clusters" (handlers_v2.go:1252), which DisabledClustersLeftOut states,  *)
(* and "server error has been handled already" (handlers_v1.go:303), which *)
(* OverviewErrorHandled states.  A behaviour that refutes this holds a     *)
(* request against each.                                                   *)
(***************************************************************************)
SomeDetailCommentHolds == refuted # {"disabled", "acks"}
=============================================================================
