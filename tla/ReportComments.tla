--------------------------- MODULE ReportComments ---------------------------
(***************************************************************************)
(* Report together with a record of the comments in its code that some     *)
(* request has refuted so far.  The requests themselves are those of       *)
(* Report.                                                                 *)
(***************************************************************************)
EXTENDS Report

VARIABLE refuted

Refuted ==
    (IF CountOfShownRules THEN {} ELSE {"count"}) \cup (IF AcksErrorHandled THEN {} ELSE {"acks"})

MonitorInit == Init /\ refuted = Refuted
MonitorNext == Next /\ refuted' = refuted \cup Refuted'
MonitorSpec == MonitorInit /\ [][MonitorNext]_<<vars, refuted>>

(***************************************************************************)
(* At least one of two comments is true of the program: "getRuleCount      *)
(* returns the number of visible rules without those that do not have      *)
(* content" (server.go:1067), which CountOfShownRules states, and "server  *)
(* error has been handled already" (server.go:888), which AcksErrorHandled *)
(* states.  A behaviour that refutes this holds a request against each.    *)
(***************************************************************************)
SomeReportCommentHolds == refuted # {"count", "acks"}
=============================================================================
