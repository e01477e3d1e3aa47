---------------------------- MODULE BuildContract ----------------------------
(***************************************************************************)
(* What furan promises of one build, without saying who does it: the       *)
(* status a client reads, whether the build was taken over by a pod,       *)
(* whether somebody asked to cancel it, whether an image was pushed.       *)
(*                                                                         *)
(* A write of the status may be repeated, may come late and may replace    *)
(* any other, because no write of the code looks at what it replaces; so   *)
(* Failure may follow Success.  What is promised are the reasons for each. *)
(***************************************************************************)
EXTENDS BuildStatus

VARIABLES status, taken, requested, pushed

vars == <<status, taken, requested, pushed>>

Init == status = NoRow /\ ~taken /\ ~requested /\ ~pushed

Accept ==
  /\ status = NoRow
  /\ status' = "NotStarted"
  /\ UNCHANGED <<taken, requested, pushed>>

\* It becomes Running only until it is taken over, and is taken over once.
Run ==
  /\ status # NoRow /\ ~taken
  /\ status' = "Running"
  /\ taken' \in BOOLEAN
  /\ UNCHANGED <<requested, pushed>>

\* Failure needs no reason.
Fail ==
  /\ status # NoRow
  /\ status' = "Failure"
  /\ UNCHANGED <<taken, requested, pushed>>

Push ==
  /\ taken /\ ~pushed /\ status # "Skipped"
  /\ pushed' = TRUE
  /\ UNCHANGED <<status, taken, requested>>

Succeed ==
  /\ pushed
  /\ status' = "Success"
  /\ UNCHANGED <<taken, requested, pushed>>

Skip ==
  /\ taken /\ ~pushed
  /\ status' = "Skipped"
  /\ UNCHANGED <<taken, requested, pushed>>

\* The status says so unless the write failed.
RequestCancel ==
  /\ status # NoRow
  /\ requested' = TRUE
  /\ status' \in {status, "CancelRequested"}
  /\ UNCHANGED <<taken, pushed>>

Cancel ==
  /\ taken /\ requested
  /\ status' = "Cancelled"
  /\ UNCHANGED <<taken, requested, pushed>>

Next ==
  Accept \/ Run \/ Fail \/ Push \/ Succeed \/ Skip \/ RequestCancel \/ Cancel

Spec == Init /\ [][Next]_vars
==============================================================================
