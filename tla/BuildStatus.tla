----------------------------- MODULE BuildStatus -----------------------------
(***************************************************************************)
(* The status of a build (pkg/models/models.go) and the predicates that    *)
(* the rest of the program branches on.  NoRow stands for a build that has *)
(* not been inserted in the database yet; it is not a status of the code.  *)
(***************************************************************************)

Status == {"Unknown", "NotStarted", "Skipped", "Running", "Failure",
           "Success", "CancelRequested", "Cancelled"}

NoRow == "NoRow"

\* BuildStatus.TerminalState: the statuses documented as final.
TerminalState(s) == s \in {"Success", "Failure", "Skipped", "Cancelled"}

TerminalStatus == {s \in Status : TerminalState(s)}

\* Build.Running
Running(s) == s = "Running"
==============================================================================
