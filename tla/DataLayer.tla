------------------------------ MODULE DataLayer ------------------------------
(***************************************************************************)
(* The Postgres data layer (pkg/datalayer/datalayer.go) seen through one   *)
(* build: its row in the builds table and the LISTEN/NOTIFY channels of    *)
(* that build.                                                             *)
(*                                                                         *)
(* Every operator below is the effect of one database round trip or of one *)
(* transaction; a method that makes several (read the row, then LISTEN,    *)
(* then wait) is several actions of its caller, because other processes    *)
(* commit in between.  Connections are those of the listen pools: one per  *)
(* process that waits.  The code never sends UNLISTEN, so a registration   *)
(* lasts as long as the connection.                                        *)
(*                                                                         *)
(* The event log of the row is left out: no AddEvent error changes what    *)
(* its caller does, and AddEvent touches neither status nor these channels.*)
(***************************************************************************)
EXTENDS BuildStatus, Naturals, Sequences

CONSTANTS Conns,      \* connections of the listen pools
          MaxFaults   \* bound on failed round trips to the database

ASSUME FaultsAssumption == MaxFaults \in Nat

VARIABLES status,     \* builds.status, or NoRow
          completed,  \* whether builds.completed is set
          listening,  \* per connection, the channels it LISTENs on
          inbox,      \* per connection, the notifications not yet read
          faults      \* failed round trips so far

rowVars == <<status, completed, listening, inbox>>
dbVars == <<status, completed, listening, inbox, faults>>

\* pgRunChanFromID, pgCxlChanFromID, pgCompletedChanFromID of the build
Channel == {"running", "cxl", "completed"}
Payload == {"running", "cancel"} \union TerminalStatus

DBTypeOK ==
  /\ status \in Status \union {NoRow}
  /\ completed \in BOOLEAN
  /\ listening \in [Conns -> SUBSET Channel]
  /\ inbox \in [Conns -> Seq(Payload)]
  /\ faults \in 0..MaxFaults

DBInit ==
  /\ status = NoRow
  /\ completed = FALSE
  /\ listening = [c \in Conns |-> {}]
  /\ inbox = [c \in Conns |-> <<>>]
  /\ faults = 0

\* NOTIFY at commit: only connections already listening get the payload.
Notify(ch, msg) ==
  inbox' = [c \in Conns |-> IF ch \in listening[c] THEN Append(inbox[c], msg)
                                                    ELSE inbox[c]]

-----------------------------------------------------------------------------
(* Transactions *)

\* Mutation: the INSERT leaves the status out.
CreateBuild_NoStatus ==
  /\ status = NoRow
  /\ status' = "NULL"
  /\ UNCHANGED <<completed, listening, inbox>>

CreateBuild ==
  /\ status = NoRow
  /\ status' = "NotStarted"
  /\ UNCHANGED <<completed, listening, inbox>>

\* An unconditional UPDATE: the status before it is not looked at.
SetBuildAsRunning ==
  /\ status' = "Running"
  /\ Notify("running", "running")
  /\ UNCHANGED <<completed, listening>>

SetBuildAsCompleted(s) ==
  /\ TerminalState(s)
  /\ status' = s
  /\ completed' = TRUE
  /\ Notify("completed", s)
  /\ UNCHANGED listening

\* The transaction at the end of CancelBuild; the read before it is separate.
RequestCancel ==
  /\ status' = "CancelRequested"
  /\ Notify("cxl", "cancel")
  /\ UNCHANGED <<completed, listening>>

\* GetBuildByID, and every other round trip that writes nothing
Read == UNCHANGED rowVars

-----------------------------------------------------------------------------
(* Connections *)

Listen(c, ch) ==
  /\ listening' = [listening EXCEPT ![c] = @ \union {ch}]
  /\ UNCHANGED <<status, completed, inbox>>

\* WaitForNotification returns the oldest notification of the connection.
Receive(c) ==
  /\ inbox[c] # <<>>
  /\ inbox' = [inbox EXCEPT ![c] = Tail(@)]
  /\ UNCHANGED <<status, completed, listening>>

\* The listener gives its connection up: it broke, its process ended, or the
\* context of the wait was cancelled.  In the last case the connection goes
\* back to the pool still registered (ListenPool is about that), but no
\* listener of this build reads it again, so that it is as good as closed.
CloseConn(c) ==
  /\ listening' = [listening EXCEPT ![c] = {}]
  /\ inbox' = [inbox EXCEPT ![c] = <<>>]
  /\ UNCHANGED <<status, completed>>

-----------------------------------------------------------------------------
(* Outcomes *)

\* The round trip returned no error.
OK(A) == A /\ UNCHANGED faults

\* The round trip returned an error to the caller.  The connection may have
\* broken before or after the commit, so its effect may have been applied.
Fault(A) ==
  /\ faults < MaxFaults
  /\ faults' = faults + 1
  /\ A \/ Read
==============================================================================
