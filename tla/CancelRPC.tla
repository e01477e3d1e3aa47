------------------------------ MODULE CancelRPC ------------------------------
(***************************************************************************)
(* The CancelBuild RPC (pkg/grpc/grpc.go) with the data layer method of    *)
(* the same name under it: two reads of the row, one by each, and then a   *)
(* transaction that looks at neither.  Each client makes one call.         *)
(***************************************************************************)
EXTENDS DataLayer

CONSTANT Clients

VARIABLE rpc   \* per client, its CancelBuild call

RpcPC == {"idle", "recheck", "commit", "ok", "denied", "error"}

RpcTypeOK == rpc \in [Clients -> RpcPC]

RpcInit == rpc = [c \in Clients |-> "idle"]

RpcGoto(c, pc) == rpc' = [rpc EXCEPT ![c] = pc]

\* The RPC reads the build: it is cancellable only while Running.
CancelCheck(c) ==
  /\ rpc[c] = "idle" /\ status # NoRow
  /\ \/ OK(Read) /\ RpcGoto(c, IF TerminalState(status) \/ ~Running(status)
                                 THEN "denied" ELSE "recheck")
     \/ Fault(Read) /\ RpcGoto(c, "denied")

\* PostgresDBLayer.CancelBuild reads it again.
CancelRecheck(c) ==
  /\ rpc[c] = "recheck"
  /\ \/ OK(Read) /\ RpcGoto(c, IF Running(status) THEN "commit" ELSE "denied")
     \/ Fault(Read) /\ RpcGoto(c, "denied")

\* The transaction: CancelRequested, whatever the status is by now.
CancelCommit(c) ==
  /\ rpc[c] = "commit"
  /\ \/ OK(RequestCancel) /\ RpcGoto(c, "ok")
     \/ Fault(RequestCancel) /\ RpcGoto(c, "error")

\* The client leaves: the round trip under way returns the error of its
\* context, after its commit or before it.
CancelAbandoned(c) ==
  \/ rpc[c] = "recheck" /\ OK(Read) /\ RpcGoto(c, "denied")
  \/ rpc[c] = "commit" /\ (OK(RequestCancel) \/ OK(Read)) /\ RpcGoto(c, "error")

CancelStep(c) ==
  CancelCheck(c) \/ CancelRecheck(c) \/ CancelCommit(c) \/ CancelAbandoned(c)

RpcNext == \E c \in Clients : CancelStep(c)
==============================================================================
