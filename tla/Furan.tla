-------------------------------- MODULE Furan --------------------------------
(***************************************************************************)
(* One build through the whole system: the server that accepts it and      *)
(* hands it off (Handoff), the Kubernetes Job (K8sJob), the pods that run  *)
(* it (BuildRunner), the clients that cancel it (CancelRPC), all of them   *)
(* writing the same row of the database (DataLayer).                       *)
(***************************************************************************)
EXTENDS Handoff, BuildRunner, CancelRPC

ASSUME ServerAssumption == Server \in Conns \ Pods

vars == <<dbVars, k8sVars, handoffVars, runnerVars, rpc>>

TypeOK ==
  /\ DBTypeOK
  /\ K8sTypeOK
  /\ HandoffTypeOK
  /\ RunnerTypeOK
  /\ RpcTypeOK

Init == DBInit /\ K8sInit /\ HandoffInit /\ RunnerInit /\ RpcInit

\* Steps of Kubernetes alone
K8sStep ==
  /\ JobController \/ (JobDeadlineExceeded /\ ~WithinHandoff)
  /\ UNCHANGED <<dbVars, handoffVars, runnerVars, rpc>>

ServerStep == HandoffNext /\ UNCHANGED <<runnerVars, rpc>>
PodStep == RunnerNext /\ UNCHANGED <<handoffVars, rpc>>
ClientStep == RpcNext /\ UNCHANGED <<k8sVars, handoffVars, runnerVars>>

Next == K8sStep \/ ServerStep \/ PodStep \/ ClientStep

Spec == Init /\ [][Next]_vars

\* Fairness: the Go scheduler runs every goroutine that is ready, timers fire,
\* and the database answers.  It is weak fairness of a goroutine as a whole,
\* never of one of its branches.  Nothing is assumed of Kubernetes, nor of the
\* clients before their call: a pod may never start, nobody has to cancel.
HandoffFairness == WF_vars(HandoffStep /\ UNCHANGED <<runnerVars, rpc>>)

RunFairness ==
  \A p \in Pods : WF_vars(RunStep(p) /\ UNCHANGED <<handoffVars, rpc>>)

CxlFairness ==
  \A p \in Pods : WF_vars(CxlStep(p) /\ UNCHANGED <<handoffVars, rpc>>)

OtherFairness ==
  /\ WF_vars(WatcherStep /\ UNCHANGED <<runnerVars, rpc>>)
  /\ WF_vars(ListenerStep /\ UNCHANGED <<runnerVars, rpc>>)
  /\ \A p \in Pods : WF_vars(SignalStep(p) /\ UNCHANGED <<handoffVars, rpc>>)
  /\ \A c \in Clients :
       WF_vars(rpc[c] # "idle" /\ CancelStep(c)
                 /\ UNCHANGED <<k8sVars, handoffVars, runnerVars>>)

FairSpec ==
  Spec /\ HandoffFairness /\ RunFairness /\ CxlFairness /\ OtherFairness

\* Only the goroutines that write outcomes have to be scheduled: JobWatcher,
\* the listeners and the signal handler may stall.
WriterFairSpec == Spec /\ HandoffFairness /\ RunFairness

\* The build itself may hang: no step of Manager.Run has to be taken, and no
\* signal or timeout comes.
HangingSpec == Spec /\ HandoffFairness /\ CxlFairness

-----------------------------------------------------------------------------
(* What holds *)

Requested == \E c \in Clients : rpc[c] \in {"ok", "error"}

\* At most one pod of a Job takes the build over (Manager.Run gives up unless
\* the build is NotStarted), whatever fails and however often the Job
\* replaces its pod, as long as it runs one pod at a time.
AtMostOneAttempt == \A p, q \in Pods : Took(p) /\ Took(q) => p = q

\* The recorded outcome is what happened: Success only after some pod pushed
\* the image, Skipped only if none did (Manager.Run's two last writes).
OutcomeHonest ==
  /\ status = "Success" => pushed # {}
  /\ status = "Skipped" => pushed = {}

\* The row says CancelRequested or Cancelled only if a CancelBuild call got
\* as far as its transaction: a signal, a timeout or a failure that races the
\* cancellation listener of Manager.Run is never recorded as a cancellation.
CancelledOnlyIfRequested ==
  status \in {"CancelRequested", "Cancelled"} => Requested

\* If no round trip to the database failed, Manager.Start returns without
\* error only if a pod has set the build as Running, whichever channel of
\* JobWatcher.start it heard from: the pod that took it over, or one whose
\* context was cancelled during that commit.
HandoffHasPod ==
  hres = "running" /\ faults = 0 => unacked # {} \/ \E p \in Pods : Took(p)

\* JobWatcher.start blocks for ever on its unbuffered channel only if
\* Manager.Start had already returned on its timeout.
StrandedOnlyByTimeout ==
  wpc \in {"sendErr", "sendRun"} /\ ~WithinHandoff => hres = "timeout"

\* A process that still has to write an outcome for the build: the StartBuild
\* goroutine until it decides, or a pod past the gate of Manager.Run.
Responsible ==
  \/ WithinHandoff \/ hpc = "failed"
  \/ \E p \in Pods :
       ppc[p] \in {"setrunning"} \union Working \union Completing

\* Responsibility for an accepted build is handed over without a gap: unless
\* the database failed, a process was killed or a cancellation was written, a
\* build that has no outcome yet has a process left that will write one.  The
\* one exception is a build left Running by a pod whose SetBuildAsRunning was
\* committed and returned the error of its cancelled context.
SomeoneResponsible ==
  \/ hpc \in {"idle", "rejected"} \/ TerminalState(status)
  \/ faults > 0 \/ crashes > 0 \/ Requested
  \/ status = "Running" /\ unacked # {}
  \/ Responsible

\* The completion defer of Manager.Run does its work on every path: a pod that
\* took the build over and ended left it marked as completed, unless a round
\* trip failed or a process was killed; and a run or a pod that ended well did so
\* whatever failed before.
MarkedWhenDone ==
  \A p \in Pods :
    /\ ppc[p] = "exit0" \/ pod[p] = "succeeded" => completed
    /\ Took(p) /\ ppc[p] \in Returned \union {"gone"}
         => completed \/ faults > 0 \/ crashes > 0

\* A build that a pod took over never becomes Running again: no replacement
\* pod, late or repeated write of SetBuildAsRunning revives an ended build.
RunsOnce ==
  [][(\E p \in Pods : Took(p)) /\ status # "Running" => status' # "Running"]_vars

\* The abstract specification of a build, in terms of the processes
Contract == INSTANCE BuildContract WITH
  taken <- \E p \in Pods : Took(p), requested <- Requested, pushed <- pushed # {}

\* The processes that share the row keep the contract of a build: whatever
\* fails and whichever of their unconditional writes come late or twice, every
\* status has its reason and only one run of Manager.Run is behind them all.
KeepsContract == Contract!Spec

\* The StartBuild goroutine ends, whatever JobWatcher, the Job and the
\* database do.
HandoffReturns == (hpc = "get") ~> (hpc \in {"done", "crashed"})

\* Unless the database fails, a process is killed, a cancellation is written
\* or the commit of SetBuildAsRunning is interrupted, every accepted build ends
\* in a terminal status and keeps it.
EventuallyTerminal ==
  (hpc = "get")
    ~> (\/ []TerminalState(status) \/ faults > 0 \/ crashes > 0
        \/ Requested \/ unacked # {})

\* A cancellation that reached the inbox of a waiting ListenForCancellation
\* aborts the run and flags it as cancelled, even if the build itself hangs,
\* unless the run ends or its context is cancelled for another reason first.
CancelReachesRunner ==
  \A p \in Pods :
    (cxlpc[p] = "wait" /\ inbox[p] # <<>>)
      ~> (\/ p \in cancelled \/ ctx[p] = "interrupt"
          \/ ppc[p] \in Returned \union {"gone"})

-----------------------------------------------------------------------------
(* Inductive strengthenings *)

\* Why AtMostOneAttempt holds: there is one running pod at a time, every
\* process past the gate is in a running pod, and a pod that took the build
\* over has moved its status on, so that the gate holds back all others.
AttemptInv ==
  /\ \A p, q \in Pods : pod[p] = "running" /\ pod[q] = "running" => p = q
  /\ \A p \in Pods : ppc[p] \notin {"off", "gone"} => pod[p] = "running"
  /\ \A p \in Pods : Took(p) => status \notin {NoRow, "NotStarted"}
  /\ \A p, q \in Pods : ppc[p] = "setrunning" => ~Took(q)
  /\ AtMostOneAttempt

\* Why OutcomeHonest holds: only a pod that took the build over works on it,
\* it writes Success after it pushed and Skipped instead of working.
OutcomeInv ==
  /\ OutcomeHonest
  /\ \A p \in Pods : pod[p] = "none" => ppc[p] = "off" /\ ~Took(p)
  /\ \A p \in Pods : ppc[p] \in Working \union Completing => Took(p)
  /\ \A p \in pushed :
       Took(p) /\ ppc[p] \in {"complete", "gone"} \union Completing \union Returned
  /\ \A p \in Pods : ppc[p] = "complete" => p \in pushed
  /\ status = "Skipped" =>
       \A p \in Pods : Took(p) => ppc[p] \in {"gone"} \union Completing \union Returned

\* Why CancelledOnlyIfRequested holds: before a request is written no pod can
\* have heard of one, since pods listen on the cancellation channel only.
CancelInv ==
  /\ CancelledOnlyIfRequested
  /\ \A p \in Pods : listening[p] \subseteq {"cxl"}
  /\ ~Requested => \A p \in Pods :
       /\ inbox[p] = <<>>
       /\ cxlpc[p] \notin {"hit", "set"}
       /\ ppc[p] # "markCancelled"
       /\ p \notin cancelled

\* What KeepsContract needs besides: whoever is about to write an outcome or a
\* request, or to take the build over, has seen the row.
RowInv ==
  /\ hpc \notin {"idle", "rejected"} => status # NoRow
  /\ \A p \in Pods : ppc[p] = "setrunning" => status # NoRow
  /\ \A c \in Clients : rpc[c] # "idle" => status # NoRow

\* Why HandoffHasPod holds: as long as the handoff is under way, nothing
\* that ListenForBuildRunning or processEvent takes for a running build can be
\* seen before a pod set the build as Running.
HandoffInv ==
  /\ HandoffHasPod
  /\ listening[Server] \subseteq {"running"}
  /\ \A p \in Pods :
       ppc[p] \in {"exit0"} \union Working \union Completing \/ pod[p] = "succeeded"
         => Took(p)
  /\ (\E i \in DOMAIN watchq : watchq[i] = "succeeded") => \E p \in Pods : Took(p)
  /\ hpc = "idle" => lpc = "none"
  /\ /\ faults = 0 /\ unacked = {} /\ \A p \in Pods : ~Took(p)
     /\ hpc = "idle" \/ WithinHandoff
     =>
       /\ status \in {NoRow, "NotStarted"}
       /\ inbox[Server] = <<>>
       /\ lpc \in {"none", "get", "listen", "wait"}
       /\ ~closed
       /\ wpc # "sendRun"
       /\ \A c \in Clients : rpc[c] \notin {"recheck", "commit"}

\* Why StrandedOnlyByTimeout holds: JobWatcher.start runs only while
\* Manager.Start is in its select, or after it left it by its timeout.
WatcherInv ==
  wpc \notin {"none", "done"} =>
    hpc = "select" \/ (hpc \in {"failed", "done"} /\ hres = "timeout")

\* Why SomeoneResponsible holds: without faults and crashes a build that is
\* NotStarted is the server's and one that is Running is a pod's, or was
\* left by one that did not learn of its commit.
ResponsibleInv ==
  /\ status # "Unknown"
  /\ \A p \in Pods : pod[p] = "none" => ppc[p] = "off"
  /\ unacked # {} \/ (\E p \in Pods : Took(p)) => status \notin {NoRow, "NotStarted"}
  /\ faults = 0 /\ crashes = 0 =>
       /\ status = "NotStarted" => WithinHandoff \/ hpc \in {"failed", "rejected"}
       /\ status = "Running" =>
            unacked # {} \/ \E p \in Pods : ppc[p] \in Working \union Completing

\* Why MarkedWhenDone holds: a process that left before SetBuildAsRunning had
\* returned has not taken the build over, and a pod runs one process.
MarkedInv ==
  /\ MarkedWhenDone
  /\ \A p \in Pods : pod[p] = "none" => ppc[p] = "off"
  /\ \A p \in Pods : ppc[p] \in {"off", "setrunning"} \union Unprotected => ~Took(p)

-----------------------------------------------------------------------------
(* What the comments of the code say and the code does not do *)

\* grpc.go, StartBuild: when Manager.Start returns nil, "the build k8s job is
\* running and the Furan container has started up and updated the build to
\* Running.  The Furan container in the k8s job is now responsible for updating
\* this build."  (A failed round trip of the listener excepted.)
HandoffMeansRunning ==
  hres = "running" /\ faults = 0 => \E p \in Pods : Took(p)

\* models.go, BuildStatusCancelRequested: "Build cancellation was requested but
\* build has not yet aborted": the build still comes to an end.
CancelRequestEnds ==
  (status = "CancelRequested") ~> TerminalState(status)
==============================================================================
