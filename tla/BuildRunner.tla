----------------------------- MODULE BuildRunner -----------------------------
(***************************************************************************)
(* The furan container of a build pod: cmd/runbuild.go and Manager.Run     *)
(* (pkg/builder/builder.go), with the goroutine that listens for           *)
(* cancellation and the one that handles signals.                          *)
(*                                                                         *)
(*   ppc    Manager.Run                                                    *)
(*   cxlpc  the goroutine in ListenForCancellation; it exists (is not      *)
(*          "none") from the moment the pod has set the build as Running   *)
(*   ctx    ctx2: "live", or what cancelled it first: a signal or the      *)
(*          timeout ("interrupt"), or the listener                         *)
(*                                                                         *)
(* The pod is also the name of the connection its listener waits on.       *)
(***************************************************************************)
EXTENDS DataLayer, K8sJob

ASSUME PodConnsAssumption == Pods \subseteq Conns

VARIABLES ppc, cxlpc, ctx,
          cancelled,  \* pods whose flag cancelled is set
          pushed,     \* pods whose build pushed an image
          unacked     \* history: pods that committed Running and were told
                      \* of an error, because ctx2 was cancelled meanwhile

runnerVars == <<ppc, cxlpc, ctx, cancelled, pushed, unacked>>

\* Before signal.Notify, a SIGTERM ends the process.
Unprotected == {"boot", "get"}
\* In the body of Manager.Run, where an error runs the completion defer
Working == {"sha", "tagcheck", "skipmark", "fetch", "build", "complete"}
\* In the completion defer: the error is ctx2's ("aborted") or another one
\* ("failed"); then the status to write is chosen.
Completing == {"failed", "aborted", "markFailed", "markCancelled"}
Returned == {"exit0", "exit1"}

RunnerPC == {"off", "setrunning", "gone"} \union Unprotected \union Working
              \union Completing \union Returned
CxlPC == {"none", "get", "listen", "wait", "hit", "set", "off"}
CtxState == {"live", "interrupt", "cancel"}

RunnerTypeOK ==
  /\ ppc \in [Pods -> RunnerPC]
  /\ cxlpc \in [Pods -> CxlPC]
  /\ ctx \in [Pods -> CtxState]
  /\ cancelled \in SUBSET Pods
  /\ pushed \in SUBSET Pods
  /\ unacked \in SUBSET Pods

RunnerInit ==
  /\ ppc = [p \in Pods |-> "off"]
  /\ cxlpc = [p \in Pods |-> "none"]
  /\ ctx = [p \in Pods |-> "live"]
  /\ cancelled = {}
  /\ pushed = {}
  /\ unacked = {}

Goto(p, pc) == ppc' = [ppc EXCEPT ![p] = pc]
CxlGoto(p, pc) == cxlpc' = [cxlpc EXCEPT ![p] = pc]

\* The pod took the build over: it set it as Running and listens for
\* cancellation.
Took(p) == cxlpc[p] # "none"

\* The process of the furan container ends; its goroutines, its memory and
\* its connection go with it.
Die(p) ==
  /\ Goto(p, "gone")
  /\ CxlGoto(p, IF Took(p) THEN "off" ELSE "none")
  /\ ctx' = [ctx EXCEPT ![p] = "live"]
  /\ cancelled' = cancelled \ {p}
  /\ OK(CloseConn(p))
  /\ UNCHANGED <<pushed, unacked>>

-----------------------------------------------------------------------------
(* runbuild and Manager.Run *)

PodStarts(p) ==
  /\ StartPod(p)
  /\ Goto(p, "boot")
  /\ UNCHANGED <<cxlpc, ctx, cancelled, pushed, unacked, dbVars>>

\* runbuild connects to the database and to buildkitd, and calls Run.
Boot(p) ==
  /\ ppc[p] = "boot"
  /\ Goto(p, "get")
  /\ UNCHANGED <<cxlpc, ctx, cancelled, pushed, unacked, dbVars, k8sVars>>

\* It could not: the process exits before Run, so nobody stops the buildkitd
\* container and the pod stays up.
BootFails(p) ==
  /\ ppc[p] = "boot"
  /\ Die(p)
  /\ UNCHANGED k8sVars

\* Mutation: Run does not look at the status.
Gate_NoCheck(p) ==
  /\ ppc[p] = "get"
  /\ OK(Read) /\ Goto(p, "setrunning")
  /\ UNCHANGED <<cxlpc, ctx, cancelled, pushed, unacked, k8sVars>>

\* Run reads the build and gives up unless it is NotStarted.
Gate(p) ==
  /\ ppc[p] = "get"
  /\ \/ OK(Read) /\ Goto(p, IF status = "NotStarted" THEN "setrunning" ELSE "exit1")
     \/ Fault(Read) /\ Goto(p, "exit1")
     \/ ctx[p] # "live" /\ OK(Read) /\ Goto(p, "exit1")
  /\ UNCHANGED <<cxlpc, ctx, cancelled, pushed, unacked, k8sVars>>

\* Build handoff: SetBuildAsRunning, then the cancellation listener starts.
TakeOver(p) ==
  /\ ppc[p] = "setrunning"
  /\ OK(SetBuildAsRunning)
  /\ Goto(p, "sha")
  /\ CxlGoto(p, "get")
  /\ UNCHANGED <<ctx, cancelled, pushed, unacked, k8sVars>>

\* SetBuildAsRunning returned an error: Run returns before the completion
\* defer is registered.  A ctx2 that is cancelled during the commit is an
\* error of it too, and the commit may have been done all the same.
TakeOverFails(p) ==
  /\ ppc[p] = "setrunning"
  /\ \/ Fault(SetBuildAsRunning) /\ UNCHANGED unacked
     \/ ctx[p] # "live" /\ OK(Read) /\ UNCHANGED unacked
     \/ /\ ctx[p] # "live" /\ OK(SetBuildAsRunning)
        /\ unacked' = unacked \union {p}
  /\ Goto(p, "exit1")
  /\ UNCHANGED <<cxlpc, ctx, cancelled, pushed, k8sVars>>

\* GetGitHubCredential and GetCommitSHA; the request may set SkipIfExists.
GetCommitSHA(p) ==
  /\ ppc[p] = "sha"
  /\ \E skipIfExists \in BOOLEAN :
        Goto(p, IF skipIfExists THEN "tagcheck" ELSE "fetch")
  /\ UNCHANGED <<cxlpc, ctx, cancelled, pushed, unacked, dbVars, k8sVars>>

\* AllTagsExist for every image repo
TagCheck(p) ==
  /\ ppc[p] = "tagcheck"
  /\ \E allexist \in BOOLEAN :
        Goto(p, IF allexist THEN "skipmark" ELSE "fetch")
  /\ UNCHANGED <<cxlpc, ctx, cancelled, pushed, unacked, dbVars, k8sVars>>

Fetch(p) ==
  /\ ppc[p] = "fetch"
  /\ Goto(p, "build")
  /\ UNCHANGED <<cxlpc, ctx, cancelled, pushed, unacked, dbVars, k8sVars>>

\* Mutation: Run does not wait for the solve.
Build_NotAwaited(p) ==
  /\ ppc[p] = "build"
  /\ Goto(p, "complete")
  /\ UNCHANGED <<cxlpc, ctx, cancelled, pushed, unacked, dbVars, k8sVars>>

\* BuildSolver.Build: the solve that exports the image with push
Build(p) ==
  /\ ppc[p] = "build"
  /\ Goto(p, "complete")
  /\ pushed' = pushed \union {p}
  /\ UNCHANGED <<cxlpc, ctx, cancelled, unacked, dbVars, k8sVars>>


\* A step returned an error: of ctx2, if it was cancelled, or its own.  Tag
\* checking does not use ctx2.  A solve that fails may have pushed.
StepFails(p) ==
  /\ ppc[p] \in {"sha", "tagcheck", "fetch", "build"}
  /\ \/ Goto(p, "failed")
     \/ ctx[p] # "live" /\ ppc[p] # "tagcheck" /\ Goto(p, "aborted")
  /\ pushed' \in {pushed, IF ppc[p] = "build" THEN pushed \union {p} ELSE pushed}
  /\ UNCHANGED <<cxlpc, ctx, cancelled, unacked, dbVars, k8sVars>>

\* Mutation: both paths end with the same write.
FinalStatus_Same(pc) == "Success"

\* The status Run writes at the end of its two successful paths
FinalStatus(pc) == IF pc = "skipmark" THEN "Skipped" ELSE "Success"

\* SetBuildAsCompleted with ctx2: it is an error if ctx2 is cancelled in time,
\* before the commit or during it.
Complete(p) ==
  /\ ppc[p] \in {"skipmark", "complete"}
  /\ \/ OK(SetBuildAsCompleted(FinalStatus(ppc[p]))) /\ Goto(p, "exit0")
     \/ Fault(SetBuildAsCompleted(FinalStatus(ppc[p]))) /\ Goto(p, "failed")
     \/ /\ ctx[p] # "live" /\ Goto(p, "aborted")
        /\ OK(Read) \/ OK(SetBuildAsCompleted(FinalStatus(ppc[p])))
  /\ UNCHANGED <<cxlpc, ctx, cancelled, pushed, unacked, k8sVars>>

\* Mutation: every cancelled context is taken for a cancellation request.
ChooseStatus_CtxErr(p) ==
  /\ ppc[p] \in {"failed", "aborted"}
  /\ Goto(p, IF ctx[p] # "live" THEN "markCancelled" ELSE "markFailed")
  /\ UNCHANGED <<cxlpc, ctx, cancelled, pushed, unacked, dbVars, k8sVars>>

\* The completion defer reads the flag cancelled ...
ChooseStatus(p) ==
  /\ ppc[p] \in {"failed", "aborted"}
  /\ Goto(p, IF p \in cancelled THEN "markCancelled" ELSE "markFailed")
  /\ UNCHANGED <<cxlpc, ctx, cancelled, pushed, unacked, dbVars, k8sVars>>

MarkedStatus(pc) == IF pc = "markCancelled" THEN "Cancelled" ELSE "Failure"

\* Mutation: the defer writes with ctx2, which may be cancelled.
MarkCompleted_Ctx2(p) ==
  /\ ppc[p] \in {"markFailed", "markCancelled"}
  /\ IF ctx[p] = "live" THEN OK(SetBuildAsCompleted(MarkedStatus(ppc[p]))) ELSE OK(Read)
  /\ Goto(p, "exit1")
  /\ UNCHANGED <<cxlpc, ctx, cancelled, pushed, unacked, k8sVars>>

\* ... and, after a pause, writes the status with a context of its own; an
\* error of that write is dropped.
MarkCompleted(p) ==
  /\ ppc[p] \in {"markFailed", "markCancelled"}
  /\ \/ OK(SetBuildAsCompleted(MarkedStatus(ppc[p])))
     \/ Fault(SetBuildAsCompleted(MarkedStatus(ppc[p])))
  /\ Goto(p, "exit1")
  /\ UNCHANGED <<cxlpc, ctx, cancelled, pushed, unacked, k8sVars>>

\* killbuildkitd stops the other container and the pod ends; if it fails, the
\* process exits and the pod stays up.
Exit(p) ==
  /\ ppc[p] \in Returned
  /\ Die(p)
  /\ \/ EndPod(p, IF ppc[p] = "exit0" THEN "succeeded" ELSE "failed")
     \/ UNCHANGED <<pod, sigterm>>
  /\ UNCHANGED <<job, watching, watchq, disruptions, crashes>>

-----------------------------------------------------------------------------
(* The goroutine in ListenForCancellation *)

CxlGet(p) ==
  /\ cxlpc[p] = "get"
  /\ \/ OK(Read) /\ CxlGoto(p, CASE Running(status) -> "listen"
                                 [] status \in {"CancelRequested", "Cancelled"} -> "hit"
                                 [] OTHER -> "off")
     \/ Fault(Read) /\ CxlGoto(p, "off")
  /\ UNCHANGED <<ppc, ctx, cancelled, pushed, unacked, k8sVars>>

CxlListen(p) ==
  /\ cxlpc[p] = "listen"
  /\ \/ OK(Listen(p, "cxl")) /\ CxlGoto(p, "wait")
     \/ Fault(CloseConn(p)) /\ CxlGoto(p, "off")
  /\ UNCHANGED <<ppc, ctx, cancelled, pushed, unacked, k8sVars>>

CxlWait(p) ==
  /\ cxlpc[p] = "wait"
  /\ \/ OK(Receive(p)) /\ CxlGoto(p, "hit")
     \/ Fault(CloseConn(p)) /\ CxlGoto(p, "off")
  /\ UNCHANGED <<ppc, ctx, cancelled, pushed, unacked, k8sVars>>

\* ctx2 was cancelled: the listener returns its error.
CxlCtxDone(p) ==
  /\ cxlpc[p] \in {"get", "listen", "wait"} /\ ctx[p] # "live"
  /\ OK(CloseConn(p))
  /\ CxlGoto(p, "off")
  /\ UNCHANGED <<ppc, ctx, cancelled, pushed, unacked, k8sVars>>

CancelCtx(p, cause) ==
  ctx' = [ctx EXCEPT ![p] = IF @ = "live" THEN cause ELSE @]

\* Mutation: the listener returns after cf() and never sets the flag.
CxlAbort_NoFlag(p) ==
  /\ cxlpc[p] = "hit"
  /\ CancelCtx(p, "cancel")
  /\ CxlGoto(p, "off")
  /\ UNCHANGED <<ppc, cancelled, pushed, unacked, dbVars, k8sVars>>

\* A cancellation was received: first cf() ...
CxlAbort(p) ==
  /\ cxlpc[p] = "hit"
  /\ CancelCtx(p, "cancel")
  /\ CxlGoto(p, "set")
  /\ UNCHANGED <<ppc, cancelled, pushed, unacked, dbVars, k8sVars>>

\* ... then cancelled.set(true).
CxlFlag(p) ==
  /\ cxlpc[p] = "set"
  /\ cancelled' = cancelled \union {p}
  /\ CxlGoto(p, "off")
  /\ UNCHANGED <<ppc, ctx, pushed, unacked, dbVars, k8sVars>>

-----------------------------------------------------------------------------
(* Signals, timeouts and kills *)

\* From signal.Notify to its return, Run cancels ctx2 on SIGTERM.
SignalHandler(p) ==
  /\ p \in sigterm
  /\ ppc[p] \in {"setrunning"} \union Working \union Completing
  /\ ctx[p] = "live"
  /\ CancelCtx(p, "interrupt")
  /\ UNCHANGED <<ppc, cxlpc, cancelled, pushed, unacked, dbVars, k8sVars>>

\* SIGTERM without a handler ends the process; the other container gets the
\* signal too.
Terminate(p) ==
  /\ p \in sigterm /\ pod[p] = "running"
  /\ ppc[p] \in Unprotected \union {"gone"}
  /\ Die(p)
  /\ EndPod(p, "failed")
  /\ UNCHANGED <<job, watching, watchq, disruptions, crashes>>

\* The --timeout of runbuild, which its context has from before Run
RunTimeout(p) ==
  /\ ppc[p] \in {"get", "setrunning"} \union Working \union Completing
  /\ ctx[p] = "live"
  /\ Disrupt
  /\ CancelCtx(p, "interrupt")
  /\ UNCHANGED <<ppc, cxlpc, cancelled, pushed, unacked, dbVars>>
  /\ UNCHANGED <<job, pod, sigterm, watching, watchq, crashes>>

\* SIGKILL: of the whole pod (node lost, grace period over), or of the furan
\* container alone (out of memory), which leaves the pod up.
Kill(p) ==
  /\ pod[p] = "running"
  /\ Crash
  /\ Die(p)
  /\ \/ EndPod(p, "failed")
     \/ ppc[p] # "gone" /\ UNCHANGED <<pod, sigterm>>
  /\ UNCHANGED <<job, watching, watchq, disruptions>>

-----------------------------------------------------------------------------
RunStep(p) ==
  \/ Boot(p) \/ BootFails(p) \/ Gate(p) \/ TakeOver(p) \/ TakeOverFails(p)
  \/ GetCommitSHA(p) \/ TagCheck(p) \/ Fetch(p) \/ Build(p) \/ StepFails(p)
  \/ Complete(p) \/ ChooseStatus(p) \/ MarkCompleted(p) \/ Exit(p)

CxlStep(p) ==
  \/ CxlGet(p) \/ CxlListen(p) \/ CxlWait(p) \/ CxlCtxDone(p)
  \/ CxlAbort(p) \/ CxlFlag(p)

SignalStep(p) == SignalHandler(p) \/ Terminate(p) \/ RunTimeout(p)

RunnerNext ==
  \E p \in Pods :
    \/ PodStarts(p) \/ RunStep(p) \/ CxlStep(p) \/ SignalStep(p) \/ Kill(p)
==============================================================================
