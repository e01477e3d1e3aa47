----------------------------- MODULE FuranProofs -----------------------------
(***************************************************************************)
(* Theorems about Furan, for every set of pods, clients and connections    *)
(* and every bound on faults, disruptions and crashes.                     *)
(***************************************************************************)
EXTENDS Furan, TLAPS

-----------------------------------------------------------------------------
(* Types *)

\* The part of DBTypeOK that a transaction can disturb
RowTypeOK ==
  /\ status \in Status \union {NoRow}
  /\ completed \in BOOLEAN
  /\ listening \in [Conns -> SUBSET Channel]
  /\ inbox \in [Conns -> Seq(Payload)]

\* A NOTIFY keeps every inbox a sequence of payloads.
LEMMA NotifyType ==
  ASSUME inbox \in [Conns -> Seq(Payload)], NEW ch, NEW msg \in Payload,
         Notify(ch, msg)
  PROVE  inbox' \in [Conns -> Seq(Payload)]
BY DEF Notify

\* Every transaction and every operation on a connection keeps the row and
\* the connections well typed.
LEMMA RowType ==
  ASSUME DBTypeOK
  PROVE  /\ Read => RowTypeOK'
         /\ CreateBuild => RowTypeOK'
         /\ SetBuildAsRunning => RowTypeOK'
         /\ \A s : SetBuildAsCompleted(s) => RowTypeOK'
         /\ RequestCancel => RowTypeOK'
         /\ \A c \in Conns, ch \in Channel : Listen(c, ch) => RowTypeOK'
         /\ \A c \in Conns : Receive(c) => RowTypeOK'
         /\ \A c \in Conns : CloseConn(c) => RowTypeOK'
<1> USE DEF DBTypeOK, RowTypeOK
<1>1. Read => RowTypeOK'
  BY DEF Read, rowVars
<1>2. CreateBuild => RowTypeOK'
  BY DEF CreateBuild, Status
<1>3. SetBuildAsRunning => RowTypeOK'
  BY NotifyType DEF SetBuildAsRunning, Status, Payload
<1>4. ASSUME NEW s, SetBuildAsCompleted(s) PROVE RowTypeOK'
  <2>1. s \in TerminalStatus /\ s \in Status /\ s \in Payload
    BY <1>4 DEF SetBuildAsCompleted, TerminalState, TerminalStatus, Status, Payload
  <2> QED BY <1>4, <2>1, NotifyType DEF SetBuildAsCompleted
<1>5. RequestCancel => RowTypeOK'
  BY NotifyType DEF RequestCancel, Status, Payload
<1>6. ASSUME NEW c \in Conns, NEW ch \in Channel, Listen(c, ch) PROVE RowTypeOK'
  BY <1>6 DEF Listen
<1>7. ASSUME NEW c \in Conns, Receive(c) PROVE RowTypeOK'
  BY <1>7 DEF Receive
<1>8. ASSUME NEW c \in Conns, CloseConn(c) PROVE RowTypeOK'
  BY <1>8 DEF CloseConn
<1> QED BY <1>1, <1>2, <1>3, <1>4, <1>5, <1>6, <1>7, <1>8

\* The counter of faults stays within its bound.
LEMMA FaultType ==
  ASSUME DBTypeOK, faults < MaxFaults, faults' = faults + 1
  PROVE  faults' \in 0..MaxFaults
BY FaultsAssumption DEF DBTypeOK

\* So do the counters of disruptions and crashes.
LEMMA DisruptType ==
  ASSUME K8sTypeOK
  PROVE  /\ Disrupt => disruptions' \in 0..MaxDisruptions
         /\ Crash => crashes' \in 0..MaxCrashes
BY K8sAssumption DEF K8sTypeOK, Disrupt, Crash

\* A stopped watch has an empty queue.
LEMMA StopWatchType ==
  StopWatch => watching' \in BOOLEAN /\ watchq' \in Seq(WatchEvent)
<1>1. StopWatch => watching' \in BOOLEAN
  BY DEF StopWatch
<1>2. StopWatch => watchq' \in Seq(WatchEvent)
  BY DEF StopWatch
<1> QED BY <1>1, <1>2

\* Every step of the server keeps the types.
LEMMA HandoffType ==
  ASSUME TypeOK, HandoffNext
  PROVE  DBTypeOK' /\ K8sTypeOK' /\ HandoffTypeOK'
<1> USE RowType, FaultType, DisruptType, StopWatchType, ServerAssumption
    DEF TypeOK, DBTypeOK, RowTypeOK, K8sTypeOK, HandoffTypeOK,
        HandoffPC, HandoffResult, WatcherPC, ListenerPC
<1> DEFINE Typed == DBTypeOK' /\ K8sTypeOK' /\ HandoffTypeOK'
<1>1. StartBuild => Typed
  BY DEF StartBuild, OK, watcherVars, k8sVars
<1>2. StartBuildRejected => Typed
  BY DEF StartBuildRejected, OK, Fault, watcherVars, k8sVars
<1>3. ServerCrash => Typed
  BY DEF ServerCrash, ServerGone, OK
<1>4. StartGet => Typed
  BY DEF StartGet, OK, Fault, watcherVars, k8sVars
<1>5. RunCreate => Typed
  BY DEF RunCreate, CreateJob, watcherVars, dbVars, JobPhase
<1>6. RunCreateFails => Typed
  BY DEF RunCreateFails, CreateJob, watcherVars, dbVars, JobPhase
<1>7. RunWatch => Typed
  BY DEF RunWatch, OpenWatch, dbVars
<1>8. StartTimeout => Typed
  BY DEF StartTimeout, watcherVars, k8sVars, dbVars
<1>9. StartJobError => Typed
  BY DEF StartJobError, dbVars
<1>10. StartJobRunning => Typed
  BY DEF StartJobRunning, dbVars
<1>11. MarkHandoffFailed => Typed
  BY DEF MarkHandoffFailed, OK, Fault, watcherVars, k8sVars
<1>12. WatcherRunning => Typed
  BY DEF WatcherRunning, k8sVars, dbVars
<1>13. WatcherListenError => Typed
  BY DEF WatcherListenError, k8sVars, dbVars
<1>14. WatcherTimeout => Typed
  BY DEF WatcherTimeout, k8sVars, dbVars
<1>15. WatcherEvent => Typed
  BY DEF WatcherEvent, processEvent, dbVars
<1>16. ListenGet => Typed
  BY DEF ListenGet, OK, Fault, k8sVars
<1>17. ListenRegister => Typed
  BY DEF ListenRegister, OK, Fault, k8sVars, Channel
<1>18. ListenWait => Typed
  BY DEF ListenWait, OK, Fault, k8sVars
<1>19. ListenCancelled => Typed
  BY DEF ListenCancelled, OK, k8sVars
<1>20. ListenError => Typed
  BY DEF ListenError, k8sVars, dbVars
<1>21. ListenReturn => Typed
  BY DEF ListenReturn, k8sVars, dbVars
<1> QED BY HandoffNext, <1>1, <1>2, <1>3, <1>4, <1>5, <1>6, <1>7, <1>8, <1>9,
       <1>10, <1>11, <1>12, <1>13, <1>14, <1>15, <1>16, <1>17, <1>18, <1>19,
       <1>20, <1>21
     DEF HandoffNext, HandoffStep, WatcherStep, ListenerStep

\* Every step of a pod keeps the types.
LEMMA RunnerType ==
  ASSUME TypeOK, NEW p \in Pods
  PROVE  PodStarts(p) \/ RunStep(p) \/ CxlStep(p) \/ SignalStep(p) \/ Kill(p)
           => DBTypeOK' /\ K8sTypeOK' /\ RunnerTypeOK'
<1> USE RowType, FaultType, DisruptType, PodConnsAssumption
    DEF TypeOK, DBTypeOK, RowTypeOK, K8sTypeOK, RunnerTypeOK, RunnerPC,
        Unprotected, Working, Completing, Returned, CxlPC, CtxState
<1> DEFINE Typed == DBTypeOK' /\ K8sTypeOK' /\ RunnerTypeOK'
<1>1. PodStarts(p) => Typed
  BY DEF PodStarts, Goto, StartPod, dbVars, PodPhase
<1>2. Boot(p) => Typed
  BY DEF Boot, Goto, k8sVars, dbVars
<1>3. BootFails(p) => Typed
  BY DEF BootFails, Die, OK, Goto, CxlGoto, Took, k8sVars
<1>4. Gate(p) => Typed
  BY DEF Gate, OK, Fault, Goto, k8sVars
<1>5. TakeOver(p) => Typed
  BY DEF TakeOver, OK, Goto, CxlGoto, k8sVars
<1>6. TakeOverFails(p) => Typed
  BY DEF TakeOverFails, OK, Fault, Goto, k8sVars
<1>7. GetCommitSHA(p) => Typed
  BY DEF GetCommitSHA, Goto, k8sVars, dbVars
<1>8. TagCheck(p) => Typed
  BY DEF TagCheck, Goto, k8sVars, dbVars
<1>9. Fetch(p) => Typed
  BY DEF Fetch, Goto, k8sVars, dbVars
<1>10. Build(p) => Typed
  BY DEF Build, Goto, k8sVars, dbVars
<1>11. StepFails(p) => Typed
  BY DEF StepFails, Goto, k8sVars, dbVars
<1>12. Complete(p) => Typed
  BY DEF Complete, OK, Fault, Goto, k8sVars
<1>13. ChooseStatus(p) => Typed
  BY DEF ChooseStatus, Goto, k8sVars, dbVars
<1>14. MarkCompleted(p) => Typed
  BY DEF MarkCompleted, OK, Fault, Goto, k8sVars
<1>15. Exit(p) => Typed
  BY DEF Exit, EndPod, Die, OK, Goto, CxlGoto, Took, PodPhase
<1>16. CxlGet(p) => Typed
  BY DEF CxlGet, OK, Fault, CxlGoto, k8sVars
<1>17. CxlListen(p) => Typed
  BY DEF CxlListen, OK, Fault, CxlGoto, k8sVars, Channel
<1>18. CxlWait(p) => Typed
  BY DEF CxlWait, OK, Fault, CxlGoto, k8sVars
<1>19. CxlCtxDone(p) => Typed
  BY DEF CxlCtxDone, OK, CxlGoto, k8sVars
<1>20. CxlAbort(p) => Typed
  BY DEF CxlAbort, CxlGoto, CancelCtx, k8sVars, dbVars
<1>21. CxlFlag(p) => Typed
  BY DEF CxlFlag, CxlGoto, k8sVars, dbVars
<1>22. SignalHandler(p) => Typed
  BY DEF SignalHandler, CancelCtx, k8sVars, dbVars
<1>23. Terminate(p) => Typed
  BY DEF Terminate, EndPod, Die, OK, Goto, CxlGoto, Took, PodPhase
<1>24. Kill(p) => Typed
  BY DEF Kill, EndPod, Die, OK, Goto, CxlGoto, Took, PodPhase
<1>25. RunTimeout(p) => Typed
  BY DEF RunTimeout, Disrupt, CancelCtx, dbVars
<1> QED BY <1>1, <1>2, <1>3, <1>4, <1>5, <1>6, <1>7, <1>8, <1>9, <1>10, <1>11,
       <1>12, <1>13, <1>14, <1>15, <1>16, <1>17, <1>18, <1>19, <1>20, <1>21,
       <1>22, <1>23, <1>24, <1>25
     DEF RunStep, CxlStep, SignalStep

\* Every step of a client keeps the types.
LEMMA RpcType ==
  ASSUME TypeOK, NEW c \in Clients, CancelStep(c)
  PROVE  DBTypeOK' /\ RpcTypeOK'
<1> USE RowType, FaultType
    DEF TypeOK, DBTypeOK, RowTypeOK, RpcTypeOK, RpcPC
<1>1. CancelCheck(c) => DBTypeOK' /\ RpcTypeOK'
  BY DEF CancelCheck, OK, Fault, RpcGoto
<1>2. CancelRecheck(c) => DBTypeOK' /\ RpcTypeOK'
  BY DEF CancelRecheck, OK, Fault, RpcGoto
<1>3. CancelCommit(c) => DBTypeOK' /\ RpcTypeOK'
  BY DEF CancelCommit, OK, Fault, RpcGoto
<1>4. CancelAbandoned(c) => DBTypeOK' /\ RpcTypeOK'
  BY DEF CancelAbandoned, OK, RpcGoto
<1> QED BY CancelStep(c), <1>1, <1>2, <1>3, <1>4 DEF CancelStep

\* Every step of Kubernetes keeps the types.
LEMMA K8sType ==
  ASSUME TypeOK, JobController \/ JobDeadlineExceeded
  PROVE  K8sTypeOK'
<1> USE DisruptType DEF TypeOK, K8sTypeOK, JobPhase, WatchEvent
<1>1. JobSucceeds => K8sTypeOK'
  BY DEF JobSucceeds, Emit
<1>2. JobBackoffLimitExceeded => K8sTypeOK'
  BY DEF JobBackoffLimitExceeded, Emit
<1>3. JobExpires => K8sTypeOK'
  BY DEF JobExpires, Emit
<1>4. JobDeleted => K8sTypeOK'
  BY DEF JobDeleted, Emit, RunningPods
<1>5. WatchEnds => K8sTypeOK'
  BY DEF WatchEnds
<1>6. JobDeadlineExceeded => K8sTypeOK'
  BY DEF JobDeadlineExceeded, Emit, RunningPods
<1>7. ASSUME NEW p \in Pods, Evict(p) PROVE K8sTypeOK'
  BY <1>7 DEF Evict
<1>8. WatchError => K8sTypeOK'
  BY DEF WatchError, Emit
<1> QED BY JobController \/ JobDeadlineExceeded, <1>1, <1>2, <1>3, <1>4, <1>5,
       <1>6, <1>7, <1>8 DEF JobController

\* Type correctness: no handler writes a value outside the sets it is
\* documented to hold, and every bounded counter stays within its bound.
THEOREM TypeCorrect == Spec => []TypeOK
<1>1. Init => TypeOK
  <2>1. DBInit => DBTypeOK
    <3>1. DBInit => completed \in BOOLEAN
      BY DEF DBInit
    <3>2. DBInit => /\ status \in Status \union {NoRow}
                    /\ listening \in [Conns -> SUBSET Channel]
                    /\ inbox \in [Conns -> Seq(Payload)]
                    /\ faults \in 0..MaxFaults
      BY FaultsAssumption DEF DBInit
    <3> QED BY <3>1, <3>2 DEF DBTypeOK
  <2>2. K8sInit => K8sTypeOK
    <3>1. K8sInit => watching \in BOOLEAN
      BY DEF K8sInit
    <3>2. K8sInit => /\ job \in JobPhase
                     /\ pod \in [Pods -> PodPhase]
                     /\ sigterm \in SUBSET Pods
                     /\ watchq \in Seq(WatchEvent)
                     /\ disruptions \in 0..MaxDisruptions
                     /\ crashes \in 0..MaxCrashes
      BY K8sAssumption DEF K8sInit, JobPhase, PodPhase
    <3> QED BY <3>1, <3>2 DEF K8sTypeOK
  <2>3. HandoffInit => HandoffTypeOK
    BY DEF HandoffInit, HandoffTypeOK, HandoffPC, HandoffResult, WatcherPC,
           ListenerPC
  <2>4. RunnerInit => RunnerTypeOK
    BY DEF RunnerInit, RunnerTypeOK, RunnerPC, CxlPC, CtxState
  <2>5. RpcInit => RpcTypeOK
    BY DEF RpcInit, RpcTypeOK, RpcPC
  <2> QED BY <2>1, <2>2, <2>3, <2>4, <2>5 DEF Init, TypeOK
<1>2. TypeOK /\ [Next]_vars => TypeOK'
  <2> SUFFICES ASSUME TypeOK, [Next]_vars PROVE TypeOK'
    OBVIOUS
  <2>1. CASE K8sStep
    BY <2>1, K8sType
    DEF K8sStep, TypeOK, dbVars, DBTypeOK, handoffVars, HandoffTypeOK,
        runnerVars, RunnerTypeOK, RpcTypeOK
  <2>2. CASE ServerStep
    BY <2>2, HandoffType
    DEF ServerStep, TypeOK, runnerVars, RunnerTypeOK, RpcTypeOK
  <2>3. CASE PodStep
    BY <2>3, RunnerType
    DEF PodStep, RunnerNext, TypeOK, handoffVars, HandoffTypeOK, RpcTypeOK
  <2>4. CASE ClientStep
    BY <2>4, RpcType
    DEF ClientStep, RpcNext, TypeOK, k8sVars, K8sTypeOK, handoffVars,
        HandoffTypeOK, runnerVars, RunnerTypeOK
  <2>5. CASE UNCHANGED vars
    BY <2>5
    DEF vars, TypeOK, dbVars, DBTypeOK, k8sVars, K8sTypeOK, handoffVars,
        HandoffTypeOK, runnerVars, RunnerTypeOK, RpcTypeOK
  <2> QED BY <2>1, <2>2, <2>3, <2>4, <2>5 DEF Next
<1> QED BY <1>1, <1>2, PTL DEF Spec

-----------------------------------------------------------------------------
(* What a step may do to the status and the pods *)

\* What each transaction does to the status
LEMMA TxStatus ==
  /\ Read => status' = status
  /\ RequestCancel => status' = "CancelRequested"
  /\ \A s : SetBuildAsCompleted(s) => status' = s /\ TerminalState(s)
  /\ \A c, ch : Listen(c, ch) => status' = status
  /\ \A c : Receive(c) \/ CloseConn(c) => status' = status
BY DEF Read, rowVars, RequestCancel, Listen, Receive, CloseConn,
       SetBuildAsCompleted

\* The server touches no pod; it creates the row and, once the handoff failed,
\* writes Failure.
ServerWrite ==
  \/ status' = status
  \/ hpc = "failed" /\ status' = "Failure"
  \/ status = NoRow /\ status' = "NotStarted"

LEMMA ServerFrame ==
  ASSUME HandoffNext
  PROVE  pod' = pod /\ ServerWrite
<1> USE TxStatus DEF ServerWrite
<1> DEFINE Frame == pod' = pod /\ ServerWrite
<1>1. StartBuild => Frame
  BY DEF StartBuild, OK, CreateBuild, k8sVars
<1>2. StartBuildRejected => Frame
  BY DEF StartBuildRejected, OK, Fault, dbVars, CreateBuild, k8sVars
<1>3. ServerCrash => Frame
  BY DEF ServerCrash, ServerGone, OK
<1>4. StartGet => Frame
  BY DEF StartGet, OK, Fault, dbVars, k8sVars
<1>5. RunCreate => Frame
  BY DEF RunCreate, dbVars
<1>6. RunCreateFails => Frame
  BY DEF RunCreateFails, dbVars
<1>7. RunWatch => Frame
  BY DEF RunWatch, dbVars
<1>8. StartTimeout => Frame
  BY DEF StartTimeout, k8sVars, dbVars
<1>9. StartJobError => Frame
  BY DEF StartJobError, dbVars
<1>10. StartJobRunning => Frame
  BY DEF StartJobRunning, dbVars
<1>11. MarkHandoffFailed => Frame
  BY DEF MarkHandoffFailed, OK, Fault, dbVars, k8sVars
<1>12. WatcherRunning => Frame
  BY DEF WatcherRunning, k8sVars, dbVars
<1>13. WatcherListenError => Frame
  BY DEF WatcherListenError, k8sVars, dbVars
<1>14. WatcherTimeout => Frame
  BY DEF WatcherTimeout, k8sVars, dbVars
<1>15. WatcherEvent => Frame
  BY DEF WatcherEvent, dbVars
<1>16. ListenGet => Frame
  BY DEF ListenGet, OK, Fault, dbVars, k8sVars
<1>17. ListenRegister => Frame
  BY DEF ListenRegister, OK, Fault, dbVars, k8sVars
<1>18. ListenWait => Frame
  BY DEF ListenWait, OK, Fault, dbVars, k8sVars
<1>19. ListenCancelled => Frame
  BY DEF ListenCancelled, OK, k8sVars
<1>20. ListenError => Frame
  BY DEF ListenError, k8sVars, dbVars
<1>21. ListenReturn => Frame
  BY DEF ListenReturn, k8sVars, dbVars
<1> QED BY HandoffNext, <1>1, <1>2, <1>3, <1>4, <1>5, <1>6, <1>7, <1>8, <1>9,
       <1>10, <1>11, <1>12, <1>13, <1>14, <1>15, <1>16, <1>17, <1>18, <1>19,
       <1>20, <1>21
     DEF HandoffNext, HandoffStep, WatcherStep, ListenerStep

\* A client only ever writes CancelRequested.
LEMMA ClientFrame ==
  ASSUME NEW c \in Clients, CancelStep(c)
  PROVE  status' \in {status, "CancelRequested"}
BY TxStatus, CancelStep(c)
DEF CancelStep, CancelCheck, CancelRecheck, CancelCommit, CancelAbandoned, OK, Fault

\* The steps of pod p that neither start it, nor pass the gate of Manager.Run,
\* nor take the build over
PodOther(p) ==
  /\ \A q \in Pods \ {p} :
       ppc'[q] = ppc[q] /\ cxlpc'[q] = cxlpc[q] /\ pod'[q] = pod[q]
  /\ cxlpc'[p] = "none" <=> cxlpc[p] = "none"
  /\ ppc'[p] = "setrunning" => ppc[p] = "setrunning"
  /\ ppc'[p] \notin {"off", "gone"}
       => ppc[p] \notin {"off", "gone"} /\ pod'[p] = pod[p]
  /\ pod'[p] = "running" => pod[p] = "running"
  /\ \/ status' = status \/ TerminalState(status')
     \/ ppc[p] = "setrunning" /\ status' = "Running"

\* The four kinds of step of a pod
LEMMA PodFrame ==
  ASSUME TypeOK, NEW p \in Pods,
         PodStarts(p) \/ RunStep(p) \/ CxlStep(p) \/ SignalStep(p) \/ Kill(p)
  PROVE  \/ PodStarts(p)
         \/ Gate(p) /\ status = "NotStarted" /\ OK(Read) /\ Goto(p, "setrunning")
         \/ TakeOver(p)
         \/ PodOther(p)
<1> USE TxStatus DEF TypeOK, RunnerTypeOK, K8sTypeOK, PodOther
<1>1. Boot(p) => PodOther(p)
  BY DEF Boot, Goto, k8sVars, dbVars
<1>2. BootFails(p) => PodOther(p)
  BY DEF BootFails, Die, OK, Goto, CxlGoto, Took, k8sVars
<1>3. TakeOverFails(p) => PodOther(p)
  BY DEF TakeOverFails, OK, Fault, Goto, SetBuildAsRunning, k8sVars
<1>4. GetCommitSHA(p) => PodOther(p)
  BY DEF GetCommitSHA, Goto, k8sVars, dbVars
<1>5. TagCheck(p) => PodOther(p)
  BY DEF TagCheck, Goto, k8sVars, dbVars
<1>6. Fetch(p) => PodOther(p)
  BY DEF Fetch, Goto, k8sVars, dbVars
<1>7. Build(p) => PodOther(p)
  BY DEF Build, Goto, k8sVars, dbVars
<1>8. StepFails(p) => PodOther(p)
  BY DEF StepFails, Goto, k8sVars, dbVars
<1>9. Complete(p) => PodOther(p)
  BY DEF Complete, OK, Fault, Goto, k8sVars
<1>10. ChooseStatus(p) => PodOther(p)
  BY DEF ChooseStatus, Goto, k8sVars, dbVars
<1>11. MarkCompleted(p) => PodOther(p)
  BY DEF MarkCompleted, OK, Fault, Goto, k8sVars
<1>12. Exit(p) => PodOther(p)
  BY DEF Exit, EndPod, Die, OK, Goto, CxlGoto, Took, Returned
<1>13. CxlGet(p) => PodOther(p)
  BY DEF CxlGet, OK, Fault, CxlGoto, k8sVars
<1>14. CxlListen(p) => PodOther(p)
  BY DEF CxlListen, OK, Fault, CxlGoto, k8sVars
<1>15. CxlWait(p) => PodOther(p)
  BY DEF CxlWait, OK, Fault, CxlGoto, k8sVars
<1>16. CxlCtxDone(p) => PodOther(p)
  BY DEF CxlCtxDone, OK, CxlGoto, k8sVars
<1>17. CxlAbort(p) => PodOther(p)
  BY DEF CxlAbort, CxlGoto, k8sVars, dbVars
<1>18. CxlFlag(p) => PodOther(p)
  BY DEF CxlFlag, CxlGoto, k8sVars, dbVars
<1>19. SignalHandler(p) => PodOther(p)
  BY DEF SignalHandler, k8sVars, dbVars, Working, Completing
<1>20. Terminate(p) => PodOther(p)
  BY DEF Terminate, EndPod, Die, OK, Goto, CxlGoto, Took, Unprotected
<1>21. Kill(p) => PodOther(p)
  BY DEF Kill, EndPod, Die, OK, Goto, CxlGoto, Took
<1>22. Gate(p) => \/ status = "NotStarted" /\ OK(Read) /\ Goto(p, "setrunning")
                 \/ PodOther(p)
  BY DEF Gate, OK, Fault, Goto, k8sVars
<1>23. RunTimeout(p) => PodOther(p)
  BY DEF RunTimeout, Disrupt, dbVars, Working, Completing
<1> QED BY <1>1, <1>2, <1>3, <1>4, <1>5, <1>6, <1>7, <1>8, <1>9, <1>10, <1>11,
       <1>12, <1>13, <1>14, <1>15, <1>16, <1>17, <1>18, <1>19, <1>20, <1>21,
       <1>22, <1>23
     DEF RunStep, CxlStep, SignalStep

-----------------------------------------------------------------------------
(* One attempt *)

\* Init establishes AttemptInv.
LEMMA AttemptInit == Init => AttemptInv
BY DEF Init, DBInit, K8sInit, RunnerInit, AttemptInv, AtMostOneAttempt, Took

\* Every step preserves AttemptInv if the Job runs one pod at a time.
LEMMA AttemptStep ==
  ASSUME PodsOverlap = FALSE, TypeOK, AttemptInv, [Next]_vars
  PROVE  AttemptInv'
<1> USE DEF AttemptInv, AtMostOneAttempt, Took
<1>1. CASE K8sStep
  <2>1. pod' = pod
    BY <1>1 DEF K8sStep, JobController, JobSucceeds, JobBackoffLimitExceeded,
       JobExpires, JobDeleted, WatchEnds, WatchError, Evict, JobDeadlineExceeded
  <2> QED BY <1>1, <2>1 DEF K8sStep, dbVars, runnerVars
<1>2. CASE ServerStep
  BY <1>2, ServerFrame DEF ServerStep, ServerWrite, NoRow, runnerVars
<1>3. CASE PodStep
  <2> PICK p \in Pods :
        PodStarts(p) \/ RunStep(p) \/ CxlStep(p) \/ SignalStep(p) \/ Kill(p)
    BY <1>3 DEF PodStep, RunnerNext
  <2>1. CASE PodStarts(p)
    BY <2>1 DEF PodStarts, StartPod, RunningPods, Goto, dbVars, TypeOK,
       K8sTypeOK, RunnerTypeOK
  <2>2. CASE Gate(p) /\ status = "NotStarted" /\ OK(Read) /\ Goto(p, "setrunning")
    BY <2>2 DEF Gate, OK, Read, rowVars, Goto, k8sVars, TypeOK, RunnerTypeOK
  <2>3. CASE TakeOver(p)
    BY <2>3 DEF TakeOver, OK, SetBuildAsRunning, Goto, CxlGoto, k8sVars, NoRow,
       TypeOK, RunnerTypeOK
  <2>4. CASE PodOther(p)
    BY <2>4 DEF PodOther, NoRow, TerminalState
  <2> QED BY <2>1, <2>2, <2>3, <2>4, PodFrame
<1>4. CASE ClientStep
  BY <1>4, ClientFrame
  DEF ClientStep, RpcNext, NoRow, k8sVars, runnerVars
<1>5. CASE UNCHANGED vars
  BY <1>5 DEF vars, dbVars, k8sVars, runnerVars
<1> QED BY <1>1, <1>2, <1>3, <1>4, <1>5 DEF Next

\* At most one pod takes a build over, for any number of replacement pods and
\* any failures, if the Job runs one pod at a time.
THEOREM OneAttempt ==
  ASSUME PodsOverlap = FALSE
  PROVE  Spec => []AtMostOneAttempt
<1>1. TypeOK /\ AttemptInv /\ [Next]_vars => AttemptInv'
  BY AttemptStep
<1>2. AttemptInv => AtMostOneAttempt
  BY DEF AttemptInv
<1> QED BY <1>1, <1>2, AttemptInit, TypeCorrect, PTL DEF Spec

\* A build that a pod took over never becomes Running again, under the same
\* assumption.
THEOREM NoSecondRun ==
  ASSUME PodsOverlap = FALSE
  PROVE  Spec => RunsOnce
<1> DEFINE Step == (\E p \in Pods : Took(p)) /\ status # "Running"
                     => status' # "Running"
<1>1. TypeOK /\ AttemptInv /\ [Next]_vars => [Step]_vars
  <2> SUFFICES ASSUME TypeOK, AttemptInv, Next, \E p \in Pods : Took(p),
                      status # "Running"
               PROVE  status' # "Running"
    OBVIOUS
  <2>1. CASE K8sStep
    BY <2>1 DEF K8sStep, dbVars
  <2>2. CASE ServerStep
    BY <2>2, ServerFrame DEF ServerStep, ServerWrite
  <2>3. CASE PodStep
    <3> PICK p \in Pods :
          PodStarts(p) \/ RunStep(p) \/ CxlStep(p) \/ SignalStep(p) \/ Kill(p)
      BY <2>3 DEF PodStep, RunnerNext
    <3>1. ppc[p] # "setrunning"
      BY DEF AttemptInv
    <3> QED BY <3>1, PodFrame
         DEF PodStarts, dbVars, OK, Read, rowVars, TakeOver, PodOther, TerminalState
  <2>4. CASE ClientStep
    BY <2>4, ClientFrame DEF ClientStep, RpcNext
  <2> QED BY <2>1, <2>2, <2>3, <2>4 DEF Next
<1>2. TypeOK /\ AttemptInv /\ [Next]_vars => AttemptInv'
  BY AttemptStep
<1> QED BY <1>1, <1>2, AttemptInit, TypeCorrect, PTL DEF Spec, RunsOnce

-----------------------------------------------------------------------------
(* Outcomes *)

\* A step of a pod preserves OutcomeInv.
LEMMA OutcomePod ==
  ASSUME TypeOK, AttemptInv, AttemptInv', OutcomeInv, NEW p \in Pods,
         PodStarts(p) \/ RunStep(p) \/ CxlStep(p) \/ SignalStep(p) \/ Kill(p)
  PROVE  OutcomeInv'
<1> USE TxStatus
    DEF TypeOK, RunnerTypeOK, K8sTypeOK, OutcomeInv, OutcomeHonest, Took,
        Working, Completing, Returned
<1>1. PodStarts(p) => OutcomeInv'
  BY DEF PodStarts, Goto, StartPod, dbVars
<1>2. Boot(p) => OutcomeInv'
  BY DEF Boot, Goto, k8sVars, dbVars
<1>3. BootFails(p) => OutcomeInv'
  BY DEF BootFails, Die, OK, Goto, CxlGoto, k8sVars
<1>4. Gate(p) => OutcomeInv'
  BY DEF Gate, OK, Fault, Goto, k8sVars
<1>5. TakeOver(p) => OutcomeInv'
  BY DEF TakeOver, OK, Goto, CxlGoto, k8sVars, SetBuildAsRunning, AttemptInv,
      AtMostOneAttempt
<1>6. TakeOverFails(p) => OutcomeInv'
  BY DEF TakeOverFails, OK, Fault, Goto, k8sVars, SetBuildAsRunning
<1>7. GetCommitSHA(p) => OutcomeInv'
  BY DEF GetCommitSHA, Goto, k8sVars, dbVars
<1>8. TagCheck(p) => OutcomeInv'
  BY DEF TagCheck, Goto, k8sVars, dbVars
<1>9. Fetch(p) => OutcomeInv'
  BY DEF Fetch, Goto, k8sVars, dbVars
<1>10. Build(p) => OutcomeInv'
  BY DEF Build, Goto, k8sVars, dbVars
<1>11. StepFails(p) => OutcomeInv'
  BY DEF StepFails, Goto, k8sVars, dbVars
<1>12. Complete(p) => OutcomeInv'
  BY DEF Complete, OK, Fault, Goto, FinalStatus, k8sVars, AttemptInv,
      AtMostOneAttempt
<1>13. ChooseStatus(p) => OutcomeInv'
  BY DEF ChooseStatus, Goto, k8sVars, dbVars
<1>14. MarkCompleted(p) => OutcomeInv'
  BY DEF MarkCompleted, OK, Fault, Goto, k8sVars, MarkedStatus
<1>15. Exit(p) => OutcomeInv'
  BY DEF Exit, EndPod, Die, OK, Goto, CxlGoto
<1>16. CxlGet(p) => OutcomeInv'
  BY DEF CxlGet, OK, Fault, CxlGoto, k8sVars
<1>17. CxlListen(p) => OutcomeInv'
  BY DEF CxlListen, OK, Fault, CxlGoto, k8sVars
<1>18. CxlWait(p) => OutcomeInv'
  BY DEF CxlWait, OK, Fault, CxlGoto, k8sVars
<1>19. CxlCtxDone(p) => OutcomeInv'
  BY DEF CxlCtxDone, OK, CxlGoto, k8sVars
<1>20. CxlAbort(p) => OutcomeInv'
  BY DEF CxlAbort, CxlGoto, k8sVars, dbVars
<1>21. CxlFlag(p) => OutcomeInv'
  BY DEF CxlFlag, CxlGoto, k8sVars, dbVars
<1>22. SignalHandler(p) => OutcomeInv'
  BY DEF SignalHandler, k8sVars, dbVars
<1>23. Terminate(p) => OutcomeInv'
  BY DEF Terminate, EndPod, Die, OK, Goto, CxlGoto, Unprotected
<1>24. Kill(p) => OutcomeInv'
  BY DEF Kill, EndPod, Die, OK, Goto, CxlGoto
<1>25. RunTimeout(p) => OutcomeInv'
  BY DEF RunTimeout, Disrupt, dbVars
<1> QED BY <1>1, <1>2, <1>3, <1>4, <1>5, <1>6, <1>7, <1>8, <1>9, <1>10, <1>11,
       <1>12, <1>13, <1>14, <1>15, <1>16, <1>17, <1>18, <1>19, <1>20, <1>21,
       <1>22, <1>23, <1>24, <1>25
     DEF RunStep, CxlStep, SignalStep

\* AttemptInv and OutcomeInv are invariants if the Job runs one pod at a time.
LEMMA OutcomeInvariant ==
  ASSUME PodsOverlap = FALSE
  PROVE  Spec => [](AttemptInv /\ OutcomeInv)
<1>1. Init => OutcomeInv
  BY DEF Init, DBInit, K8sInit, RunnerInit, OutcomeInv, OutcomeHonest, NoRow,
         Took, Working, Completing
<1>2. TypeOK /\ AttemptInv /\ OutcomeInv /\ [Next]_vars => AttemptInv' /\ OutcomeInv'
  <2> SUFFICES ASSUME TypeOK, AttemptInv, OutcomeInv, [Next]_vars
               PROVE  AttemptInv' /\ OutcomeInv'
    OBVIOUS
  <2>0. AttemptInv'
    BY AttemptStep
  <2> USE DEF OutcomeInv, OutcomeHonest, Took
  <2>1. CASE K8sStep
    <3>1. pod' = pod
      BY <2>1 DEF K8sStep, JobController, JobSucceeds, JobBackoffLimitExceeded,
         JobExpires, JobDeleted, WatchEnds, WatchError, Evict, JobDeadlineExceeded
    <3> QED BY <2>0, <2>1, <3>1 DEF K8sStep, dbVars, runnerVars
  <2>2. CASE ServerStep
    BY <2>0, <2>2, ServerFrame DEF ServerStep, ServerWrite, runnerVars
  <2>3. CASE PodStep
    BY <2>0, <2>3, OutcomePod DEF PodStep, RunnerNext
  <2>4. CASE ClientStep
    BY <2>0, <2>4, ClientFrame DEF ClientStep, RpcNext, k8sVars, runnerVars
  <2>5. CASE UNCHANGED vars
    BY <2>0, <2>5 DEF vars, dbVars, k8sVars, runnerVars
  <2> QED BY <2>1, <2>2, <2>3, <2>4, <2>5 DEF Next
<1> QED BY <1>1, <1>2, AttemptInit, TypeCorrect, PTL DEF Spec

\* The recorded outcome is what happened, for any failures, if the Job runs one
\* pod at a time.
THEOREM HonestOutcome ==
  ASSUME PodsOverlap = FALSE
  PROVE  Spec => []OutcomeHonest
<1>1. OutcomeInv => OutcomeHonest
  BY DEF OutcomeInv
<1> QED BY <1>1, OutcomeInvariant, PTL

-----------------------------------------------------------------------------
(* Cancellation *)

PodsListenToCancel == \A p \in Pods : listening[p] \subseteq {"cxl"}

\* No pod gets a notification, and pods listen to cancellations only.
Silent ==
  \A p \in Pods : listening'[p] \subseteq {"cxl"} /\ (inbox[p] = <<>> => inbox'[p] = <<>>)

\* Only the transaction of CancelBuild notifies a pod.
LEMMA TxSilent ==
  ASSUME DBTypeOK, PodsListenToCancel
  PROVE  /\ Read \/ CreateBuild \/ SetBuildAsRunning => Silent
         /\ \A s : SetBuildAsCompleted(s) => Silent
         /\ Listen(Server, "running") => Silent
         /\ \A p \in Pods : Listen(p, "cxl") => Silent
         /\ \A c \in Conns : Receive(c) => Silent
         /\ \A c \in Conns : CloseConn(c) => Silent
<1> USE PodConnsAssumption DEF DBTypeOK, PodsListenToCancel, Silent
<1>1. Read \/ CreateBuild => Silent
  BY DEF Read, rowVars, CreateBuild
<1>2. SetBuildAsRunning => Silent
  BY DEF SetBuildAsRunning, Notify
<1>3. ASSUME NEW s, SetBuildAsCompleted(s) PROVE Silent
  BY <1>3 DEF SetBuildAsCompleted, Notify
<1>4. Listen(Server, "running") => Silent
  BY ServerAssumption DEF Listen
<1>5. ASSUME NEW p \in Pods, Listen(p, "cxl") PROVE Silent
  BY <1>5 DEF Listen
<1>6. ASSUME NEW c \in Conns, Receive(c) PROVE Silent
  BY <1>6 DEF Receive
<1>7. ASSUME NEW c \in Conns, CloseConn(c) PROVE Silent
  BY <1>7 DEF CloseConn
<1> QED BY <1>1, <1>2, <1>3, <1>4, <1>5, <1>6, <1>7

\* The server notifies no pod.
LEMMA ServerSilent ==
  ASSUME TypeOK, PodsListenToCancel, HandoffNext
  PROVE  Silent
<1> USE TxSilent, ServerAssumption DEF TypeOK
<1>1. StartBuild => Silent
  BY DEF StartBuild, OK
<1>2. StartBuildRejected => Silent
  BY DEF StartBuildRejected, OK, Fault
<1>3. ServerCrash => Silent
  BY DEF ServerCrash, ServerGone, OK
<1>4. StartGet => Silent
  BY DEF StartGet, OK, Fault
<1>5. RunCreate => Silent
  BY DEF RunCreate, dbVars, PodsListenToCancel, Silent
<1>6. RunCreateFails => Silent
  BY DEF RunCreateFails, dbVars, PodsListenToCancel, Silent
<1>7. RunWatch => Silent
  BY DEF RunWatch, dbVars, PodsListenToCancel, Silent
<1>8. StartTimeout => Silent
  BY DEF StartTimeout, dbVars, PodsListenToCancel, Silent
<1>9. StartJobError => Silent
  BY DEF StartJobError, dbVars, PodsListenToCancel, Silent
<1>10. StartJobRunning => Silent
  BY DEF StartJobRunning, dbVars, PodsListenToCancel, Silent
<1>11. MarkHandoffFailed => Silent
  BY DEF MarkHandoffFailed, OK, Fault
<1>12. WatcherRunning => Silent
  BY DEF WatcherRunning, dbVars, PodsListenToCancel, Silent
<1>13. WatcherListenError => Silent
  BY DEF WatcherListenError, dbVars, PodsListenToCancel, Silent
<1>14. WatcherTimeout => Silent
  BY DEF WatcherTimeout, dbVars, PodsListenToCancel, Silent
<1>15. WatcherEvent => Silent
  BY DEF WatcherEvent, dbVars, PodsListenToCancel, Silent
<1>16. ListenGet => Silent
  BY DEF ListenGet, OK, Fault
<1>17. ListenRegister => Silent
  BY DEF ListenRegister, OK, Fault
<1>18. ListenWait => Silent
  BY DEF ListenWait, OK, Fault
<1>19. ListenCancelled => Silent
  BY DEF ListenCancelled, OK
<1>20. ListenError => Silent
  BY DEF ListenError, dbVars, PodsListenToCancel, Silent
<1>21. ListenReturn => Silent
  BY DEF ListenReturn, dbVars, PodsListenToCancel, Silent
<1> QED BY HandoffNext, <1>1, <1>2, <1>3, <1>4, <1>5, <1>6, <1>7, <1>8, <1>9,
       <1>10, <1>11, <1>12, <1>13, <1>14, <1>15, <1>16, <1>17, <1>18, <1>19,
       <1>20, <1>21
     DEF HandoffNext, HandoffStep, WatcherStep, ListenerStep

\* A step of a pod preserves CancelInv.
LEMMA CancelPod ==
  ASSUME TypeOK, CancelInv, NEW p \in Pods,
         PodStarts(p) \/ RunStep(p) \/ CxlStep(p) \/ SignalStep(p) \/ Kill(p),
         rpc' = rpc
  PROVE  CancelInv'
<1>0. Requested' <=> Requested
  BY DEF Requested
<1>00. PodsListenToCancel
  BY DEF CancelInv, PodsListenToCancel
<1> USE <1>0, <1>00, TxStatus, TxSilent, PodConnsAssumption
    DEF TypeOK, RunnerTypeOK, CancelInv, CancelledOnlyIfRequested, Silent
<1>1. PodStarts(p) => CancelInv'
  BY DEF PodStarts, Goto, StartPod, dbVars, PodsListenToCancel
<1>2. Boot(p) => CancelInv'
  BY DEF Boot, Goto, dbVars, PodsListenToCancel
<1>3. BootFails(p) => CancelInv'
  BY DEF BootFails, Die, OK, Goto, CxlGoto
<1>4. Gate(p) => CancelInv'
  BY DEF Gate, OK, Fault, Goto
<1>5. TakeOver(p) => CancelInv'
  BY DEF TakeOver, OK, Goto, CxlGoto, SetBuildAsRunning
<1>6. TakeOverFails(p) => CancelInv'
  BY DEF TakeOverFails, OK, Fault, Goto, SetBuildAsRunning
<1>7. GetCommitSHA(p) => CancelInv'
  BY DEF GetCommitSHA, Goto, dbVars, PodsListenToCancel
<1>8. TagCheck(p) => CancelInv'
  BY DEF TagCheck, Goto, dbVars, PodsListenToCancel
<1>9. Fetch(p) => CancelInv'
  BY DEF Fetch, Goto, dbVars, PodsListenToCancel
<1>10. Build(p) => CancelInv'
  BY DEF Build, Goto, dbVars, PodsListenToCancel
<1>11. StepFails(p) => CancelInv'
  BY DEF StepFails, Goto, dbVars, PodsListenToCancel
<1>12. Complete(p) => CancelInv'
  BY DEF Complete, OK, Fault, Goto, FinalStatus
<1>13. ChooseStatus(p) => CancelInv'
  BY DEF ChooseStatus, Goto, dbVars, PodsListenToCancel
<1>14. MarkCompleted(p) => CancelInv'
  BY DEF MarkCompleted, OK, Fault, Goto, MarkedStatus
<1>15. Exit(p) => CancelInv'
  BY DEF Exit, EndPod, Die, OK, Goto, CxlGoto
<1>16. CxlGet(p) => CancelInv'
  BY DEF CxlGet, OK, Fault, CxlGoto
<1>17. CxlListen(p) => CancelInv'
  BY DEF CxlListen, OK, Fault, CxlGoto
<1>18. CxlWait(p) => CancelInv'
  BY DEF CxlWait, OK, Fault, CxlGoto, Receive
<1>19. CxlCtxDone(p) => CancelInv'
  BY DEF CxlCtxDone, OK, CxlGoto
<1>20. CxlAbort(p) => CancelInv'
  BY DEF CxlAbort, CxlGoto, dbVars, PodsListenToCancel
<1>21. CxlFlag(p) => CancelInv'
  BY DEF CxlFlag, CxlGoto, dbVars, PodsListenToCancel
<1>22. SignalHandler(p) => CancelInv'
  BY DEF SignalHandler, dbVars, PodsListenToCancel
<1>23. Terminate(p) => CancelInv'
  BY DEF Terminate, EndPod, Die, OK, Goto, CxlGoto
<1>24. Kill(p) => CancelInv'
  BY DEF Kill, EndPod, Die, OK, Goto, CxlGoto
<1>25. RunTimeout(p) => CancelInv'
  BY DEF RunTimeout, Disrupt, dbVars, PodsListenToCancel
<1> QED BY <1>1, <1>2, <1>3, <1>4, <1>5, <1>6, <1>7, <1>8, <1>9, <1>10, <1>11,
       <1>12, <1>13, <1>14, <1>15, <1>16, <1>17, <1>18, <1>19, <1>20, <1>21,
       <1>22, <1>23, <1>24, <1>25
     DEF RunStep, CxlStep, SignalStep

\* A step of a client preserves CancelInv: the transaction of CancelBuild is
\* itself the request.
LEMMA CancelClient ==
  ASSUME TypeOK, CancelInv, NEW c \in Clients, CancelStep(c),
         UNCHANGED runnerVars
  PROVE  CancelInv'
<1> USE DEF TypeOK, RpcTypeOK, CancelInv, CancelledOnlyIfRequested, Requested,
            RpcGoto, runnerVars
<1>0. Requested => Requested'
  BY CancelStep(c)
  DEF CancelStep, CancelCheck, CancelRecheck, CancelCommit, CancelAbandoned
<1>1. CASE rpc[c] # "commit"
  <2>1. UNCHANGED rowVars
    BY <1>1, CancelStep(c)
    DEF CancelStep, CancelCheck, CancelRecheck, CancelCommit, CancelAbandoned, OK,
        Fault, Read
  <2> QED BY <1>0, <2>1 DEF rowVars
<1>2. CASE rpc[c] = "commit"
  <2>0. CancelCommit(c) \/ CancelAbandoned(c)
    BY <1>2, CancelStep(c) DEF CancelStep, CancelCheck, CancelRecheck
  <2>1. Requested'
    BY <1>2, <2>0 DEF CancelCommit, CancelAbandoned
  <2>2. listening' = listening
    BY <2>0 DEF CancelCommit, CancelAbandoned, OK, Fault, RequestCancel, Read, rowVars
  <2> QED BY <2>1, <2>2
<1> QED BY <1>1, <1>2

\* CancelInv is an invariant, whether or not pods overlap.
LEMMA CancelInvariant == Spec => []CancelInv
<1>1. Init => CancelInv
  BY PodConnsAssumption
  DEF Init, DBInit, RunnerInit, CancelInv, CancelledOnlyIfRequested, NoRow
<1>2. TypeOK /\ CancelInv /\ [Next]_vars => CancelInv'
  <2> SUFFICES ASSUME TypeOK, CancelInv, [Next]_vars PROVE CancelInv'
    OBVIOUS
  <2>1. CASE K8sStep
    BY <2>1 DEF K8sStep, dbVars, runnerVars, CancelInv,
       CancelledOnlyIfRequested, Requested
  <2>2. CASE ServerStep
    <3>1. PodsListenToCancel
      BY DEF CancelInv, PodsListenToCancel
    <3> QED BY <2>2, <3>1, ServerFrame, ServerSilent
         DEF ServerStep, ServerWrite, Silent, runnerVars, CancelInv,
             CancelledOnlyIfRequested, Requested
  <2>3. CASE PodStep
    BY <2>3, CancelPod DEF PodStep, RunnerNext
  <2>4. CASE ClientStep
    BY <2>4, CancelClient DEF ClientStep, RpcNext
  <2>5. CASE UNCHANGED vars
    BY <2>5 DEF vars, dbVars, runnerVars, CancelInv, CancelledOnlyIfRequested,
       Requested
  <2> QED BY <2>1, <2>2, <2>3, <2>4, <2>5 DEF Next
<1> QED BY <1>1, <1>2, TypeCorrect, PTL DEF Spec

\* The row says CancelRequested or Cancelled only after a CancelBuild call wrote
\* its request, for any number of pods, overlapping or not, and any failures.
THEOREM CancelledRequested == Spec => []CancelledOnlyIfRequested
<1>1. CancelInv => CancelledOnlyIfRequested
  BY DEF CancelInv
<1> QED BY <1>1, CancelInvariant, PTL

-----------------------------------------------------------------------------
(* The row *)

\* RowInv is an invariant: the row is never deleted, and nobody gets as far as
\* to write it without having read or made it.
LEMMA RowInvariant == Spec => []RowInv
<1>1. Init => RowInv
  BY DEF Init, HandoffInit, RunnerInit, RpcInit, RowInv
<1>2. TypeOK /\ RowInv /\ [Next]_vars => RowInv'
  <2> SUFFICES ASSUME TypeOK, RowInv, [Next]_vars PROVE RowInv'
    OBVIOUS
  <2> USE DEF RowInv, NoRow
  <2>1. CASE K8sStep
    BY <2>1 DEF K8sStep, dbVars, handoffVars, runnerVars
  <2>2. CASE ServerStep
    <3>1. status # NoRow => status' # NoRow
      BY <2>2, ServerFrame DEF ServerStep, ServerWrite
    <3>2. StartBuild => status' # NoRow
      BY DEF StartBuild, OK, CreateBuild
    <3>3. StartBuildRejected => hpc' = "rejected"
      BY DEF StartBuildRejected
    <3>4. StartBuild \/ StartBuildRejected \/ hpc' = hpc
            \/ hpc \notin {"idle", "rejected"}
      BY <2>2
      DEF ServerStep, HandoffNext, ServerCrash, WithinHandoff, HandoffStep,
          StartGet, RunCreate, RunCreateFails, RunWatch, StartTimeout,
          StartJobError, StartJobRunning, MarkHandoffFailed, WatcherStep,
          WatcherRunning, WatcherListenError, WatcherTimeout, WatcherEvent,
          ListenerStep, ListenGet, ListenRegister, ListenWait, ListenCancelled,
          ListenError, ListenReturn
    <3> QED BY <2>2, <3>1, <3>2, <3>3, <3>4 DEF ServerStep, runnerVars
  <2>3. CASE PodStep
    <3> PICK p \in Pods :
          PodStarts(p) \/ RunStep(p) \/ CxlStep(p) \/ SignalStep(p) \/ Kill(p)
      BY <2>3 DEF PodStep, RunnerNext
    <3>1. CASE PodStarts(p)
      BY <2>3, <3>1 DEF PodStep, PodStarts, Goto, dbVars, handoffVars, TypeOK,
         RunnerTypeOK
    <3>2. CASE Gate(p) /\ status = "NotStarted" /\ OK(Read) /\ Goto(p, "setrunning")
      BY <2>3, <3>2 DEF PodStep, OK, Read, rowVars, Goto, handoffVars, TypeOK,
         RunnerTypeOK
    <3>3. CASE TakeOver(p)
      BY <2>3, <3>3 DEF PodStep, TakeOver, OK, SetBuildAsRunning, Goto,
         handoffVars, TypeOK, RunnerTypeOK
    <3>4. CASE PodOther(p)
      BY <2>3, <3>4 DEF PodStep, PodOther, TerminalState, handoffVars
    <3> QED BY <3>1, <3>2, <3>3, <3>4, PodFrame
  <2>4. CASE ClientStep
    <3> PICK c \in Clients : CancelStep(c)
      BY <2>4 DEF ClientStep, RpcNext
    <3>1. status' \in {status, "CancelRequested"}
      BY ClientFrame
    <3>2. status # NoRow
      BY DEF CancelStep, CancelCheck, CancelRecheck, CancelCommit, CancelAbandoned
    <3> QED BY <3>1, <3>2
  <2>5. CASE UNCHANGED vars
    BY <2>5 DEF vars, dbVars, handoffVars, runnerVars
  <2> QED BY <2>1, <2>2, <2>3, <2>4, <2>5 DEF Next
<1> QED BY <1>1, <1>2, TypeCorrect, PTL DEF Spec
==============================================================================
