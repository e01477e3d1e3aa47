---------------------------- MODULE HandoffProofs ----------------------------
(***************************************************************************)
(* The handoff of a build from the server to a pod, for every set of pods, *)
(* overlapping or not, and every bound on faults, disruptions and crashes. *)
(***************************************************************************)
EXTENDS FuranProofs

-----------------------------------------------------------------------------
(* Manager.Start returns nil *)

\* The server's connection gets no notification and listens as before.
ServerSilence ==
  /\ listening'[Server] \subseteq {"running"}
  /\ inbox[Server] = <<>> => inbox'[Server] = <<>>

\* Only SetBuildAsRunning notifies the server.
LEMMA TxServerSilence ==
  ASSUME DBTypeOK, listening[Server] \subseteq {"running"}
  PROVE  /\ Read \/ CreateBuild \/ RequestCancel => ServerSilence
         /\ \A s : SetBuildAsCompleted(s) => ServerSilence
         /\ Listen(Server, "running") => ServerSilence
         /\ \A p \in Pods : Listen(p, "cxl") => ServerSilence
         /\ \A c \in Conns : Receive(c) => ServerSilence
         /\ \A c \in Conns : CloseConn(c) => ServerSilence
<1> USE ServerAssumption, PodConnsAssumption DEF DBTypeOK, ServerSilence
<1>1. Read \/ CreateBuild => ServerSilence
  BY DEF Read, rowVars, CreateBuild
<1>2. RequestCancel => ServerSilence
  BY DEF RequestCancel, Notify
<1>3. ASSUME NEW s, SetBuildAsCompleted(s) PROVE ServerSilence
  BY <1>3 DEF SetBuildAsCompleted, Notify
<1>4. Listen(Server, "running") => ServerSilence
  BY DEF Listen
<1>5. ASSUME NEW p \in Pods, Listen(p, "cxl") PROVE ServerSilence
  BY <1>5 DEF Listen
<1>6. ASSUME NEW c \in Conns, Receive(c) PROVE ServerSilence
  BY <1>6 DEF Receive
<1>7. ASSUME NEW c \in Conns, CloseConn(c) PROVE ServerSilence
  BY <1>7 DEF CloseConn
<1> QED BY <1>1, <1>2, <1>3, <1>4, <1>5, <1>6, <1>7

\* A step of a pod preserves HandoffInv: whatever it lets the server see, it
\* shows after it took the build over.
LEMMA HandoffPod ==
  ASSUME TypeOK, HandoffInv, NEW p \in Pods,
         PodStarts(p) \/ RunStep(p) \/ CxlStep(p) \/ SignalStep(p) \/ Kill(p),
         UNCHANGED <<handoffVars, rpc>>
  PROVE  HandoffInv'
<1> USE TxStatus, TxServerSilence, PodConnsAssumption, FaultsAssumption
    DEF TypeOK, DBTypeOK, RunnerTypeOK, K8sTypeOK, HandoffInv, HandoffHasPod, ServerSilence,
        handoffVars, WithinHandoff, Took, Working, Completing, Returned
<1>1. PodStarts(p) => HandoffInv'
  BY DEF PodStarts, Goto, StartPod, dbVars
<1>2. Boot(p) => HandoffInv'
  BY DEF Boot, Goto, k8sVars, dbVars
<1>3. BootFails(p) => HandoffInv'
  BY DEF BootFails, Die, OK, Goto, CxlGoto, k8sVars
<1>4. Gate(p) => HandoffInv'
  BY DEF Gate, OK, Fault, Goto, k8sVars
<1>5. TakeOver(p) => HandoffInv'
  BY DEF TakeOver, OK, Goto, CxlGoto, SetBuildAsRunning, k8sVars
<1>6. ASSUME TakeOverFails(p) PROVE HandoffInv'
  <2>1. ppc' = [ppc EXCEPT ![p] = "exit1"] /\ UNCHANGED <<cxlpc, k8sVars>>
    BY <1>6 DEF TakeOverFails, Goto
  <2>2. CASE Fault(SetBuildAsRunning) /\ UNCHANGED unacked
    BY <1>6, <2>1, <2>2 DEF TakeOverFails, Fault, SetBuildAsRunning, k8sVars
  <2>3. CASE OK(Read) /\ UNCHANGED unacked
    BY <1>6, <2>1, <2>3 DEF TakeOverFails, OK, k8sVars
  <2>4. CASE OK(SetBuildAsRunning) /\ unacked' = unacked \union {p}
    <3>1. unacked' # {}
      BY <2>4
    <3> QED BY <1>6, <2>1, <2>4, <3>1 DEF TakeOverFails, OK, SetBuildAsRunning, k8sVars
  <2> QED BY <1>6, <2>2, <2>3, <2>4 DEF TakeOverFails
<1>7. GetCommitSHA(p) => HandoffInv'
  BY DEF GetCommitSHA, Goto, k8sVars, dbVars
<1>8. TagCheck(p) => HandoffInv'
  BY DEF TagCheck, Goto, k8sVars, dbVars
<1>9. Fetch(p) => HandoffInv'
  BY DEF Fetch, Goto, k8sVars, dbVars
<1>10. Build(p) => HandoffInv'
  BY DEF Build, Goto, k8sVars, dbVars
<1>11. StepFails(p) => HandoffInv'
  BY DEF StepFails, Goto, k8sVars, dbVars
<1>12. Complete(p) => HandoffInv'
  BY DEF Complete, OK, Fault, Goto, k8sVars
<1>13. ChooseStatus(p) => HandoffInv'
  BY DEF ChooseStatus, Goto, k8sVars, dbVars
<1>14. MarkCompleted(p) => HandoffInv'
  BY DEF MarkCompleted, OK, Fault, Goto, k8sVars
<1>15. Exit(p) => HandoffInv'
  BY DEF Exit, EndPod, Die, OK, Goto, CxlGoto
<1>16. CxlGet(p) => HandoffInv'
  BY DEF CxlGet, OK, Fault, CxlGoto, k8sVars
<1>17. CxlListen(p) => HandoffInv'
  BY DEF CxlListen, OK, Fault, CxlGoto, k8sVars
<1>18. CxlWait(p) => HandoffInv'
  BY DEF CxlWait, OK, Fault, CxlGoto, k8sVars
<1>19. CxlCtxDone(p) => HandoffInv'
  BY DEF CxlCtxDone, OK, CxlGoto, k8sVars
<1>20. CxlAbort(p) => HandoffInv'
  BY DEF CxlAbort, CxlGoto, k8sVars, dbVars
<1>21. CxlFlag(p) => HandoffInv'
  BY DEF CxlFlag, CxlGoto, k8sVars, dbVars
<1>22. SignalHandler(p) => HandoffInv'
  BY DEF SignalHandler, k8sVars, dbVars
<1>23. Terminate(p) => HandoffInv'
  BY DEF Terminate, EndPod, Die, OK, Goto, CxlGoto
<1>24. Kill(p) => HandoffInv'
  BY DEF Kill, EndPod, Die, OK, Goto, CxlGoto
<1>25. RunTimeout(p) => HandoffInv'
  BY DEF RunTimeout, Disrupt, dbVars
<1> QED BY <1>1, <1>2, <1>3, <1>4, <1>5, <1>6, <1>7, <1>8, <1>9, <1>10, <1>11,
       <1>12, <1>13, <1>14, <1>15, <1>16, <1>17, <1>18, <1>19, <1>20, <1>21,
       <1>22, <1>23, <1>24, <1>25
     DEF RunStep, CxlStep, SignalStep

\* A step of the server preserves HandoffInv: it believes in a running build
\* only what a pod has caused.
LEMMA HandoffServer ==
  ASSUME TypeOK, HandoffInv, RowInv, HandoffNext, UNCHANGED <<runnerVars, rpc>>
  PROVE  HandoffInv'
<1>0. pod' = pod
  BY ServerFrame
<1> USE <1>0, TxStatus, TxServerSilence, ServerAssumption, FaultsAssumption
    DEF TypeOK, DBTypeOK, HandoffTypeOK, HandoffPC, K8sTypeOK, HandoffInv, HandoffHasPod,
        ServerSilence, RowInv, runnerVars, k8sVars, watcherVars, WithinHandoff, Took
<1>1. StartBuild => HandoffInv'
  BY DEF StartBuild, OK, CreateBuild
<1>2. StartBuildRejected => HandoffInv'
  BY DEF StartBuildRejected, OK, Fault
<1>3. ServerCrash => HandoffInv'
  BY DEF ServerCrash, ServerGone, OK, StopWatch
<1>4. StartGet => HandoffInv'
  BY DEF StartGet, OK, Fault
<1>5. RunCreate => HandoffInv'
  BY DEF RunCreate, dbVars
<1>6. RunCreateFails => HandoffInv'
  BY DEF RunCreateFails, dbVars
<1>7. RunWatch => HandoffInv'
  BY DEF RunWatch, dbVars
<1>8. StartTimeout => HandoffInv'
  BY DEF StartTimeout, dbVars
<1>9. StartJobError => HandoffInv'
  BY DEF StartJobError, dbVars, StopWatch
<1>10. StartJobRunning => HandoffInv'
  BY DEF StartJobRunning, dbVars, StopWatch
<1>11. MarkHandoffFailed => HandoffInv'
  BY DEF MarkHandoffFailed, OK, Fault
<1>12. WatcherRunning => HandoffInv'
  BY DEF WatcherRunning, dbVars
<1>13. WatcherListenError => HandoffInv'
  BY DEF WatcherListenError, dbVars
<1>14. WatcherTimeout => HandoffInv'
  BY DEF WatcherTimeout, dbVars
<1>15. WatcherEvent => HandoffInv'
  BY DEF WatcherEvent, dbVars, processEvent
<1>16. ListenGet => HandoffInv'
  BY DEF ListenGet, OK, Fault
<1>17. ListenRegister => HandoffInv'
  BY DEF ListenRegister, OK, Fault
<1>18. ListenWait => HandoffInv'
  BY DEF ListenWait, OK, Fault, Receive
<1>19. ListenCancelled => HandoffInv'
  BY DEF ListenCancelled, OK
<1>20. ListenError => HandoffInv'
  BY DEF ListenError, dbVars
<1>21. ListenReturn => HandoffInv'
  BY DEF ListenReturn, dbVars
<1> QED BY HandoffNext, <1>1, <1>2, <1>3, <1>4, <1>5, <1>6, <1>7, <1>8, <1>9,
       <1>10, <1>11, <1>12, <1>13, <1>14, <1>15, <1>16, <1>17, <1>18, <1>19,
       <1>20, <1>21
     DEF HandoffNext, HandoffStep, WatcherStep, ListenerStep

\* A step of a client preserves HandoffInv: a cancellation is requested only
\* of a build that was seen Running.
LEMMA HandoffClient ==
  ASSUME TypeOK, HandoffInv, NEW c \in Clients, CancelStep(c),
         UNCHANGED <<k8sVars, handoffVars, runnerVars>>
  PROVE  HandoffInv'
<1> USE TxStatus, TxServerSilence, FaultsAssumption
    DEF TypeOK, DBTypeOK, RpcTypeOK, HandoffInv, HandoffHasPod, ServerSilence, handoffVars,
        runnerVars, k8sVars, WithinHandoff, Took, RpcGoto, Running
<1>1. CancelCheck(c) => HandoffInv'
  BY DEF CancelCheck, OK, Fault
<1>2. CancelRecheck(c) => HandoffInv'
  BY DEF CancelRecheck, OK, Fault
<1>3. CancelCommit(c) => HandoffInv'
  BY DEF CancelCommit, OK, Fault
<1>4. CancelAbandoned(c) => HandoffInv'
  BY DEF CancelAbandoned, OK
<1> QED BY CancelStep(c), <1>1, <1>2, <1>3, <1>4 DEF CancelStep

\* A step of Kubernetes preserves HandoffInv: a Job succeeds through a pod that
\* took the build over.
LEMMA HandoffK8s ==
  ASSUME TypeOK, HandoffInv, K8sStep
  PROVE  HandoffInv'
<1>1. pod' = pod
  BY DEF K8sStep, JobController, JobSucceeds, JobBackoffLimitExceeded,
     JobExpires, JobDeleted, WatchEnds, WatchError, Evict, JobDeadlineExceeded
<1>2. CASE JobSucceeds
  <2>1. \E p \in Pods : Took(p)
    BY <1>2 DEF JobSucceeds, HandoffInv
  <2> QED BY <1>1, <2>1
       DEF K8sStep, dbVars, handoffVars, runnerVars, HandoffInv, HandoffHasPod,
           WithinHandoff, Took
<1>3. CASE ~JobSucceeds
  <2>1. \A i \in DOMAIN watchq' :
          watchq'[i] = "succeeded" => i \in DOMAIN watchq /\ watchq[i] = "succeeded"
    BY <1>3 DEF K8sStep, JobController, JobBackoffLimitExceeded, JobExpires,
       JobDeleted, WatchEnds, WatchError, Evict, JobDeadlineExceeded, Emit, TypeOK, K8sTypeOK
  <2> QED BY <1>1, <2>1
       DEF K8sStep, dbVars, handoffVars, runnerVars, HandoffInv, HandoffHasPod,
           WithinHandoff, Took
<1> QED BY <1>2, <1>3

\* HandoffInv is an invariant.
LEMMA HandoffInvariant == Spec => []HandoffInv
<1>1. Init => HandoffInv
  BY ServerAssumption
  DEF Init, DBInit, K8sInit, HandoffInit, RunnerInit, RpcInit, HandoffInv, HandoffHasPod,
      Took, Working, Completing
<1>2. TypeOK /\ RowInv /\ HandoffInv /\ [Next]_vars => HandoffInv'
  <2> SUFFICES ASSUME TypeOK, RowInv, HandoffInv, [Next]_vars PROVE HandoffInv'
    OBVIOUS
  <2>1. CASE K8sStep
    BY <2>1, HandoffK8s
  <2>2. CASE ServerStep
    BY <2>2, HandoffServer DEF ServerStep
  <2>3. CASE PodStep
    BY <2>3, HandoffPod DEF PodStep, RunnerNext
  <2>4. CASE ClientStep
    BY <2>4, HandoffClient DEF ClientStep, RpcNext
  <2>5. CASE UNCHANGED vars
    BY <2>5 DEF vars, dbVars, k8sVars, handoffVars, runnerVars, HandoffInv,
       HandoffHasPod, WithinHandoff, Took
  <2> QED BY <2>1, <2>2, <2>3, <2>4, <2>5 DEF Next
<1> QED BY <1>1, <1>2, TypeCorrect, RowInvariant, PTL DEF Spec

\* Without failed round trips, Manager.Start returns nil only for a build that
\* a pod took over or whose SetBuildAsRunning was committed while its context was
\* cancelled, whichever goroutine of JobWatcher.start told it so, for any
\* disruptions and crashes and for pods that overlap too.
THEOREM RunningIsTaken == Spec => []HandoffHasPod
<1>1. HandoffInv => HandoffHasPod
  BY DEF HandoffInv
<1> QED BY <1>1, HandoffInvariant, PTL

-----------------------------------------------------------------------------
(* JobWatcher.start *)

\* JobWatcher.start is stuck on a send only if Manager.Start had returned on
\* its timeout, for any failures.
THEOREM StrandedByTimeout == Spec => []StrandedOnlyByTimeout
<1>1. Init => WatcherInv
  BY DEF Init, HandoffInit, WatcherInv
<1>2. WatcherInv /\ [Next]_vars => WatcherInv'
  <2> SUFFICES ASSUME WatcherInv, [Next]_vars PROVE WatcherInv'
    OBVIOUS
  <2> USE DEF WatcherInv
  <2>1. CASE K8sStep \/ PodStep \/ ClientStep \/ UNCHANGED vars
    BY <2>1 DEF K8sStep, PodStep, ClientStep, vars, handoffVars
  <2>2. CASE StartBuild \/ StartBuildRejected \/ ServerCrash
    BY <2>2 DEF StartBuild, StartBuildRejected, ServerCrash, ServerGone, watcherVars
  <2>3. CASE HandoffStep
    BY <2>3 DEF HandoffStep, StartGet, RunCreate, RunCreateFails, RunWatch,
       StartTimeout, StartJobError, StartJobRunning, MarkHandoffFailed, watcherVars
  <2>4. CASE WatcherStep
    BY <2>4 DEF WatcherStep, WatcherRunning, WatcherListenError, WatcherTimeout,
       WatcherEvent
  <2>5. CASE ListenerStep
    BY <2>5 DEF ListenerStep, ListenGet, ListenRegister, ListenWait,
       ListenCancelled, ListenError, ListenReturn
  <2> QED BY <2>1, <2>2, <2>3, <2>4, <2>5 DEF Next, ServerStep, HandoffNext
<1>3. WatcherInv => StrandedOnlyByTimeout
  BY DEF WatcherInv, StrandedOnlyByTimeout, WithinHandoff
<1> QED BY <1>1, <1>2, <1>3, PTL DEF Spec

-----------------------------------------------------------------------------
(* Responsibility *)

\* A step of a pod preserves ResponsibleInv: it leaves Manager.Run after it
\* wrote an outcome, or before it took the build over.
LEMMA ResponsiblePod ==
  ASSUME TypeOK, HandoffInv, RowInv, ResponsibleInv, NEW p \in Pods,
         PodStarts(p) \/ RunStep(p) \/ CxlStep(p) \/ SignalStep(p) \/ Kill(p),
         UNCHANGED handoffVars
  PROVE  ResponsibleInv'
<1> USE TxStatus, FaultsAssumption, K8sAssumption
    DEF TypeOK, DBTypeOK, RunnerTypeOK, K8sTypeOK, ResponsibleInv, RowInv,
        handoffVars, WithinHandoff, Took, Working, Completing, Returned,
        TerminalState, NoRow
<1>1. PodStarts(p) => ResponsibleInv'
  BY DEF PodStarts, Goto, StartPod, dbVars
<1>2. Boot(p) => ResponsibleInv'
  BY DEF Boot, Goto, k8sVars, dbVars
<1>3. BootFails(p) => ResponsibleInv'
  BY DEF BootFails, Die, OK, Goto, CxlGoto, k8sVars
<1>4. Gate(p) => ResponsibleInv'
  BY DEF Gate, OK, Fault, Goto, k8sVars
<1>5. TakeOver(p) => ResponsibleInv'
  BY DEF TakeOver, OK, Goto, CxlGoto, SetBuildAsRunning, k8sVars
<1>6. ASSUME TakeOverFails(p) PROVE ResponsibleInv'
  <2>1. ppc' = [ppc EXCEPT ![p] = "exit1"] /\ UNCHANGED <<cxlpc, k8sVars>>
    BY <1>6 DEF TakeOverFails, Goto
  <2>2. CASE Fault(SetBuildAsRunning) /\ UNCHANGED unacked
    BY <1>6, <2>1, <2>2 DEF TakeOverFails, Fault, SetBuildAsRunning, k8sVars
  <2>3. CASE OK(Read) /\ UNCHANGED unacked
    BY <1>6, <2>1, <2>3 DEF TakeOverFails, OK, k8sVars
  <2>4. CASE OK(SetBuildAsRunning) /\ unacked' = unacked \union {p}
    <3>1. unacked' # {}
      BY <2>4
    <3> QED BY <1>6, <2>1, <2>4, <3>1 DEF TakeOverFails, OK, SetBuildAsRunning, k8sVars
  <2> QED BY <1>6, <2>2, <2>3, <2>4 DEF TakeOverFails
<1>7. GetCommitSHA(p) => ResponsibleInv'
  BY DEF GetCommitSHA, Goto, k8sVars, dbVars
<1>8. TagCheck(p) => ResponsibleInv'
  BY DEF TagCheck, Goto, k8sVars, dbVars
<1>9. Fetch(p) => ResponsibleInv'
  BY DEF Fetch, Goto, k8sVars, dbVars
<1>10. Build(p) => ResponsibleInv'
  BY DEF Build, Goto, k8sVars, dbVars
<1>11. StepFails(p) => ResponsibleInv'
  BY DEF StepFails, Goto, k8sVars, dbVars
<1>12. ASSUME Complete(p) PROVE ResponsibleInv'
  <2>1. /\ ppc' = [ppc EXCEPT ![p] = ppc'[p]] /\ ppc'[p] \in Completing \union {"exit0"}
        /\ UNCHANGED <<cxlpc, unacked, pod, crashes>> /\ faults' \in {faults, faults + 1}
        /\ ppc[p] # "off"
    BY <1>12 DEF Complete, OK, Fault, Goto, k8sVars
  <2>2. TerminalState(status') \/ (status' = status /\ ppc'[p] \in Completing)
    <3>1. \A s : SetBuildAsCompleted(s) => TerminalState(status')
      BY DEF SetBuildAsCompleted
    <3>2. SetBuildAsCompleted(FinalStatus(ppc[p])) => TerminalState(status')
      BY <3>1
    <3> QED BY <1>12, <3>2 DEF Complete, OK, Fault, Goto
  <2>3. CASE TerminalState(status')
    BY <2>1, <2>3 DEF TerminalState
  <2>4. CASE status' = status /\ ppc'[p] \in Completing
    BY <2>1, <2>4
  <2> QED BY <2>2, <2>3, <2>4
<1>13. ChooseStatus(p) => ResponsibleInv'
  BY DEF ChooseStatus, Goto, k8sVars, dbVars
<1>14. MarkCompleted(p) => ResponsibleInv'
  BY DEF MarkCompleted, OK, Fault, Goto, SetBuildAsCompleted, k8sVars
<1>15. Exit(p) => ResponsibleInv'
  BY DEF Exit, EndPod, Die, OK, Goto, CxlGoto
<1>16. CxlGet(p) => ResponsibleInv'
  BY DEF CxlGet, OK, Fault, CxlGoto, k8sVars
<1>17. CxlListen(p) => ResponsibleInv'
  BY DEF CxlListen, OK, Fault, CxlGoto, k8sVars
<1>18. CxlWait(p) => ResponsibleInv'
  BY DEF CxlWait, OK, Fault, CxlGoto, k8sVars
<1>19. CxlCtxDone(p) => ResponsibleInv'
  BY DEF CxlCtxDone, OK, CxlGoto, k8sVars
<1>20. CxlAbort(p) => ResponsibleInv'
  BY DEF CxlAbort, CxlGoto, k8sVars, dbVars
<1>21. CxlFlag(p) => ResponsibleInv'
  BY DEF CxlFlag, CxlGoto, k8sVars, dbVars
<1>22. SignalHandler(p) => ResponsibleInv'
  BY DEF SignalHandler, k8sVars, dbVars
<1>23. Terminate(p) => ResponsibleInv'
  BY DEF Terminate, EndPod, Die, OK, Goto, CxlGoto, Unprotected
<1>24. Kill(p) => ResponsibleInv'
  BY DEF Kill, EndPod, Crash, Die, OK, Goto, CxlGoto
<1>25. RunTimeout(p) => ResponsibleInv'
  BY DEF RunTimeout, Disrupt, dbVars
<1> QED BY <1>1, <1>2, <1>3, <1>4, <1>5, <1>6, <1>7, <1>8, <1>9, <1>10, <1>11,
       <1>12, <1>13, <1>14, <1>15, <1>16, <1>17, <1>18, <1>19, <1>20, <1>21,
       <1>22, <1>23, <1>24, <1>25
     DEF RunStep, CxlStep, SignalStep

\* A step of the server preserves ResponsibleInv: it gives the build up with an
\* outcome or to a pod.
LEMMA ResponsibleServer ==
  ASSUME TypeOK, HandoffInv, ResponsibleInv, HandoffNext, UNCHANGED runnerVars
  PROVE  ResponsibleInv'
<1> USE TxStatus, FaultsAssumption, K8sAssumption
    DEF TypeOK, DBTypeOK, HandoffTypeOK, K8sTypeOK, ResponsibleInv, HandoffInv,
        runnerVars, k8sVars, WithinHandoff, Took, NoRow
<1>1. StartBuild => ResponsibleInv'
  BY DEF StartBuild, OK, CreateBuild
<1>2. StartBuildRejected => ResponsibleInv'
  BY DEF StartBuildRejected, OK, Fault, CreateBuild
<1>3. ServerCrash => ResponsibleInv'
  BY DEF ServerCrash, Crash, ServerGone, OK
<1>4. StartGet => ResponsibleInv'
  BY DEF StartGet, OK, Fault
<1>5. RunCreate => ResponsibleInv'
  BY DEF RunCreate, dbVars
<1>6. RunCreateFails => ResponsibleInv'
  BY DEF RunCreateFails, dbVars
<1>7. RunWatch => ResponsibleInv'
  BY DEF RunWatch, dbVars
<1>8. StartTimeout => ResponsibleInv'
  BY DEF StartTimeout, dbVars
<1>9. StartJobError => ResponsibleInv'
  BY DEF StartJobError, dbVars
<1>10. StartJobRunning => ResponsibleInv'
  BY DEF StartJobRunning, dbVars
<1>11. MarkHandoffFailed => ResponsibleInv'
  BY DEF MarkHandoffFailed, OK, Fault, TerminalState
<1>12. WatcherRunning => ResponsibleInv'
  BY DEF WatcherRunning, dbVars
<1>13. WatcherListenError => ResponsibleInv'
  BY DEF WatcherListenError, dbVars
<1>14. WatcherTimeout => ResponsibleInv'
  BY DEF WatcherTimeout, dbVars
<1>15. WatcherEvent => ResponsibleInv'
  BY DEF WatcherEvent, dbVars
<1>16. ListenGet => ResponsibleInv'
  BY DEF ListenGet, OK, Fault
<1>17. ListenRegister => ResponsibleInv'
  BY DEF ListenRegister, OK, Fault
<1>18. ListenWait => ResponsibleInv'
  BY DEF ListenWait, OK, Fault
<1>19. ListenCancelled => ResponsibleInv'
  BY DEF ListenCancelled, OK
<1>20. ListenError => ResponsibleInv'
  BY DEF ListenError, dbVars
<1>21. ListenReturn => ResponsibleInv'
  BY DEF ListenReturn, dbVars
<1> QED BY HandoffNext, <1>1, <1>2, <1>3, <1>4, <1>5, <1>6, <1>7, <1>8, <1>9,
       <1>10, <1>11, <1>12, <1>13, <1>14, <1>15, <1>16, <1>17, <1>18, <1>19,
       <1>20, <1>21
     DEF HandoffNext, HandoffStep, WatcherStep, ListenerStep

\* ResponsibleInv is an invariant.
LEMMA ResponsibleInvariant == Spec => []ResponsibleInv
<1>1. Init => ResponsibleInv
  BY DEF Init, DBInit, RunnerInit, ResponsibleInv, Took, NoRow
<1>2. TypeOK /\ HandoffInv /\ RowInv /\ ResponsibleInv /\ [Next]_vars => ResponsibleInv'
  <2> SUFFICES ASSUME TypeOK, HandoffInv, RowInv, ResponsibleInv, [Next]_vars
               PROVE  ResponsibleInv'
    OBVIOUS
  <2>1. CASE K8sStep
    BY <2>1 DEF K8sStep, JobController, JobSucceeds, JobBackoffLimitExceeded,
       JobExpires, JobDeleted, WatchEnds, WatchError, Evict, JobDeadlineExceeded, dbVars,
       handoffVars, runnerVars, ResponsibleInv, WithinHandoff, Took
  <2>2. CASE ServerStep
    BY <2>2, ResponsibleServer DEF ServerStep
  <2>3. CASE PodStep
    BY <2>3, ResponsiblePod DEF PodStep, RunnerNext
  <2>4. CASE ClientStep
    <3> PICK c \in Clients : CancelStep(c)
      BY <2>4 DEF ClientStep, RpcNext
    <3>1. status' \in {status, "CancelRequested"} /\ (faults' = 0 => faults = 0)
      BY ClientFrame, FaultsAssumption
      DEF CancelStep, CancelCheck, CancelRecheck, CancelCommit, CancelAbandoned, OK, Fault, TypeOK,
          DBTypeOK
    <3> QED BY <2>4, <3>1 DEF ClientStep, k8sVars, handoffVars, runnerVars,
         ResponsibleInv, WithinHandoff, Took, NoRow
  <2>5. CASE UNCHANGED vars
    BY <2>5 DEF vars, dbVars, k8sVars, handoffVars, runnerVars, ResponsibleInv,
       WithinHandoff, Took
  <2> QED BY <2>1, <2>2, <2>3, <2>4, <2>5 DEF Next
<1> QED BY <1>1, <1>2, TypeCorrect, HandoffInvariant, RowInvariant, PTL DEF Spec

\* Unless the database failed, a process was killed or a cancellation was
\* written, an accepted build without an outcome has a process left that will
\* write one, or is Running because a pod did not learn of its commit, for any
\* disruptions by Kubernetes and for pods that overlap too.
THEOREM AlwaysResponsible == Spec => []SomeoneResponsible
<1>1. TypeOK /\ RowInv /\ CancelInv /\ ResponsibleInv => SomeoneResponsible
  BY FaultsAssumption, K8sAssumption
  DEF TypeOK, DBTypeOK, K8sTypeOK, Status, RowInv, CancelInv,
      CancelledOnlyIfRequested, ResponsibleInv, SomeoneResponsible, Responsible, TerminalState, WithinHandoff
<1> QED BY <1>1, TypeCorrect, RowInvariant, CancelInvariant, ResponsibleInvariant,
       PTL

-----------------------------------------------------------------------------
(* The completion defer *)

\* What each transaction does to the completion: no one clears it.
LEMMA TxCompleted ==
  /\ Read \/ CreateBuild \/ SetBuildAsRunning \/ RequestCancel => completed' = completed
  /\ \A s : SetBuildAsCompleted(s) => completed'
  /\ \A c, ch : Listen(c, ch) => completed' = completed
  /\ \A c : Receive(c) \/ CloseConn(c) => completed' = completed
BY DEF Read, rowVars, CreateBuild, SetBuildAsRunning, RequestCancel, Listen, Receive,
       CloseConn, SetBuildAsCompleted

\* Completions, faults and crashes are not taken back.
Kept ==
  /\ completed => completed'
  /\ faults > 0 => faults' > 0
  /\ crashes > 0 => crashes' > 0

\* A step of a pod preserves MarkedInv: it returns from Manager.Run through a
\* write of the outcome, or without having taken the build over.
LEMMA MarkedPod ==
  ASSUME TypeOK, MarkedInv, NEW p \in Pods,
         PodStarts(p) \/ RunStep(p) \/ CxlStep(p) \/ SignalStep(p) \/ Kill(p)
  PROVE  MarkedInv'
<1> USE TxCompleted, FaultsAssumption, K8sAssumption
    DEF TypeOK, DBTypeOK, RunnerTypeOK, K8sTypeOK, MarkedInv, MarkedWhenDone,
        Took, Working, Completing, Returned, Unprotected
<1>1. PodStarts(p) => MarkedInv'
  BY DEF PodStarts, Goto, StartPod, dbVars
<1>2. Boot(p) => MarkedInv'
  BY DEF Boot, Goto, k8sVars, dbVars
<1>3. BootFails(p) => MarkedInv'
  BY DEF BootFails, Die, OK, Goto, CxlGoto, k8sVars
<1>4. Gate(p) => MarkedInv'
  BY DEF Gate, OK, Fault, Goto, k8sVars
<1>5. TakeOver(p) => MarkedInv'
  BY DEF TakeOver, OK, Goto, CxlGoto, k8sVars
<1>6. TakeOverFails(p) => MarkedInv'
  BY DEF TakeOverFails, OK, Fault, Goto, k8sVars
<1>7. GetCommitSHA(p) => MarkedInv'
  BY DEF GetCommitSHA, Goto, k8sVars, dbVars
<1>8. TagCheck(p) => MarkedInv'
  BY DEF TagCheck, Goto, k8sVars, dbVars
<1>9. Fetch(p) => MarkedInv'
  BY DEF Fetch, Goto, k8sVars, dbVars
<1>10. Build(p) => MarkedInv'
  BY DEF Build, Goto, k8sVars, dbVars
<1>11. StepFails(p) => MarkedInv'
  BY DEF StepFails, Goto, k8sVars, dbVars
<1>12. Complete(p) => MarkedInv'
  BY DEF Complete, OK, Fault, Goto, k8sVars
<1>13. ChooseStatus(p) => MarkedInv'
  BY DEF ChooseStatus, Goto, k8sVars, dbVars
<1>14. MarkCompleted(p) => MarkedInv'
  BY DEF MarkCompleted, OK, Fault, Goto, k8sVars
<1>15. Exit(p) => MarkedInv'
  BY DEF Exit, EndPod, Die, OK, Goto, CxlGoto
<1>16. CxlGet(p) => MarkedInv'
  BY DEF CxlGet, OK, Fault, CxlGoto, k8sVars
<1>17. CxlListen(p) => MarkedInv'
  BY DEF CxlListen, OK, Fault, CxlGoto, k8sVars
<1>18. CxlWait(p) => MarkedInv'
  BY DEF CxlWait, OK, Fault, CxlGoto, k8sVars
<1>19. CxlCtxDone(p) => MarkedInv'
  BY DEF CxlCtxDone, OK, CxlGoto, k8sVars
<1>20. CxlAbort(p) => MarkedInv'
  BY DEF CxlAbort, CxlGoto, k8sVars, dbVars
<1>21. CxlFlag(p) => MarkedInv'
  BY DEF CxlFlag, CxlGoto, k8sVars, dbVars
<1>22. SignalHandler(p) => MarkedInv'
  BY DEF SignalHandler, k8sVars, dbVars
<1>23. Terminate(p) => MarkedInv'
  BY DEF Terminate, EndPod, Die, OK, Goto, CxlGoto
<1>24. Kill(p) => MarkedInv'
  BY DEF Kill, EndPod, Crash, Die, OK, Goto, CxlGoto
<1>25. RunTimeout(p) => MarkedInv'
  BY DEF RunTimeout, Disrupt, dbVars
<1> QED BY <1>1, <1>2, <1>3, <1>4, <1>5, <1>6, <1>7, <1>8, <1>9, <1>10, <1>11,
       <1>12, <1>13, <1>14, <1>15, <1>16, <1>17, <1>18, <1>19, <1>20, <1>21,
       <1>22, <1>23, <1>24, <1>25
     DEF RunStep, CxlStep, SignalStep

\* The server clears no completion.
LEMMA MarkedServer ==
  ASSUME TypeOK, HandoffNext
  PROVE  Kept
<1> USE TxCompleted, FaultsAssumption, K8sAssumption
    DEF TypeOK, DBTypeOK, K8sTypeOK, Kept, k8sVars
<1>1. StartBuild => Kept
  BY DEF StartBuild, OK
<1>2. StartBuildRejected => Kept
  BY DEF StartBuildRejected, OK, Fault
<1>3. ServerCrash => Kept
  BY DEF ServerCrash, Crash, ServerGone, OK
<1>4. StartGet => Kept
  BY DEF StartGet, OK, Fault
<1>5. RunCreate => Kept
  BY DEF RunCreate, dbVars
<1>6. RunCreateFails => Kept
  BY DEF RunCreateFails, dbVars
<1>7. RunWatch => Kept
  BY DEF RunWatch, dbVars
<1>8. StartTimeout => Kept
  BY DEF StartTimeout, dbVars
<1>9. StartJobError => Kept
  BY DEF StartJobError, dbVars
<1>10. StartJobRunning => Kept
  BY DEF StartJobRunning, dbVars
<1>11. MarkHandoffFailed => Kept
  BY DEF MarkHandoffFailed, OK, Fault
<1>12. WatcherRunning => Kept
  BY DEF WatcherRunning, dbVars
<1>13. WatcherListenError => Kept
  BY DEF WatcherListenError, dbVars
<1>14. WatcherTimeout => Kept
  BY DEF WatcherTimeout, dbVars
<1>15. WatcherEvent => Kept
  BY DEF WatcherEvent, dbVars
<1>16. ListenGet => Kept
  BY DEF ListenGet, OK, Fault
<1>17. ListenRegister => Kept
  BY DEF ListenRegister, OK, Fault
<1>18. ListenWait => Kept
  BY DEF ListenWait, OK, Fault
<1>19. ListenCancelled => Kept
  BY DEF ListenCancelled, OK
<1>20. ListenError => Kept
  BY DEF ListenError, dbVars
<1>21. ListenReturn => Kept
  BY DEF ListenReturn, dbVars
<1> QED BY HandoffNext, <1>1, <1>2, <1>3, <1>4, <1>5, <1>6, <1>7, <1>8, <1>9,
       <1>10, <1>11, <1>12, <1>13, <1>14, <1>15, <1>16, <1>17, <1>18, <1>19,
       <1>20, <1>21
     DEF HandoffNext, HandoffStep, WatcherStep, ListenerStep

\* Nor does a client.
LEMMA MarkedClient ==
  ASSUME TypeOK, NEW c \in Clients, CancelStep(c), UNCHANGED k8sVars
  PROVE  Kept
BY TxCompleted, FaultsAssumption, K8sAssumption, CancelStep(c)
DEF TypeOK, DBTypeOK, K8sTypeOK, Kept, k8sVars, CancelStep, CancelCheck,
    CancelRecheck, CancelCommit, CancelAbandoned, OK, Fault

\* A pod of a build that it took over leaves the build marked as completed
\* unless a round trip failed or a process was killed, and a pod that ended well
\* does so in any case: for any set of pods, overlapping or not, any disruptions,
\* cancellations and late writes of the server.
THEOREM AlwaysMarked == Spec => []MarkedWhenDone
<1>1. Init => MarkedInv
  BY DEF Init, K8sInit, RunnerInit, MarkedInv, MarkedWhenDone, Took, Returned
<1>2. TypeOK /\ MarkedInv /\ [Next]_vars => MarkedInv'
  <2> SUFFICES ASSUME TypeOK, MarkedInv, [Next]_vars PROVE MarkedInv'
    OBVIOUS
  <2>1. CASE PodStep
    BY <2>1, MarkedPod DEF PodStep, RunnerNext
  <2>2. UNCHANGED <<pod, ppc, cxlpc>> /\ Kept => MarkedInv'
    BY DEF MarkedInv, MarkedWhenDone, Kept, Took
  <2>3. CASE K8sStep
    <3>1. UNCHANGED <<pod, crashes>>
      BY <2>3 DEF K8sStep, JobController, JobSucceeds, JobBackoffLimitExceeded,
         JobExpires, JobDeleted, WatchEnds, WatchError, Evict, JobDeadlineExceeded, Disrupt
    <3> QED BY <2>2, <2>3, <3>1 DEF K8sStep, dbVars, runnerVars, Kept
  <2>4. CASE ServerStep
    BY <2>2, <2>4, MarkedServer, ServerFrame DEF ServerStep, runnerVars
  <2>5. CASE ClientStep
    BY <2>2, <2>5, MarkedClient DEF ClientStep, RpcNext, k8sVars, runnerVars
  <2>6. CASE UNCHANGED vars
    BY <2>2, <2>6 DEF vars, dbVars, k8sVars, runnerVars, Kept
  <2> QED BY <2>1, <2>3, <2>4, <2>5, <2>6 DEF Next
<1>3. MarkedInv => MarkedWhenDone
  BY DEF MarkedInv
<1> QED BY <1>1, <1>2, <1>3, TypeCorrect, PTL DEF Spec
==============================================================================
