------------------------------- MODULE Handoff -------------------------------
(***************************************************************************)
(* The server's side of a build: the StartBuild RPC and the goroutine it   *)
(* leaves behind (pkg/grpc/grpc.go), Manager.Start (pkg/builder), and the  *)
(* JobWatcher (pkg/jobrunner) with its two goroutines.                     *)
(*                                                                         *)
(*   hpc  the StartBuild goroutine, through Manager.Start and              *)
(*        K8sJobRunner.Run                                                 *)
(*   wpc  JobWatcher.start: a select loop that ends with one send on the   *)
(*        unbuffered channels jw.e or jw.r                                 *)
(*   lpc  the goroutine of JobWatcher.start that waits in                  *)
(*        ListenForBuildRunning                                            *)
(*                                                                         *)
(* A send on jw.e or jw.r meets Manager.Start in its select or blocks.     *)
(***************************************************************************)
EXTENDS DataLayer, K8sJob

CONSTANT Server   \* the listen-pool connection of ListenForBuildRunning

VARIABLES hpc,
          hres,     \* what Manager.Start returned: see HandoffResult
          wpc,
          lpc,
          brunerr,  \* the buffered channel brunerr holds an error
          closed    \* the channel running is closed

handoffVars == <<hpc, hres, wpc, lpc, brunerr, closed>>

HandoffPC == {"idle", "get", "run", "watch", "select", "failed", "done",
              "rejected", "crashed"}
HandoffResult == {"none", "running", "joberr", "starterr", "timeout"}
WatcherPC == {"none", "select", "sendErr", "sendRun", "done"}
ListenerPC == {"none", "get", "listen", "wait", "ok", "err", "close", "done"}

HandoffTypeOK ==
  /\ hpc \in HandoffPC
  /\ hres \in HandoffResult
  /\ wpc \in WatcherPC
  /\ lpc \in ListenerPC
  /\ brunerr \in BOOLEAN
  /\ closed \in BOOLEAN

HandoffInit ==
  /\ hpc = "idle"
  /\ hres = "none"
  /\ wpc = "none"
  /\ lpc = "none"
  /\ brunerr = FALSE
  /\ closed = FALSE

\* Until the goroutine decides.  The handoff timeout (5 minutes) runs out
\* before JobWatcher's timeout and the Job's deadline (30 minutes each).
WithinHandoff == hpc \in {"get", "run", "watch", "select"}

watcherVars == <<wpc, lpc, brunerr, closed>>

-----------------------------------------------------------------------------
(* StartBuild and its goroutine *)

\* The request is valid and the build is inserted; the goroutine is started.
StartBuild ==
  /\ hpc = "idle"
  /\ OK(CreateBuild)
  /\ hpc' = "get"
  /\ UNCHANGED <<hres, watcherVars, k8sVars>>

\* CreateBuild returned an error, or its client left meanwhile: the RPC fails
\* and no goroutine is started, whether or not the row was committed.
StartBuildRejected ==
  /\ hpc = "idle"
  /\ Fault(CreateBuild) \/ OK(CreateBuild) \/ OK(Read)
  /\ hpc' = "rejected"
  /\ UNCHANGED <<hres, watcherVars, k8sVars>>

\* Manager.Start reads the build it was given; the handoff timeout may end
\* the read.
StartGet ==
  /\ hpc = "get"
  /\ \/ OK(Read) /\ hpc' = "run" /\ UNCHANGED hres
     \/ (Fault(Read) \/ OK(Read)) /\ hpc' = "failed" /\ hres' = "starterr"
  /\ UNCHANGED <<watcherVars, k8sVars>>

\* K8sJobRunner.Run: create the Job.
RunCreate ==
  /\ hpc = "run"
  /\ CreateJob
  /\ hpc' = "watch"
  /\ UNCHANGED <<hres, watcherVars, dbVars>>
  /\ UNCHANGED <<pod, sigterm, watching, watchq, disruptions, crashes>>

\* The API call returned an error; the Job may exist all the same.
RunCreateFails ==
  /\ hpc = "run"
  /\ Disrupt
  /\ CreateJob \/ UNCHANGED job
  /\ hpc' = "failed"
  /\ hres' = "starterr"
  /\ UNCHANGED <<watcherVars, dbVars, pod, sigterm, watching, watchq, crashes>>

\* K8sJobRunner.Run: open the watch and start JobWatcher and its listener.
RunWatch ==
  /\ hpc = "watch"
  /\ OpenWatch
  /\ hpc' = "select"
  /\ wpc' = "select"
  /\ lpc' = "get"
  /\ UNCHANGED <<hres, brunerr, closed, dbVars>>
  /\ UNCHANGED <<job, pod, sigterm, watchq, disruptions, crashes>>

\* The process of the server ends, with every goroutine and connection of it.
ServerGone ==
  /\ hpc' = "crashed"
  /\ wpc' = "none"
  /\ lpc' = "none"
  /\ brunerr' = FALSE
  /\ closed' = FALSE
  /\ StopWatch
  /\ OK(CloseConn(Server))
  /\ UNCHANGED <<hres, job, pod, sigterm, disruptions>>

\* The process is killed, or the watch could not be opened: Run drops that
\* error and JobWatcher.start panics on the nil watch.
ServerCrash ==
  /\ WithinHandoff \/ hpc = "failed"
  /\ Crash
  /\ ServerGone

\* Mutation: Manager.Start returns on a failed AddEvent of its ticker.
StartTimeout_OnTick ==
  /\ hpc = "select"
  /\ hpc' = "failed"
  /\ hres' = "starterr"
  /\ UNCHANGED <<watcherVars, dbVars, k8sVars>>

\* Mutation: the select of Manager.Start has no case for ctx.Done.
StartTimeout_NoCase == FALSE

\* Manager.Start: ctx.Done
StartTimeout ==
  /\ hpc = "select"
  /\ hpc' = "failed"
  /\ hres' = "timeout"
  /\ UNCHANGED <<watcherVars, dbVars, k8sVars>>

\* Manager.Start receives from jw.e; JobWatcher.start returns.
StartJobError ==
  /\ hpc = "select" /\ wpc = "sendErr"
  /\ hpc' = "failed"
  /\ hres' = "joberr"
  /\ wpc' = "done"
  /\ StopWatch
  /\ UNCHANGED <<lpc, brunerr, closed, dbVars>>
  /\ UNCHANGED <<job, pod, sigterm, disruptions, crashes>>

\* Manager.Start receives from jw.r: the handoff is over for the server.
StartJobRunning ==
  /\ hpc = "select" /\ wpc = "sendRun"
  /\ hpc' = "done"
  /\ hres' = "running"
  /\ wpc' = "done"
  /\ StopWatch
  /\ UNCHANGED <<lpc, brunerr, closed, dbVars>>
  /\ UNCHANGED <<job, pod, sigterm, disruptions, crashes>>


\* The StartBuild goroutine marks the build as failed.  An error of that
\* write is logged and dropped.
MarkHandoffFailed ==
  /\ hpc = "failed"
  /\ \/ OK(SetBuildAsCompleted("Failure"))
     \/ Fault(SetBuildAsCompleted("Failure"))
  /\ hpc' = "done"
  /\ UNCHANGED <<hres, watcherVars, k8sVars>>

-----------------------------------------------------------------------------
(* JobWatcher.start *)

WatcherRunning ==
  /\ wpc = "select" /\ closed
  /\ wpc' = "sendRun"
  /\ UNCHANGED <<hpc, hres, lpc, brunerr, closed, dbVars, k8sVars>>

WatcherListenError ==
  /\ wpc = "select" /\ brunerr
  /\ brunerr' = FALSE
  /\ wpc' = "sendErr"
  /\ UNCHANGED <<hpc, hres, lpc, closed, dbVars, k8sVars>>

WatcherTimeout ==
  /\ wpc = "select" /\ ~WithinHandoff
  /\ wpc' = "sendErr"
  /\ UNCHANGED <<hpc, hres, lpc, brunerr, closed, dbVars, k8sVars>>


\* JobWatcher.processEvent, as the place start goes to next
processEvent(e) ==
  CASE e = "succeeded" -> "sendRun"
    [] e \in {"backoff", "deleted", "error"} -> "sendErr"
    [] OTHER -> "select"

WatcherEvent ==
  /\ wpc = "select" /\ watchq # <<>>
  /\ wpc' = processEvent(Head(watchq))
  /\ watchq' = Tail(watchq)
  /\ UNCHANGED <<hpc, hres, lpc, brunerr, closed, dbVars>>
  /\ UNCHANGED <<job, pod, sigterm, watching, disruptions, crashes>>

-----------------------------------------------------------------------------
(* The goroutine in ListenForBuildRunning *)

\* The row is read: already Running returns at once, NotStarted goes on to
\* LISTEN, any other status is an error.
ListenGet ==
  /\ lpc = "get"
  /\ \/ OK(Read) /\ lpc' = CASE status = "Running" -> "ok"
                              [] status = "NotStarted" -> "listen"
                              [] OTHER -> "err"
     \/ Fault(Read) /\ lpc' = "err"
  /\ UNCHANGED <<hpc, hres, wpc, brunerr, closed, k8sVars>>

ListenRegister ==
  /\ lpc = "listen"
  /\ \/ OK(Listen(Server, "running")) /\ lpc' = "wait"
     \/ Fault(CloseConn(Server)) /\ lpc' = "err"
  /\ UNCHANGED <<hpc, hres, wpc, brunerr, closed, k8sVars>>

ListenWait ==
  /\ lpc = "wait"
  /\ \/ OK(Receive(Server)) /\ lpc' = "ok"
     \/ Fault(CloseConn(Server)) /\ lpc' = "err"
  /\ UNCHANGED <<hpc, hres, wpc, brunerr, closed, k8sVars>>

\* The context ends: JobWatcher.start returned, or its timeout ran out.
ListenCancelled ==
  /\ lpc \in {"get", "listen", "wait"} /\ ~WithinHandoff
  /\ OK(CloseConn(Server))
  /\ lpc' = "err"
  /\ UNCHANGED <<hpc, hres, wpc, brunerr, closed, k8sVars>>

\* The error goes to the buffered channel first ...
ListenError ==
  /\ lpc = "err"
  /\ brunerr' = TRUE
  /\ lpc' = "close"
  /\ UNCHANGED <<hpc, hres, wpc, closed, dbVars, k8sVars>>

\* ... and running is closed by the deferred call on both paths.
ListenReturn ==
  /\ lpc \in {"ok", "close"}
  /\ closed' = TRUE
  /\ lpc' = "done"
  /\ UNCHANGED <<hpc, hres, wpc, brunerr, dbVars, k8sVars>>

-----------------------------------------------------------------------------
\* The StartBuild goroutine once the RPC was served
HandoffStep ==
  \/ StartGet \/ RunCreate \/ RunCreateFails \/ RunWatch
  \/ StartTimeout \/ StartJobError \/ StartJobRunning \/ MarkHandoffFailed

WatcherStep ==
  \/ WatcherRunning \/ WatcherListenError \/ WatcherTimeout \/ WatcherEvent

ListenerStep ==
  \/ ListenGet \/ ListenRegister \/ ListenWait \/ ListenCancelled
  \/ ListenError \/ ListenReturn

HandoffNext ==
  \/ StartBuild \/ StartBuildRejected \/ ServerCrash
  \/ HandoffStep \/ WatcherStep \/ ListenerStep
==============================================================================
