------------------------------- MODULE K8sJob --------------------------------
(***************************************************************************)
(* The Kubernetes Job that executes a build, its pods and the watch the    *)
(* server opens on it.  Kubernetes itself is external; the job it runs is  *)
(* the one pkg/jobrunner/furanjob.go describes: parallelism 1, one         *)
(* completion, restartPolicy Never (a failed pod is replaced by a new one),*)
(* backoffLimit, activeDeadlineSeconds and ttlSecondsAfterFinished.  A pod *)
(* has two containers, furan and buildkitd, and ends when both have ended. *)
(***************************************************************************)
EXTENDS Naturals, Sequences

CONSTANTS Pods,            \* the pods the Job may create: backoffLimit + 1
          PodsOverlap,     \* TRUE: a pod may be replaced while it still runs
          MaxDisruptions,  \* bound on evictions, deletions, API failures, timeouts
          MaxCrashes       \* bound on processes killed without warning

ASSUME K8sAssumption ==
  PodsOverlap \in BOOLEAN /\ MaxDisruptions \in Nat /\ MaxCrashes \in Nat

VARIABLES job,        \* the Job
          pod,        \* phase of each pod
          sigterm,    \* running pods that were sent SIGTERM
          watching,   \* whether the server's watch on the Job is open
          watchq,     \* watch events not yet read by the server
          disruptions,\* disruptions so far
          crashes     \* crashes so far

k8sVars == <<job, pod, sigterm, watching, watchq, disruptions, crashes>>

JobPhase == {"none", "active", "succeeded", "failed", "deleted"}
PodPhase == {"none", "running", "succeeded", "failed"}

\* What a watch event tells processEvent: a Modified event of a succeeded
\* job, of a job failed with BackoffLimitExceeded or with DeadlineExceeded, a
\* Deleted event, or an Error event or one whose object is no Job.  Other
\* Modified events and Added are ignored there.
WatchEvent == {"succeeded", "backoff", "deadline", "deleted", "error"}

K8sTypeOK ==
  /\ job \in JobPhase
  /\ pod \in [Pods -> PodPhase]
  /\ sigterm \in SUBSET Pods
  /\ watching \in BOOLEAN
  /\ watchq \in Seq(WatchEvent)
  /\ disruptions \in 0..MaxDisruptions
  /\ crashes \in 0..MaxCrashes

K8sInit ==
  /\ job = "none"
  /\ pod = [p \in Pods |-> "none"]
  /\ sigterm = {}
  /\ watching = FALSE
  /\ watchq = <<>>
  /\ disruptions = 0
  /\ crashes = 0

RunningPods == {p \in Pods : pod[p] = "running"}

Disrupt == disruptions < MaxDisruptions /\ disruptions' = disruptions + 1
Crash == crashes < MaxCrashes /\ crashes' = crashes + 1

\* A change of the Job reaches the server only through an open watch.
Emit(e) == watchq' = IF watching THEN Append(watchq, e) ELSE watchq

-----------------------------------------------------------------------------
(* Calls of the server *)

CreateJob == job = "none" /\ job' = "active"

OpenWatch == watching' = TRUE

StopWatch == watching' = FALSE /\ watchq' = <<>>

-----------------------------------------------------------------------------
(* The Job controller *)

\* One pod at a time; a replacement only after the previous one failed, or,
\* if PodsOverlap, while it still terminates after an eviction or runs on a
\* node that cannot be reached.
StartPod(p) ==
  /\ job = "active"
  /\ pod[p] = "none"
  /\ \A q \in Pods : pod[q] # "succeeded"
  /\ PodsOverlap \/ RunningPods = {}
  /\ pod' = [pod EXCEPT ![p] = "running"]
  /\ UNCHANGED <<job, sigterm, watching, watchq, disruptions, crashes>>

\* All containers of the pod have ended.
EndPod(p, phase) ==
  /\ pod' = [pod EXCEPT ![p] = phase]
  /\ sigterm' = sigterm \ {p}

JobSucceeds ==
  /\ job = "active"
  /\ \E p \in Pods : pod[p] = "succeeded"
  /\ job' = "succeeded"
  /\ Emit("succeeded")
  /\ UNCHANGED <<pod, sigterm, watching, disruptions, crashes>>

JobBackoffLimitExceeded ==
  /\ job = "active"
  /\ \A p \in Pods : pod[p] = "failed"
  /\ job' = "failed"
  /\ Emit("backoff")
  /\ UNCHANGED <<pod, sigterm, watching, disruptions, crashes>>

JobDeadlineExceeded ==
  /\ job = "active"
  /\ job' = "failed"
  /\ sigterm' = sigterm \union RunningPods
  /\ Emit("deadline")
  /\ UNCHANGED <<pod, watching, disruptions, crashes>>

\* ttlSecondsAfterFinished, or StartCleanup
JobExpires ==
  /\ job \in {"succeeded", "failed"}
  /\ job' = "deleted"
  /\ Emit("deleted")
  /\ UNCHANGED <<pod, sigterm, watching, disruptions, crashes>>

\* The Job is deleted while its pod runs.
JobDeleted ==
  /\ job = "active"
  /\ Disrupt
  /\ job' = "deleted"
  /\ sigterm' = sigterm \union RunningPods
  /\ Emit("deleted")
  /\ UNCHANGED <<pod, watching, crashes>>

\* The pod is evicted (node drain, preemption).
Evict(p) ==
  /\ pod[p] = "running" /\ p \notin sigterm
  /\ Disrupt
  /\ sigterm' = sigterm \union {p}
  /\ UNCHANGED <<job, pod, watching, watchq, crashes>>

\* The API server ends the watch.  JobWatcher then reads zero events from the
\* closed channel and learns nothing more of the Job.
WatchEnds ==
  /\ watching
  /\ Disrupt
  /\ watching' = FALSE
  /\ UNCHANGED <<job, pod, sigterm, watchq, crashes>>

\* The API server sends an error on the watch (resource version expired, an
\* object it cannot decode).
WatchError ==
  /\ watching
  /\ Disrupt
  /\ Emit("error")
  /\ UNCHANGED <<job, pod, sigterm, watching, crashes>>

JobController ==
  \/ JobSucceeds \/ JobBackoffLimitExceeded \/ JobExpires
  \/ JobDeleted \/ WatchEnds \/ WatchError
  \/ \E p \in Pods : Evict(p)
==============================================================================
