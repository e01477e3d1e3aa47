------------------------------- MODULE JobFleet ------------------------------
(***************************************************************************)
(* The build Jobs of a namespace (pkg/jobrunner): every server replica     *)
(* creates one Job per build it accepts, from arguments it read from its   *)
(* own pod at start-up, and deletes old Jobs every interval.  Kubernetes   *)
(* deletes finished Jobs on its own when their TTL has passed.             *)
(*                                                                         *)
(* Builds are numbered in the order of their Job names, which is the order *)
(* in which the API server lists them.                                     *)
(***************************************************************************)
EXTENDS Naturals, FiniteSetsExt

CONSTANTS Replicas,      \* server processes
          NumBuilds,     \* builds of one repository
          RootArgCounts, \* possible numbers of arguments before "server"
          RepoLengths,   \* characters in "owner/name" of the repository
          CommonPrefix,  \* leading characters that the build ids share
          MaxApiErrors   \* bound on the calls the Kubernetes API fails

Builds == 1..NumBuilds
NoBuild == 0
NoJob == [build |-> NoBuild]

ASSUME FleetAssumption ==
  /\ NumBuilds \in Nat
  /\ RootArgCounts \subseteq Nat /\ RootArgCounts # {}
  /\ RepoLengths \subseteq Nat /\ RepoLengths # {}
  /\ CommonPrefix \in Nat /\ MaxApiErrors \in Nat

VARIABLES rootArgs,  \* the number of arguments before "server"
          repo,      \* the length of the name of the repository
          cell,      \* per replica, the build id in the array of its RootArgs
          started,   \* the builds that some replica called Run for
          made,      \* per replica, the builds whose Run has made its Job
          overlaps,  \* history: <<b, c>> if the replica of b made the Job of c
                     \* while that of b was made and not yet sent
          jobs,      \* per Job name, the Job in the API server
          clean,     \* per replica, the goroutine of StartCleanup
          todo,      \* per replica, the listed Jobs it has still to delete
          apiErrors  \* calls the API failed so far

jobVars == <<cell, started, made, overlaps, jobs>>
cleanVars == <<clean, todo>>
configVars == <<rootArgs, repo>>
vars == <<configVars, jobVars, cleanVars, apiErrors>>

-----------------------------------------------------------------------------
(* Names *)

IdLength == 36
DashAt == {9, 14, 19, 24}   \* the dashes of an id

\* truncateName(s, 63) keeps 62 runes of a longer name.
Truncated(len, n) == IF len > n THEN n - 1 ELSE len

\* Mutation: the name is cut to the length of an id.
JobNameIdChars_Short(len) ==
  LET kept == Truncated(12 + len + 1 + IdLength, IdLength)
  IN IF kept > 12 + len + 1 THEN kept - (12 + len + 1) ELSE 0

\* "furan-build-" + repo + "-" + id: how much of the id is left
JobNameIdChars(len) ==
  LET kept == Truncated(12 + len + 1 + IdLength, 63)
  IN IF kept > 12 + len + 1 THEN kept - (12 + len + 1) ELSE 0

\* (External.) Kubernetes wants a name to end with a letter or a digit; it
\* must not be cut right before the id or after a dash of it.
ValidJobName(len) == len # 49 /\ JobNameIdChars(len) \notin DashAt

\* Ids differ in every character after their common prefix.
JobName(b) == IF JobNameIdChars(repo) > CommonPrefix THEN b ELSE 1

-----------------------------------------------------------------------------
(* Arguments *)

\* image() appends the arguments one by one to an empty slice, whose capacity
\* Go doubles.
Capacity(n) == IF n = 0 THEN 0 ELSE Min({c \in {2^k : k \in 0..10} : c >= n})

\* "runbuild", "--buildkit-addr", the address, "--build-id", the id
JobArgs == 5

\* append(info.RootArgs, ...) of FuranJobFunc writes behind RootArgs in place
\* if there is room.
SharesArray(n) == n + JobArgs <= Capacity(n)

Init ==
  /\ rootArgs \in RootArgCounts /\ repo \in RepoLengths
  /\ cell = [r \in Replicas |-> NoBuild]
  /\ started = {}
  /\ made = [r \in Replicas |-> {}]
  /\ overlaps = {}
  /\ jobs = [n \in Builds |-> NoJob]
  /\ clean = [r \in Replicas |-> "off"]
  /\ todo = [r \in Replicas |-> {}]
  /\ apiErrors = 0

Up(r) == clean[r] \notin {"off", "failed"}

\* server(): the data layer, image() and StartCleanup, any of which may fail
Boot(r) ==
  /\ clean[r] = "off"
  /\ \E s \in {"idle", "failed"} : clean' = [clean EXCEPT ![r] = s]
  /\ UNCHANGED <<configVars, jobVars, todo, apiErrors>>

\* Mutation: the arguments are put together once per replica.
MakeJob_Once(r, b) ==
  /\ Up(r) /\ b \notin started
  /\ started' = started \union {b}
  /\ cell' = IF SharesArray(rootArgs) /\ cell[r] = NoBuild THEN [cell EXCEPT ![r] = b] ELSE cell
  /\ overlaps' = overlaps \union (made[r] \X {b})
  /\ made' = [made EXCEPT ![r] = @ \union {b}]
  /\ UNCHANGED <<configVars, jobs, cleanVars, apiErrors>>

\* Run, first part: FuranJobFunc makes the Job of b.
MakeJob(r, b) ==
  /\ Up(r) /\ b \notin started
  /\ started' = started \union {b}
  /\ cell' = IF SharesArray(rootArgs) THEN [cell EXCEPT ![r] = b] ELSE cell
  /\ overlaps' = overlaps \union (made[r] \X {b})
  /\ made' = [made EXCEPT ![r] = @ \union {b}]
  /\ UNCHANGED <<configVars, jobs, cleanVars, apiErrors>>

\* Mutation: RootArgs holds the id of the last build from the start.
BuildIDArg_Shared(r, b) == cell[r]

\* the id that the arguments of the Job made for b end with
BuildIDArg(r, b) == IF SharesArray(rootArgs) THEN cell[r] ELSE b

ApiError == apiErrors < MaxApiErrors /\ apiErrors' = apiErrors + 1

Free(b) == ValidJobName(repo) /\ jobs[JobName(b)] = NoJob

\* Run, second part: Create sends the Job as it is by then.  It fails if the
\* name is refused or taken, or with the API, which may have created the Job
\* when its answer is lost.
CreateJob(r, b) ==
  LET created == [jobs EXCEPT ![JobName(b)] =
                    [build |-> b, arg |-> BuildIDArg(r, b), old |-> FALSE, finished |-> FALSE]]
  IN /\ b \in made[r]
     /\ made' = [made EXCEPT ![r] = @ \ {b}]
     /\ \/ Free(b) /\ jobs' = created /\ UNCHANGED apiErrors
        \/ ~Free(b) /\ UNCHANGED <<jobs, apiErrors>>
        \/ ApiError /\ UNCHANGED jobs
        \/ ApiError /\ Free(b) /\ jobs' = created
     /\ UNCHANGED <<configVars, cell, started, overlaps, cleanVars>>

-----------------------------------------------------------------------------
(* Time and Kubernetes *)

Exists(n) == jobs[n] # NoJob

\* The pods of the Job are done, or its active deadline has passed.
Finish(n) ==
  /\ Exists(n) /\ ~jobs[n].finished
  /\ jobs' = [jobs EXCEPT ![n].finished = TRUE]
  /\ UNCHANGED <<configVars, cell, started, made, overlaps, cleanVars, apiErrors>>

\* The Job is older than --job-cleanup-min-age.
Age(n) ==
  /\ Exists(n) /\ ~jobs[n].old
  /\ jobs' = [jobs EXCEPT ![n].old = TRUE]
  /\ UNCHANGED <<configVars, cell, started, made, overlaps, cleanVars, apiErrors>>

\* ttlSecondsAfterFinished
Expire(n) ==
  /\ Exists(n) /\ jobs[n].finished
  /\ jobs' = [jobs EXCEPT ![n] = NoJob]
  /\ UNCHANGED <<configVars, cell, started, made, overlaps, cleanVars, apiErrors>>

-----------------------------------------------------------------------------
(* StartCleanup *)

CleanGoto(r, pc) == clean' = [clean EXCEPT ![r] = pc]

\* Mutation: the comparison with the cutoff is turned round.
List_Young(r) ==
  /\ clean[r] = "idle"
  /\ todo' = [todo EXCEPT ![r] = {n \in Builds : Exists(n) /\ ~jobs[n].old}]
  /\ CleanGoto(r, "deleting")
  /\ UNCHANGED <<configVars, jobVars, apiErrors>>

\* doCleanup lists the Jobs of the label and keeps those before the cutoff.
List(r) ==
  /\ clean[r] = "idle"
  /\ todo' = [todo EXCEPT ![r] = {n \in Builds : Exists(n) /\ jobs[n].old}]
  /\ CleanGoto(r, "deleting")
  /\ UNCHANGED <<configVars, jobVars, apiErrors>>

\* It deletes them by name, in the order of the list; a Job that is gone by
\* then is an error, and an error ends the goroutine.
Delete(r) ==
  /\ clean[r] = "deleting" /\ todo[r] # {}
  /\ LET n == Min(todo[r]) IN
       /\ jobs' = [jobs EXCEPT ![n] = NoJob]
       /\ todo' = [todo EXCEPT ![r] = IF Exists(n) THEN @ \ {n} ELSE {}]
       /\ CleanGoto(r, IF Exists(n) THEN "deleting" ELSE "exited")
  /\ UNCHANGED <<configVars, cell, started, made, overlaps, apiErrors>>

\* The list is done; the goroutine waits for its ticker.
Wait(r) ==
  /\ clean[r] = "deleting" /\ todo[r] = {}
  /\ CleanGoto(r, "idle")
  /\ UNCHANGED <<configVars, jobVars, todo, apiErrors>>

\* List or Delete fails.
CleanFails(r) ==
  /\ clean[r] \in {"idle", "deleting"}
  /\ ApiError
  /\ CleanGoto(r, "exited")
  /\ todo' = [todo EXCEPT ![r] = {}]
  /\ UNCHANGED <<configVars, jobVars>>

CleanStep(r) == List(r) \/ Delete(r) \/ Wait(r)

Next ==
  \/ \E r \in Replicas :
       \/ Boot(r) \/ CleanStep(r) \/ CleanFails(r)
       \/ \E b \in Builds : MakeJob(r, b) \/ CreateJob(r, b)
  \/ \E n \in Builds : Finish(n) \/ Age(n) \/ Expire(n)

Spec == Init /\ [][Next]_vars

\* The ticker fires and the API answers; nothing is assumed of the builds.
FairSpec == Spec /\ \A r \in Replicas : WF_vars(CleanStep(r))

-----------------------------------------------------------------------------
JobRecord == [build : Builds, arg : Builds, old : BOOLEAN, finished : BOOLEAN]

TypeOK ==
  /\ rootArgs \in RootArgCounts /\ repo \in RepoLengths
  /\ cell \in [Replicas -> Builds \union {NoBuild}]
  /\ started \subseteq Builds
  /\ made \in [Replicas -> SUBSET Builds]
  /\ overlaps \subseteq Builds \X Builds
  /\ jobs \in [Builds -> JobRecord \union {NoJob}]
  /\ clean \in [Replicas -> {"off", "failed", "idle", "deleting", "exited"}]
  /\ todo \in [Replicas -> SUBSET Builds]
  /\ apiErrors \in 0..MaxApiErrors

\* What FuranJobFunc is for: the Job that was created, named and labelled for
\* a build runs that build.  (It appends to arguments that all Run calls of a
\* server share, so it need not.)
JobRunsItsBuild == \A n \in Builds : Exists(n) => jobs[n].arg = jobs[n].build

\* How far the shared arguments of FuranJobFunc reach: a Job runs another build
\* than its own only if that build's Job was made, by the same replica, between
\* FuranJobFunc and Create of this one.  Neither another replica nor a Run that
\* came before or after can get into its arguments.
JobArgsFromOverlap ==
  \A n \in Builds :
    Exists(n) => \/ jobs[n].arg = jobs[n].build
                 \/ <<jobs[n].build, jobs[n].arg>> \in overlaps

\* doCleanup, which deletes by name what it listed earlier, never hits a Job
\* that is neither old nor finished: no build loses its pod to it.
CleanupSparesBuilds ==
  [][\A n \in Builds : Exists(n) /\ jobs'[n] = NoJob => jobs[n].old \/ jobs[n].finished]_vars

\* As long as some cleanup goroutine is left, StartCleanup gets every old Job
\* deleted, whatever else happens to the Jobs meanwhile.
OldJobsDeleted ==
  \A n \in Builds :
    (Exists(n) /\ jobs[n].old)
      ~> (~Exists(n) \/ ~jobs[n].old
          \/ \A r \in Replicas : clean[r] \in {"off", "failed", "exited"})

-----------------------------------------------------------------------------
(* Inductive strengthenings *)

\* Why the arguments of a Job are its own or those of an overlapping Run: until
\* Create sends a Job, the array that RootArgs shares holds the id that its own
\* FuranJobFunc wrote, or the one that a later FuranJobFunc wrote over it.
CellInv ==
  SharesArray(rootArgs) =>
    \A r \in Replicas : \A b \in made[r] : cell[r] = b \/ <<b, cell[r]>> \in overlaps

\* Why CleanupSparesBuilds holds where every build has a Job name of its own:
\* Run makes one Job per build, so a name is never used again and a listed Job
\* cannot be replaced by a younger one.
NamesUsedOnce ==
  /\ \A r \in Replicas : made[r] \subseteq started
  /\ \A r, s \in Replicas : r # s => made[r] \intersect made[s] = {}
  /\ \A n \in Builds : Exists(n) => n \in started
  /\ \A r \in Replicas : todo[r] \subseteq started
  /\ \A r \in Replicas : \A n \in made[r] : ~Exists(n)
  /\ \A r, s \in Replicas : made[r] \intersect todo[s] = {}
  /\ \A r \in Replicas : \A n \in todo[r] : Exists(n) => jobs[n].old
==============================================================================
