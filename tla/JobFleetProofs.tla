---------------------------- MODULE JobFleetProofs ---------------------------
(***************************************************************************)
(* Theorems about JobFleet, for any number of server replicas and builds,  *)
(* any arguments before "server" and any failures of the Kubernetes API.   *)
(***************************************************************************)
EXTENDS JobFleet, WellFoundedInduction, TLAPS

-----------------------------------------------------------------------------
(* Sets, records and names *)

\* A nonempty set of natural numbers has a least element, which Min takes: a
\* consequence of the well-foundedness of < on Nat.
LEMMA MinIsLeast ==
  ASSUME NEW S, S \subseteq Nat, S # {}
  PROVE  Min(S) \in S /\ \A y \in S : Min(S) <= y
<1> DEFINE R == {ss \in Nat \X Nat : ss[1] < ss[2]}
<1>1. IsWellFoundedOn(R, Nat)
  BY NatLessThanWellFounded, Zenon DEF OpToRel
<1> HIDE DEF R
<1>2. PICK x \in S : \A y \in S : ~(<<y, x>> \in R)
  BY <1>1, WFMin
<1>3. \A y \in S : ~(y < x)
  BY <1>2 DEF R
<1>4. \A y \in S : x <= y
  BY <1>3
<1> QED BY <1>4 DEF Min

\* Replacing one value of a function to sets of builds keeps its type.
LEMMA SetsType ==
  ASSUME NEW f \in [Replicas -> SUBSET Builds], NEW r \in Replicas,
         NEW v, v \subseteq Builds
  PROVE  [f EXCEPT ![r] = v] \in [Replicas -> SUBSET Builds]
<1> DEFINE Q == SUBSET Builds
<1>1. v \in Q /\ f \in [Replicas -> Q]
  OBVIOUS
<1> HIDE DEF Q
<1>2. [f EXCEPT ![r] = v] \in [Replicas -> Q]
  BY <1>1
<1> QED BY <1>2 DEF Q

\* A Job is told apart from NoJob by its build.
LEMMA JobApart ==
  /\ \A j \in JobRecord : j # NoJob
  /\ TypeOK => \A n \in Builds : Exists(n) => jobs[n] \in JobRecord
<1>1. ASSUME NEW j \in JobRecord PROVE j # NoJob
  <2>1. j.build # 0 /\ NoJob.build = 0
    BY FleetAssumption DEF JobRecord, NoJob, NoBuild, Builds
  <2> QED BY <2>1
<1>2. TypeOK => \A n \in Builds : Exists(n) => jobs[n] \in JobRecord
  BY DEF TypeOK, Exists
<1> QED BY <1>1, <1>2

\* A build's Job name is one of the builds' numbers.
LEMMA NameType == \A b \in Builds : JobName(b) \in Builds
BY FleetAssumption DEF JobName, Builds

\* A Job that finishes or becomes old keeps everything else.
LEMMA JobUpdate ==
  ASSUME TypeOK, NEW n \in Builds, Finish(n) \/ Age(n)
  PROVE  \E j \in JobRecord :
           /\ jobs' = [jobs EXCEPT ![n] = j]
           /\ j.build = jobs[n].build /\ j.arg = jobs[n].arg
           /\ jobs[n].old => j.old
<1>1. jobs[n] \in JobRecord
  BY JobApart DEF Finish, Age
<1>2. CASE Finish(n)
  <2>1. [jobs[n] EXCEPT !.finished = TRUE] \in JobRecord
    BY <1>1 DEF JobRecord
  <2> QED BY <1>1, <1>2, <2>1 DEF Finish, JobRecord
<1>3. CASE Age(n)
  <2>1. [jobs[n] EXCEPT !.old = TRUE] \in JobRecord
    BY <1>1 DEF JobRecord
  <2> QED BY <1>1, <1>3, <2>1 DEF Age, JobRecord
<1> QED BY <1>2, <1>3

-----------------------------------------------------------------------------
(* Types *)

\* The id in the arguments of a Job is a build's.
LEMMA ArgType ==
  ASSUME TypeOK, CellInv, NEW r \in Replicas, NEW b \in made[r]
  PROVE  BuildIDArg(r, b) \in Builds
<1>1. b \in Builds /\ overlaps \subseteq Builds \X Builds
  BY DEF TypeOK
<1>2. CASE SharesArray(rootArgs)
  <2>1. cell[r] = b \/ <<b, cell[r]>> \in Builds \X Builds
    BY <1>1, <1>2 DEF CellInv
  <2>2. cell[r] \in Builds
    BY <1>1, <2>1
  <2> QED BY <1>2, <2>2 DEF BuildIDArg
<1> QED BY <1>1, <1>2 DEF BuildIDArg

\* Every step keeps the types and what the shared arguments hold.
LEMMA FleetType == TypeOK /\ CellInv /\ [Next]_vars => TypeOK' /\ CellInv'
<1> SUFFICES ASSUME TypeOK, CellInv, [Next]_vars PROVE TypeOK' /\ CellInv'
  OBVIOUS
<1> DEFINE Good == TypeOK' /\ CellInv'
<1> USE FleetAssumption DEF TypeOK, CellInv, configVars, jobVars, cleanVars
<1>1. CASE UNCHANGED vars
  BY <1>1 DEF vars
<1>2. ASSUME NEW r \in Replicas, Boot(r) PROVE Good
  BY <1>2 DEF Boot
<1>3. ASSUME NEW r \in Replicas, List(r) PROVE Good
  <2>1. todo' \in [Replicas -> SUBSET Builds]
    <3> DEFINE v == {n \in Builds : Exists(n) /\ jobs[n].old}
    <3>1. v \subseteq Builds
      OBVIOUS
    <3> HIDE DEF v
    <3>2. [todo EXCEPT ![r] = v] \in [Replicas -> SUBSET Builds]
      BY <3>1, SetsType
    <3> QED BY <1>3, <3>2 DEF List, v
  <2> QED BY <1>3, <2>1 DEF List, CleanGoto
<1>4. ASSUME NEW r \in Replicas, Delete(r) PROVE Good
  <2> DEFINE n == Min(todo[r])
             v == IF Exists(n) THEN todo[r] \ {n} ELSE {}
  <2>1. todo' \in [Replicas -> SUBSET Builds]
    <3>1. v \subseteq Builds
      OBVIOUS
    <3>2. todo' = [todo EXCEPT ![r] = v]
      BY <1>4 DEF Delete
    <3> HIDE DEF v
    <3> QED BY <3>1, <3>2, SetsType
  <2>2. jobs' \in [Builds -> JobRecord \union {NoJob}]
    <3>1. jobs' = [jobs EXCEPT ![n] = NoJob]
      BY <1>4 DEF Delete
    <3> HIDE DEF n
    <3> QED BY <3>1
  <2> QED BY <1>4, <2>1, <2>2 DEF Delete, CleanGoto
<1>5. ASSUME NEW r \in Replicas, Wait(r) PROVE Good
  BY <1>5 DEF Wait, CleanGoto
<1>6. ASSUME NEW r \in Replicas, CleanFails(r) PROVE Good
  <2>1. todo' \in [Replicas -> SUBSET Builds]
    BY <1>6, SetsType DEF CleanFails
  <2> QED BY <1>6, <2>1 DEF CleanFails, CleanGoto, ApiError
<1>7. ASSUME NEW r \in Replicas, NEW b \in Builds, MakeJob(r, b) PROVE Good
  <2>1. made[r] \union {b} \subseteq Builds
    OBVIOUS
  <2>2. made' \in [Replicas -> SUBSET Builds]
    BY <1>7, <2>1, SetsType DEF MakeJob
  <2>3. cell' \in [Replicas -> Builds \union {NoBuild}]
    BY <1>7 DEF MakeJob
  <2>4. overlaps' \subseteq Builds \X Builds
    BY <1>7 DEF MakeJob
  <2>5. CellInv'
    <3> SUFFICES ASSUME SharesArray(rootArgs'), NEW q \in Replicas, NEW a \in made'[q]
                 PROVE  cell'[q] = a \/ <<a, cell'[q]>> \in overlaps'
      BY DEF SharesArray
    <3>1. /\ cell' = [cell EXCEPT ![r] = b]
          /\ made' = [made EXCEPT ![r] = made[r] \union {b}]
          /\ overlaps' = overlaps \union (made[r] \X {b})
          /\ rootArgs' = rootArgs
      BY <1>7 DEF MakeJob
    <3>2. CASE q = r
      BY <3>1, <3>2
    <3>3. CASE q # r
      BY <3>1, <3>3
    <3> QED BY <3>2, <3>3
  <2> QED BY <1>7, <2>2, <2>3, <2>4, <2>5 DEF MakeJob
<1>8. ASSUME NEW r \in Replicas, NEW b \in Builds, CreateJob(r, b) PROVE Good
  <2>1. made[r] \ {b} \subseteq Builds
    OBVIOUS
  <2>2. made' \in [Replicas -> SUBSET Builds]
    BY <1>8, <2>1, SetsType DEF CreateJob
  <2>3. jobs' \in [Builds -> JobRecord \union {NoJob}]
    <3> DEFINE j == [build |-> b, arg |-> BuildIDArg(r, b), old |-> FALSE,
                     finished |-> FALSE]
    <3>1. j \in JobRecord
      BY <1>8, ArgType DEF CreateJob, JobRecord
    <3>2. jobs' \in {jobs, [jobs EXCEPT ![JobName(b)] = j]}
      BY <1>8 DEF CreateJob
    <3> HIDE DEF j
    <3> QED BY <3>1, <3>2
  <2>4. CellInv'
    BY <1>8 DEF CreateJob, SharesArray
  <2> QED BY <1>8, <2>2, <2>3, <2>4 DEF CreateJob, ApiError
<1>9. ASSUME NEW n \in Builds, Finish(n) \/ Age(n) PROVE Good
  <2>1. PICK j \in JobRecord : jobs' = [jobs EXCEPT ![n] = j]
    BY <1>9, JobUpdate
  <2>2. jobs' \in [Builds -> JobRecord \union {NoJob}]
    BY <2>1
  <2> QED BY <1>9, <2>2 DEF Finish, Age
<1>10. ASSUME NEW n \in Builds, Expire(n) PROVE Good
  <2>1. jobs' \in [Builds -> JobRecord \union {NoJob}]
    BY <1>10 DEF Expire
  <2> QED BY <1>10, <2>1 DEF Expire
<1> QED BY <1>1, <1>2, <1>3, <1>4, <1>5, <1>6, <1>7, <1>8, <1>9, <1>10
     DEF Next, CleanStep

\* The types hold in every reachable state: in particular no Job is sent with
\* arguments that name no build.
THEOREM FleetTypeCorrect == Spec => []TypeOK
<1>1. Init => TypeOK /\ CellInv
  BY FleetAssumption DEF Init, TypeOK, CellInv, NoBuild
<1> QED BY <1>1, FleetType, PTL DEF Spec

-----------------------------------------------------------------------------
(* The arguments of a Job *)

\* What the shared array holds for the Runs that have not yet sent their Jobs.
LEMMA CellInvariant == Spec => []CellInv
<1>1. Init => TypeOK /\ CellInv
  BY FleetAssumption DEF Init, TypeOK, CellInv, NoBuild
<1> QED BY <1>1, FleetType, PTL DEF Spec

\* Whatever room the arguments of a server leave behind them, and however many
\* calls of Run of however many replicas interleave, a Job that runs another
\* build than its own has got it from a Run of the same replica that overlapped
\* its own.
THEOREM ArgsFromOverlap == Spec => []JobArgsFromOverlap
<1>1. Init => JobArgsFromOverlap
  BY DEF Init, JobArgsFromOverlap, Exists
<1>2. TypeOK /\ CellInv /\ JobArgsFromOverlap /\ [Next]_vars => JobArgsFromOverlap'
  <2> SUFFICES ASSUME TypeOK, CellInv, JobArgsFromOverlap, [Next]_vars
               PROVE  JobArgsFromOverlap'
    OBVIOUS
  <2> USE DEF JobArgsFromOverlap, Exists
  <2>0. jobs \in [Builds -> JobRecord \union {NoJob}]
    BY DEF TypeOK
  <2>1. CASE UNCHANGED <<jobs, overlaps>>
    BY <2>1
  <2>2. ASSUME NEW r \in Replicas, Delete(r) PROVE JobArgsFromOverlap'
    <3> DEFINE n == Min(todo[r])
    <3>1. jobs' = [jobs EXCEPT ![n] = NoJob] /\ UNCHANGED overlaps
      BY <2>2 DEF Delete
    <3> HIDE DEF n
    <3> QED BY <2>0, <3>1
  <2>3. ASSUME NEW r \in Replicas, NEW b \in Builds, MakeJob(r, b)
        PROVE  JobArgsFromOverlap'
    BY <2>3 DEF MakeJob
  <2>4. ASSUME NEW r \in Replicas, NEW b \in Builds, CreateJob(r, b)
        PROVE  JobArgsFromOverlap'
    <3> DEFINE j == [build |-> b, arg |-> BuildIDArg(r, b), old |-> FALSE,
                     finished |-> FALSE]
    <3>1. BuildIDArg(r, b) = b \/ <<b, BuildIDArg(r, b)>> \in overlaps
      BY <2>4 DEF CreateJob, CellInv, BuildIDArg
    <3>2. j.arg = j.build \/ <<j.build, j.arg>> \in overlaps
      BY <3>1
    <3>3. jobs' \in {jobs, [jobs EXCEPT ![JobName(b)] = j]} /\ UNCHANGED overlaps
      BY <2>4 DEF CreateJob
    <3> HIDE DEF j
    <3> QED BY <2>0, <3>2, <3>3
  <2>5. ASSUME NEW n \in Builds, Finish(n) \/ Age(n) PROVE JobArgsFromOverlap'
    <3>1. PICK j \in JobRecord : /\ jobs' = [jobs EXCEPT ![n] = j]
                                 /\ j.build = jobs[n].build /\ j.arg = jobs[n].arg
      BY <2>5, JobUpdate
    <3>2. UNCHANGED overlaps
      BY <2>5 DEF Finish, Age
    <3> QED BY <2>0, <2>5, <3>1, <3>2 DEF Finish, Age
  <2>6. ASSUME NEW n \in Builds, Expire(n) PROVE JobArgsFromOverlap'
    BY <2>0, <2>6 DEF Expire
  <2> QED BY <2>1, <2>2, <2>3, <2>4, <2>5, <2>6
       DEF Next, vars, jobVars, Boot, CleanStep, List, Wait, CleanFails
<1> QED BY <1>1, <1>2, FleetTypeCorrect, CellInvariant, PTL DEF Spec

-----------------------------------------------------------------------------
(* StartCleanup *)

\* The names of the repository's Jobs keep enough of the ids to tell them apart.
DistinctNames == \A l \in RepoLengths : JobNameIdChars(l) > CommonPrefix

\* Then every build has a Job name of its own.
LEMMA OwnName ==
  ASSUME DistinctNames, TypeOK, NEW b \in Builds
  PROVE  JobName(b) = b
BY DEF DistinctNames, TypeOK, JobName

\* NamesUsedOnce is an invariant where names are distinct.
LEMMA NamesInvariant ==
  ASSUME DistinctNames
  PROVE  Spec => []NamesUsedOnce
<1>1. Init => NamesUsedOnce
  BY DEF Init, NamesUsedOnce, Exists
<1>2. TypeOK /\ NamesUsedOnce /\ [Next]_vars => NamesUsedOnce'
  <2> SUFFICES ASSUME TypeOK, NamesUsedOnce, [Next]_vars
               PROVE  NamesUsedOnce'
    OBVIOUS
  <2>0. /\ DOMAIN jobs = Builds /\ DOMAIN made = Replicas /\ DOMAIN todo = Replicas
        /\ \A r \in Replicas : made[r] \subseteq Builds /\ todo[r] \subseteq Builds
    BY DEF TypeOK
  <2> USE <2>0 DEF NamesUsedOnce, Exists
  <2>1. CASE UNCHANGED <<started, made, jobs, todo>>
    BY <2>1
  <2>2. ASSUME NEW r \in Replicas, List(r) PROVE NamesUsedOnce'
    BY <2>2 DEF List, jobVars
  <2>3. ASSUME NEW r \in Replicas, Delete(r) PROVE NamesUsedOnce'
    <3> DEFINE n == Min(todo[r])
    <3>1. /\ jobs' = [jobs EXCEPT ![n] = NoJob]
          /\ \E v : v \subseteq todo[r] /\ todo' = [todo EXCEPT ![r] = v]
          /\ UNCHANGED <<started, made>>
      BY <2>3 DEF Delete
    <3> HIDE DEF n
    <3> QED BY <3>1
  <2>4. ASSUME NEW r \in Replicas, CleanFails(r) PROVE NamesUsedOnce'
    BY <2>4 DEF CleanFails, jobVars
  <2>5. ASSUME NEW r \in Replicas, NEW b \in Builds, MakeJob(r, b)
        PROVE  NamesUsedOnce'
    BY <2>5 DEF MakeJob, cleanVars
  <2>6. ASSUME NEW r \in Replicas, NEW b \in Builds, CreateJob(r, b)
        PROVE  NamesUsedOnce'
    <3> DEFINE j == [build |-> b, arg |-> BuildIDArg(r, b), old |-> FALSE,
                     finished |-> FALSE]
    <3>1. JobName(b) = b
      BY OwnName
    <3>2. /\ b \in made[r] /\ made' = [made EXCEPT ![r] = @ \ {b}]
          /\ jobs' \in {jobs, [jobs EXCEPT ![b] = j]}
          /\ UNCHANGED <<started, todo>>
      BY <2>6, <3>1 DEF CreateJob, cleanVars
    <3> HIDE DEF j
    <3>3. \A s \in Replicas : b \notin made'[s] /\ b \notin todo'[s]
      BY <3>2
    <3>4. \A s \in Replicas : made'[s] \subseteq made[s]
      BY <3>2
    <3>5. \A n \in Builds \ {b} : jobs'[n] = jobs[n]
      BY <3>2
    <3> QED BY <3>2, <3>3, <3>4, <3>5
  <2>7. ASSUME NEW n \in Builds, Finish(n) \/ Age(n) PROVE NamesUsedOnce'
    <3>1. PICK j \in JobRecord : /\ jobs' = [jobs EXCEPT ![n] = j]
                                 /\ jobs[n].old => j.old
      BY <2>7, JobUpdate
    <3> QED BY <2>7, <3>1 DEF Finish, Age, cleanVars
  <2>8. ASSUME NEW n \in Builds, Expire(n) PROVE NamesUsedOnce'
    BY <2>8 DEF Expire, cleanVars
  <2> QED BY <2>1, <2>2, <2>3, <2>4, <2>5, <2>6, <2>7, <2>8
       DEF Next, vars, jobVars, cleanVars, Boot, CleanStep, Wait
<1> QED BY <1>1, <1>2, FleetTypeCorrect, PTL DEF Spec

\* Where names are distinct, the cleanup of any replica deletes no Job that is
\* neither old nor finished, whatever happened to the Jobs since it listed them.
THEOREM SparesBuilds ==
  ASSUME DistinctNames
  PROVE  Spec => CleanupSparesBuilds
<1> DEFINE Spared ==
      \A n \in Builds : Exists(n) /\ jobs'[n] = NoJob => jobs[n].old \/ jobs[n].finished
<1>1. TypeOK /\ NamesUsedOnce /\ [Next]_vars => [Spared]_vars
  <2> SUFFICES ASSUME TypeOK, NamesUsedOnce, Next PROVE Spared
    OBVIOUS
  <2>0. jobs \in [Builds -> JobRecord \union {NoJob}]
    BY DEF TypeOK
  <2> USE DEF Exists
  <2>1. CASE UNCHANGED jobs
    BY <2>1
  <2>2. ASSUME NEW r \in Replicas, Delete(r) PROVE Spared
    <3> DEFINE n == Min(todo[r])
    <3>1. todo[r] \subseteq Nat /\ todo[r] # {}
      BY <2>2, FleetAssumption DEF Delete, TypeOK, Builds
    <3>2. n \in todo[r]
      BY <3>1, MinIsLeast
    <3>3. jobs' = [jobs EXCEPT ![n] = NoJob]
      BY <2>2 DEF Delete
    <3>4. Exists(n) => jobs[n].old
      BY <3>2 DEF NamesUsedOnce
    <3> HIDE DEF n
    <3> QED BY <2>0, <3>3, <3>4
  <2>3. ASSUME NEW r \in Replicas, NEW b \in Builds, CreateJob(r, b) PROVE Spared
    <3> DEFINE j == [build |-> b, arg |-> BuildIDArg(r, b), old |-> FALSE,
                     finished |-> FALSE]
    <3>1. j # NoJob
      <4>1. j.build # 0 /\ NoJob.build = 0
        BY FleetAssumption DEF NoJob, NoBuild, Builds
      <4> QED BY <4>1
    <3>2. jobs' \in {jobs, [jobs EXCEPT ![JobName(b)] = j]}
      BY <2>3 DEF CreateJob
    <3> HIDE DEF j
    <3> QED BY <2>0, <3>1, <3>2
  <2>4. ASSUME NEW n \in Builds, Finish(n) \/ Age(n) PROVE Spared
    <3>1. PICK j \in JobRecord : jobs' = [jobs EXCEPT ![n] = j]
      BY <2>4, JobUpdate
    <3>2. j # NoJob
      BY JobApart
    <3> QED BY <2>0, <3>1, <3>2
  <2>5. ASSUME NEW n \in Builds, Expire(n) PROVE Spared
    BY <2>0, <2>5 DEF Expire
  <2> QED BY <2>1, <2>2, <2>3, <2>4, <2>5
       DEF Next, jobVars, Boot, CleanStep, List, Wait, CleanFails, MakeJob
<1> QED BY <1>1, FleetTypeCorrect, NamesInvariant, PTL DEF Spec, CleanupSparesBuilds

\* How much of an id jobName keeps for a repository name of len characters: all
\* of it up to 14, none of it from 49 on.
LEMMA IdCharsLeft ==
  ASSUME NEW len \in Nat
  PROVE  JobNameIdChars(len) =
           IF len <= 14 THEN IdLength ELSE IF len < 49 THEN 49 - len ELSE 0
BY DEF JobNameIdChars, Truncated, IdLength

\* Hence the cleanup spares the builds of every repository whose name is short
\* enough for the truncated Job name to reach a character in which ids differ.
THEOREM SparesShortNames ==
  ASSUME CommonPrefix < IdLength,
         \A l \in RepoLengths : l + CommonPrefix < 49
  PROVE  Spec => CleanupSparesBuilds
<1>1. DistinctNames
  <2> SUFFICES ASSUME NEW l \in RepoLengths PROVE JobNameIdChars(l) > CommonPrefix
    BY DEF DistinctNames
  <2>1. l \in Nat /\ CommonPrefix \in Nat /\ l + CommonPrefix < 49
    BY FleetAssumption
  <2> QED BY <2>1, IdCharsLeft DEF IdLength
<1> QED BY <1>1, SparesBuilds
==============================================================================
