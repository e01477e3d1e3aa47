-------------------------- MODULE BuildSolverProofs --------------------------
(***************************************************************************)
(* Theorems about BuildSolver, for any set of builds that share an object  *)
(* of the S3 bucket and any cache options.                                 *)
(***************************************************************************)
EXTENDS BuildSolver, TLAPS

-----------------------------------------------------------------------------
(* Types *)

\* A function to subsets of P stays one when one value is replaced by another.
LEMMA SubsetUpdate ==
  ASSUME NEW D, NEW P, NEW f \in [D -> SUBSET P], NEW d \in D, NEW v, v \subseteq P
  PROVE  [f EXCEPT ![d] = v] \in [D -> SUBSET P]
<1> DEFINE Q == SUBSET P
<1>1. v \in Q /\ f \in [D -> Q]
  OBVIOUS
<1> HIDE DEF Q
<1>2. [f EXCEPT ![d] = v] \in [D -> Q]
  BY <1>1
<1> QED BY <1>2 DEF Q

\* A build only ever has temporary files of the four kinds.
LEMMA PathsType ==
  ASSUME TypeOK, NEW b \in Builds
  PROVE  /\ \A f \in TempFiles : Have(b, f) => paths' \in [Builds -> SUBSET TempFiles]
         /\ \A fs : Remove(b, fs) => paths' \in [Builds -> SUBSET TempFiles]
<1>1. paths \in [Builds -> SUBSET TempFiles] /\ paths[b] \subseteq TempFiles
  BY DEF TypeOK
<1>2. ASSUME NEW f \in TempFiles, Have(b, f)
      PROVE  paths' \in [Builds -> SUBSET TempFiles]
  <2>1. paths[b] \union {f} \subseteq TempFiles
    BY <1>1
  <2> QED BY <1>1, <1>2, <2>1, SubsetUpdate DEF Have
<1>3. ASSUME NEW fs, Remove(b, fs) PROVE paths' \in [Builds -> SUBSET TempFiles]
  <2>1. paths[b] \ fs \subseteq TempFiles
    BY <1>1
  <2> QED BY <1>1, <1>3, <2>1, SubsetUpdate DEF Remove
<1> QED BY <1>2, <1>3

\* Each step of Build, of its progress goroutine and of the cancellation keeps
\* the types.
LEMMA SolverType == TypeOK /\ [Next]_vars => TypeOK'
<1> SUFFICES ASSUME TypeOK, [Next]_vars PROVE TypeOK'
  OBVIOUS
<1> USE PathsType DEF TypeOK, Labels, Goto, cacheVars, statusVars
<1>1. CASE UNCHANGED vars
  BY <1>1 DEF vars
<1>2. ASSUME NEW b \in Builds,
             \/ BuildStep(b) \/ SolveStatus(b) \/ SolveSucceeds(b) \/ SolveFails(b)
             \/ DisplaySolveStatus(b) \/ Cancel(b)
      PROVE  TypeOK'
  <2>1. GetBuild(b) => TypeOK'
    BY DEF GetBuild
  <2>2. ASSUME LoadCache(b) PROVE TypeOK'
    <3>1. [sopts EXCEPT ![b] = {"export"}] \in [Builds -> SUBSET {"export", "import"}]
      BY DEF TypeOK
    <3>2. /\ paths' \in [Builds -> SUBSET TempFiles]
          /\ sopts' \in [Builds -> SUBSET {"export", "import"}]
      BY <2>2, <3>1 DEF LoadCache, TempFiles
    <3> QED BY <2>2, <3>2 DEF LoadCache
  <2>3. ASSUME FetchOpen(b) PROVE TypeOK'
    <3>1. paths' \in [Builds -> SUBSET TempFiles]
      BY <2>3 DEF FetchOpen, TempFiles
    <3> QED BY <2>3, <3>1 DEF FetchOpen
  <2>4. ASSUME FetchDownload(b) PROVE TypeOK'
    <3>1. paths' \in [Builds -> SUBSET TempFiles]
      BY <2>4 DEF FetchDownload
    <3>2. imported' \in [Builds -> Builds \union {NoCache}]
      <4>1. [imported EXCEPT ![b] = object] \in [Builds -> Builds \union {NoCache}]
        OBVIOUS
      <4>2. imported' \in {imported, [imported EXCEPT ![b] = object]}
        BY <2>4 DEF FetchDownload
      <4> QED BY <4>1, <4>2
    <3>3. pc' \in [Builds -> Labels]
      BY <2>4 DEF FetchDownload
    <3> QED BY <2>4, <3>1, <3>2, <3>3 DEF FetchDownload
  <2>5. ASSUME FetchUnarchive(b) PROVE TypeOK'
    <3> DEFINE D == {"export", "import"}
               newPaths == (paths[b] \ {"download"}) \union {"import"}
               newSopts == sopts[b] \union {"import"}
    <3>1. newPaths \subseteq TempFiles /\ newSopts \subseteq D
      BY DEF TempFiles
    <3>2. /\ [paths EXCEPT ![b] = newPaths] \in [Builds -> SUBSET TempFiles]
          /\ [sopts EXCEPT ![b] = newSopts] \in [Builds -> SUBSET D]
      <4> HIDE DEF newPaths, newSopts
      <4> QED BY <3>1, SubsetUpdate
    <3>3. /\ paths' \in [Builds -> SUBSET TempFiles]
          /\ sopts' \in [Builds -> SUBSET D]
      BY <2>5, <3>2 DEF FetchUnarchive
    <3> QED BY <2>5, <3>3 DEF FetchUnarchive
  <2>6. StartProgress(b) => TypeOK'
    BY DEF StartProgress
  <2>7. SaveCache(b) => TypeOK'
    BY DEF SaveCache, TempFiles
  <2>8. SaveUpload(b) => TypeOK'
    BY DEF SaveUpload
  <2>9. Return(b) => TypeOK'
    BY DEF Return
  <2>10. SolveStatus(b) => TypeOK'
    BY DEF SolveStatus
  <2>11. SolveSucceeds(b) => TypeOK'
    BY DEF SolveSucceeds, SolveReturns
  <2>12. SolveFails(b) => TypeOK'
    BY DEF SolveFails, SolveReturns
  <2>13. DisplaySolveStatus(b) => TypeOK'
    BY DEF DisplaySolveStatus
  <2>14. Cancel(b) => TypeOK'
    BY DEF Cancel
  <2> QED BY <1>2, <2>1, <2>2, <2>3, <2>4, <2>5, <2>6, <2>7, <2>8, <2>9, <2>10,
       <2>11, <2>12, <2>13, <2>14 DEF BuildStep
<1> QED BY <1>1, <1>2 DEF Next

\* The types hold in every reachable state.
THEOREM SolverTypeCorrect == Spec => []TypeOK
<1>1. Init => TypeOK
  BY SolverAssumption DEF Init, TypeOK, Labels, NoPath
<1> QED BY <1>1, SolverType, PTL DEF Spec

-----------------------------------------------------------------------------
(* Temporary files *)

\* A step of one build leaves the files of the others alone.
LEMMA FilesFrame ==
  ASSUME FilesInv, NEW b \in Builds,
         \A q \in Builds \ {b} :
           pc'[q] = pc[q] /\ paths'[q] = paths[q] /\ sopts'[q] = sopts[q],
         FilesOf(b)'
  PROVE  FilesInv'
<1>1. ASSUME NEW q \in Builds \ {b} PROVE FilesOf(q)'
  <2>1. pc'[q] = pc[q] /\ paths'[q] = paths[q] /\ sopts'[q] = sopts[q] /\ FilesOf(q)
    BY DEF FilesInv
  <2> QED BY <2>1, Zenon DEF FilesOf, Returned
<1> QED BY <1>1 DEF FilesInv

\* The functions have the domain the types say.
LEMMA SolverFunctions ==
  ASSUME TypeOK
  PROVE  /\ pc \in [Builds -> Labels]
         /\ imported \in [Builds -> Builds \union {NoCache}]
         /\ DOMAIN pc = Builds /\ DOMAIN paths = Builds /\ DOMAIN sopts = Builds
         /\ solved \subseteq Builds
BY DEF TypeOK

\* FilesInv is an invariant.
LEMMA FilesInvariant == Spec => []FilesInv
<1>1. Init => FilesInv
  BY DEF Init, FilesInv, FilesOf, Returned
<1>2. TypeOK /\ FilesInv /\ [Next]_vars => FilesInv'
  <2> SUFFICES ASSUME TypeOK, FilesInv, [Next]_vars PROVE FilesInv'
    OBVIOUS
  <2> USE SolverFunctions DEF Goto, Have, Remove, cacheVars, Returned
  <2>1. CASE UNCHANGED vars
    BY <2>1 DEF vars, FilesInv, FilesOf
  <2>2. ASSUME NEW b \in Builds,
               \/ BuildStep(b) \/ SolveStatus(b) \/ SolveSucceeds(b) \/ SolveFails(b)
               \/ DisplaySolveStatus(b) \/ Cancel(b)
        PROVE  FilesInv'
    <3> DEFINE Same(q) == pc'[q] = pc[q] /\ paths'[q] = paths[q] /\ sopts'[q] = sopts[q]
    <3>1. \A q \in Builds \ {b} : Same(q)
      BY <2>2 DEF BuildStep, GetBuild, LoadCache, FetchOpen, FetchDownload,
         FetchUnarchive, StartProgress, SaveCache, SaveUpload, Return,
         SolveStatus, SolveSucceeds, SolveFails, DisplaySolveStatus, Cancel,
         SolveReturns
    <3>2. FilesOf(b)
      BY DEF FilesInv
    <3>3. GetBuild(b) => FilesOf(b)'
      BY <3>2 DEF GetBuild, FilesOf
    <3>4. ASSUME LoadCache(b) PROVE FilesOf(b)'
      <4>1. CASE pc'[b] = "verify" /\ UNCHANGED <<paths, sopts>>
        BY <3>2, <3>4, <4>1 DEF LoadCache, FilesOf
      <4>2. CASE Have(b, "export") /\ sopts' = [sopts EXCEPT ![b] = {"export"}] /\ pc'[b] = "fetch"
        <5>1. paths[b] = {}
          BY <3>2, <3>4 DEF LoadCache, FilesOf, NoPath
        <5>2. paths'[b] = {"export"} /\ sopts'[b] = {"export"}
          BY <4>2, <5>1
        <5> QED BY <4>2, <5>2 DEF FilesOf
      <4> QED BY <3>4, <4>1, <4>2 DEF LoadCache
    <3>5. ASSUME FetchOpen(b) PROVE FilesOf(b)'
      <4>1. CASE pc'[b] = "verify" /\ UNCHANGED paths
        BY <3>2, <3>5, <4>1 DEF FetchOpen, FilesOf
      <4>2. CASE Have(b, "download") /\ pc'[b] = "download"
        <5>1. paths[b] = {"export"} /\ sopts[b] = {"export"} /\ sopts' = sopts
          BY <3>2, <3>5 DEF FetchOpen, FilesOf
        <5>2. paths'[b] = {"export", "download"}
          BY <4>2, <5>1
        <5> QED BY <4>2, <5>1, <5>2 DEF FilesOf
      <4> QED BY <3>5, <4>1, <4>2 DEF FetchOpen
    <3>6. FetchDownload(b) => FilesOf(b)'
      BY <3>2 DEF FetchDownload, FilesOf
    <3>7. FetchUnarchive(b) => FilesOf(b)'
      BY <3>2 DEF FetchUnarchive, FilesOf
    <3>8. StartProgress(b) => FilesOf(b)'
      BY <3>2 DEF StartProgress, FilesOf
    <3>9. SaveCache(b) => FilesOf(b)'
      BY <3>2 DEF SaveCache, FilesOf
    <3>10. ASSUME SaveUpload(b) PROVE FilesOf(b)'
      <4>1. paths[b] = sopts[b] \union {"upload"} /\ "upload" \notin sopts[b]
        BY <3>2, <3>10 DEF SaveUpload, FilesOf, TypeOK
      <4>2. paths'[b] = sopts[b]
        BY <3>10, <4>1 DEF SaveUpload
      <4> QED BY <3>10, <4>2 DEF SaveUpload, FilesOf
    <3>11. ASSUME Return(b) PROVE FilesOf(b)'
      <4>1. paths[b] = sopts[b]
        BY <3>2, <3>11 DEF Return, FilesOf
      <4>2. paths'[b] = NoPath
        BY <3>11, <4>1 DEF Return, NoPath
      <4> QED BY <3>11, <4>2 DEF Return, FilesOf
    <3>12. SolveStatus(b) => FilesOf(b)'
      BY <3>2 DEF SolveStatus, FilesOf
    <3>13. SolveSucceeds(b) => FilesOf(b)'
      BY <3>2 DEF SolveSucceeds, SolveReturns, FilesOf
    <3>14. SolveFails(b) => FilesOf(b)'
      BY <3>2 DEF SolveFails, SolveReturns, FilesOf
    <3>15. DisplaySolveStatus(b) => FilesOf(b)'
      BY <3>2 DEF DisplaySolveStatus, FilesOf
    <3>16. Cancel(b) => FilesOf(b)'
      BY <3>2 DEF Cancel, FilesOf
    <3> QED BY <2>2, <3>1, FilesFrame, <3>3, <3>4, <3>5, <3>6, <3>7, <3>8,
         <3>9, <3>10, <3>11, <3>12, <3>13, <3>14, <3>15, <3>16 DEF BuildStep
  <2> QED BY <2>1, <2>2 DEF Next
<1> QED BY <1>1, <1>2, SolverTypeCorrect, PTL DEF Spec

\* Build leaves no temporary file or directory behind, whichever of the calls
\* of loadCache, Fetch, Solve and Save fails and whenever it is cancelled.
THEOREM CleansUp == Spec => []NothingLeftBehind
<1>1. FilesInv => NothingLeftBehind
  BY DEF FilesInv, FilesOf, NothingLeftBehind
<1> QED BY <1>1, FilesInvariant, PTL

\* The directories that SolveOpt names are there while Solve and Save use them.
THEOREM DirectoriesThere == Spec => []DirectoriesKept
<1>1. FilesInv => DirectoriesKept
  BY DEF FilesInv, FilesOf, DirectoriesKept
<1> QED BY <1>1, FilesInvariant, PTL

-----------------------------------------------------------------------------
(* The result and the shared cache *)

\* SolvedInv is an invariant.
LEMMA SolvedInvariant == Spec => []SolvedInv
<1>1. Init => SolvedInv
  BY DEF Init, SolvedInv
<1>2. TypeOK /\ SolvedInv /\ [Next]_vars => SolvedInv'
  <2> SUFFICES ASSUME TypeOK, SolvedInv, [Next]_vars PROVE SolvedInv'
    OBVIOUS
  <2> USE SolverFunctions DEF SolvedInv, Goto, cacheVars, statusVars
  <2>1. CASE UNCHANGED vars
    BY <2>1 DEF vars
  <2>2. ASSUME NEW b \in Builds,
               \/ BuildStep(b) \/ SolveStatus(b) \/ SolveSucceeds(b) \/ SolveFails(b)
               \/ DisplaySolveStatus(b) \/ Cancel(b)
        PROVE  SolvedInv'
    <3>1. GetBuild(b) => SolvedInv'
      BY DEF GetBuild
    <3>2. LoadCache(b) => SolvedInv'
      BY DEF LoadCache
    <3>3. FetchOpen(b) => SolvedInv'
      BY DEF FetchOpen
    <3>4. FetchDownload(b) => SolvedInv'
      BY DEF FetchDownload
    <3>5. FetchUnarchive(b) => SolvedInv'
      BY DEF FetchUnarchive
    <3>6. StartProgress(b) => SolvedInv'
      BY DEF StartProgress
    <3>7. SaveCache(b) => SolvedInv'
      BY DEF SaveCache
    <3>8. SaveUpload(b) => SolvedInv'
      BY DEF SaveUpload
    <3>9. Return(b) => SolvedInv'
      BY DEF Return
    <3>10. SolveStatus(b) => SolvedInv'
      BY DEF SolveStatus
    <3>11. SolveSucceeds(b) => SolvedInv'
      BY DEF SolveSucceeds, SolveReturns
    <3>12. SolveFails(b) => SolvedInv'
      BY DEF SolveFails, SolveReturns
    <3>13. DisplaySolveStatus(b) => SolvedInv'
      BY DEF DisplaySolveStatus
    <3>14. Cancel(b) => SolvedInv'
      BY DEF Cancel
    <3> QED BY <2>2, <3>1, <3>2, <3>3, <3>4, <3>5, <3>6, <3>7, <3>8, <3>9, <3>10,
         <3>11, <3>12, <3>13, <3>14 DEF BuildStep
  <2> QED BY <2>1, <2>2 DEF Next
<1> QED BY <1>1, <1>2, SolverTypeCorrect, PTL DEF Spec

\* Build succeeds exactly if its solve did, whatever the cache, the build
\* events or a late cancellation do.
THEOREM ResultOfSolve == Spec => []ResultIsTheSolves
<1>1. SolvedInv => ResultIsTheSolves
  BY DEF SolvedInv, ResultIsTheSolves, Returned
<1> QED BY <1>1, SolvedInvariant, PTL

\* Every cache in the shared object, and every cache imported from it, was
\* exported by a solve that succeeded.
THEOREM CacheOfSuccess == Spec => []CacheFromSuccess
<1>1. SolvedInv => CacheFromSuccess
  BY DEF SolvedInv, CacheFromSuccess
<1> QED BY <1>1, SolvedInvariant, PTL
==============================================================================
