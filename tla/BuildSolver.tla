----------------------------- MODULE BuildSolver -----------------------------
(***************************************************************************)
(* BuildSolver.Build (pkg/buildkit) with the S3 cache (pkg/s3), in the     *)
(* pods of several builds of one repository.  They share one object of the *)
(* bucket, and each has the temporary files of its own pod.  Every call to *)
(* the database, the disk, S3 or buildkitd may fail.                       *)
(***************************************************************************)
CONSTANTS Builds,
          CacheTypes     \* the cache options of the builds

NoCache == "no cache"
NoPath == {}

ASSUME SolverAssumption ==
  /\ CacheTypes \subseteq {"s3", "inline", "disabled"} /\ CacheTypes # {}
  /\ NoCache \notin Builds

VARIABLES pc,         \* per build, how far Build has come
          opts,       \* per build, its cache type
          ctxDone,    \* the builds whose context is cancelled
          paths,      \* per build, its temporary files and directories
          sopts,      \* per build, the directories its SolveOpt names
          imported,   \* per build, whose cache it has in its import directory
          object,     \* whose cache the S3 object holds
          progress,   \* per build, the goroutine that displays the progress
          chan,       \* per build, the channel from the client to it
          solved      \* history: the builds whose solve succeeded

vars == <<pc, opts, ctxDone, paths, sopts, imported, object, progress, chan, solved>>
cacheVars == <<paths, sopts, imported>>
statusVars == <<progress, chan>>

Init ==
  /\ pc = [b \in Builds |-> "get"]
  /\ opts \in [Builds -> CacheTypes]
  /\ ctxDone = {}
  /\ paths = [b \in Builds |-> NoPath]
  /\ sopts = [b \in Builds |-> NoPath]
  /\ imported = [b \in Builds |-> NoCache]
  /\ object = NoCache
  /\ progress = [b \in Builds |-> "none"]
  /\ chan = [b \in Builds |-> "open"]
  /\ solved = {}

Goto(b, l) == pc' = [pc EXCEPT ![b] = l]
Have(b, p) == paths' = [paths EXCEPT ![b] = @ \union {p}]
Remove(b, ps) == paths' = [paths EXCEPT ![b] = @ \ ps]

\* GetBuildByID and genSolveOpt
GetBuild(b) ==
  /\ pc[b] = "get"
  /\ \/ Goto(b, "load") \/ Goto(b, "error")
  /\ UNCHANGED <<opts, ctxDone, cacheVars, object, statusVars, solved>>

-----------------------------------------------------------------------------
(* loadCache; an error of it only leaves a warning *)

\* GetBuildByID and, for S3, the export directory; "inline" needs no files.
LoadCache(b) ==
  /\ pc[b] = "load"
  /\ \/ Goto(b, "verify") /\ UNCHANGED <<paths, sopts>>
     \/ /\ opts[b] = "s3"
        /\ Have(b, "export")
        /\ sopts' = [sopts EXCEPT ![b] = {"export"}]
        /\ Goto(b, "fetch")
  /\ UNCHANGED <<opts, ctxDone, imported, object, statusVars, solved>>

\* Fetch: the client and the file for the archive
FetchOpen(b) ==
  /\ pc[b] = "fetch"
  /\ \/ Have(b, "download") /\ Goto(b, "download")
     \/ Goto(b, "verify") /\ UNCHANGED paths
  /\ UNCHANGED <<opts, ctxDone, sopts, imported, object, statusVars, solved>>

\* Mutation: Fetch reports the path of the archive, not that it failed.
FetchDownload_NoError(b) ==
  /\ pc[b] = "download"
  /\ imported' = [imported EXCEPT ![b] = IF object # NoCache /\ b \notin ctxDone THEN object ELSE "empty"]
  /\ Goto(b, "unarchive")
  /\ UNCHANGED <<opts, ctxDone, paths, sopts, object, statusVars, solved>>

\* Fetch: DownloadWithContext
FetchDownload(b) ==
  /\ pc[b] = "download"
  /\ \/ /\ object # NoCache /\ b \notin ctxDone
        /\ imported' = [imported EXCEPT ![b] = object]
        /\ Goto(b, "unarchive")
        /\ UNCHANGED paths
     \/ Remove(b, {"download"}) /\ Goto(b, "verify") /\ UNCHANGED imported
  /\ UNCHANGED <<opts, ctxDone, sopts, object, statusVars, solved>>

\* Mutation: a deferred call removes the directory with the archive.
FetchUnarchive_RemovesDir(b) ==
  /\ pc[b] = "unarchive"
  /\ Remove(b, {"download", "import"})
  /\ sopts' = [sopts EXCEPT ![b] = @ \union {"import"}]
  /\ Goto(b, "verify")
  /\ UNCHANGED <<opts, ctxDone, imported, object, statusVars, solved>>

\* Fetch: TempDir and Unarchive; the deferred calls remove the archive.
FetchUnarchive(b) ==
  /\ pc[b] = "unarchive"
  /\ \/ /\ paths' = [paths EXCEPT ![b] = (@ \ {"download"}) \union {"import"}]
        /\ sopts' = [sopts EXCEPT ![b] = @ \union {"import"}]
        /\ UNCHANGED imported
     \/ /\ Remove(b, {"download"})
        /\ imported' = [imported EXCEPT ![b] = NoCache]
        /\ UNCHANGED sopts
  /\ Goto(b, "verify")
  /\ UNCHANGED <<opts, ctxDone, object, statusVars, solved>>

-----------------------------------------------------------------------------
(* The solve and its progress *)

\* Build starts the goroutine that reads the status channel; VerifyAddr waits
\* for the socket, up to its timeout.
StartProgress(b) ==
  /\ pc[b] = "verify"
  /\ progress' = [progress EXCEPT ![b] = "reading"]
  /\ \/ Goto(b, "solve") \/ Goto(b, "error")
  /\ UNCHANGED <<opts, ctxDone, cacheVars, object, chan, solved>>

\* The client of buildkitd gets a status and sends it on the channel, which
\* has no buffer: it does not look at the context while it waits.
SolveStatus(b) ==
  /\ pc[b] = "solve" /\ chan[b] = "open"
  /\ chan' = [chan EXCEPT ![b] = "sending"]
  /\ UNCHANGED <<pc, opts, ctxDone, cacheVars, object, progress, solved>>

\* Solve returns once its last status is sent, and closes the channel.
SolveReturns(b) ==
  /\ pc[b] = "solve" /\ chan[b] = "open"
  /\ chan' = [chan EXCEPT ![b] = "closed"]
  /\ UNCHANGED <<opts, ctxDone, cacheVars, object, progress>>

SolveSucceeds(b) ==
  /\ SolveReturns(b)
  /\ solved' = solved \union {b}
  /\ Goto(b, "save")

\* Mutation: the cache is saved before the error of Solve is looked at.
SolveFails_SavesFirst(b) ==
  /\ pc[b] = "solve" /\ chan[b] = "open"
  /\ chan' = [chan EXCEPT ![b] = "closed"]
  /\ object' = IF "export" \in sopts[b] THEN b ELSE object
  /\ Goto(b, "error")
  /\ UNCHANGED <<opts, ctxDone, cacheVars, progress, solved>>

SolveFails(b) ==
  /\ SolveReturns(b)
  /\ Goto(b, "error")
  /\ UNCHANGED solved

\* Mutation: the goroutine stops with the context of the build.
DisplaySolveStatus_Ctx(b) ==
  /\ progress[b] = "reading"
  /\ \/ /\ chan[b] = "sending"
        /\ chan' = [chan EXCEPT ![b] = "open"]
        /\ UNCHANGED progress
     \/ /\ chan[b] = "closed" \/ b \in ctxDone
        /\ progress' = [progress EXCEPT ![b] = "done"]
        /\ UNCHANGED chan
  /\ UNCHANGED <<pc, opts, ctxDone, cacheVars, object, solved>>

\* DisplaySolveStatus takes the statuses until the channel is closed, and
\* eventWriter records them; it ignores the context of the build.
DisplaySolveStatus(b) ==
  /\ progress[b] = "reading"
  /\ \/ /\ chan[b] = "sending"
        /\ chan' = [chan EXCEPT ![b] = "open"]
        /\ UNCHANGED progress
     \/ /\ chan[b] = "closed"
        /\ progress' = [progress EXCEPT ![b] = "done"]
        /\ UNCHANGED chan
  /\ UNCHANGED <<pc, opts, ctxDone, cacheVars, object, solved>>

-----------------------------------------------------------------------------
(* saveCache; an error of it only leaves a warning *)

\* GetBuildByID and, for S3, the client and the file for the archive; nothing
\* is saved if loadCache made no export directory.
SaveCache(b) ==
  /\ pc[b] = "save"
  /\ \/ Goto(b, "ok") /\ UNCHANGED paths
     \/ /\ opts[b] = "s3" /\ "export" \in sopts[b]
        /\ Have(b, "upload")
        /\ Goto(b, "upload")
  /\ UNCHANGED <<opts, ctxDone, sopts, imported, object, statusVars, solved>>

\* Mutation: Build returns the error of Save.
SaveUpload_Fatal(b) ==
  /\ pc[b] = "upload"
  /\ \/ b \notin ctxDone /\ object' = b /\ Goto(b, "ok")
     \/ Goto(b, "error") /\ UNCHANGED object
  /\ Remove(b, {"upload"})
  /\ UNCHANGED <<opts, ctxDone, sopts, imported, statusVars, solved>>

\* Save: Archive and UploadWithContext, which replaces the object as a whole
SaveUpload(b) ==
  /\ pc[b] = "upload"
  /\ \/ b \notin ctxDone /\ object' = b
     \/ UNCHANGED object
  /\ Remove(b, {"upload"})
  /\ Goto(b, "ok")
  /\ UNCHANGED <<opts, ctxDone, sopts, imported, statusVars, solved>>

\* Mutation: loadCache returns the clean-up of its export directory only.
Return_ExportOnly(b) ==
  /\ \/ pc[b] = "ok" /\ Goto(b, "returned ok")
     \/ pc[b] = "error" /\ Goto(b, "returned error")
  /\ Remove(b, {"export"})
  /\ UNCHANGED <<opts, ctxDone, sopts, imported, object, statusVars, solved>>

\* Build returns; the clean-up that loadCache returned removes the directories.
Return(b) ==
  /\ \/ pc[b] = "ok" /\ Goto(b, "returned ok")
     \/ pc[b] = "error" /\ Goto(b, "returned error")
  /\ Remove(b, sopts[b])
  /\ UNCHANGED <<opts, ctxDone, sopts, imported, object, statusVars, solved>>

-----------------------------------------------------------------------------
Returned(b) == pc[b] \in {"returned ok", "returned error"}

\* Manager.Run cancels the context: a cancellation, a signal or its timeout.
Cancel(b) ==
  /\ ~Returned(b)
  /\ ctxDone' = ctxDone \union {b}
  /\ UNCHANGED <<pc, opts, cacheVars, object, statusVars, solved>>

BuildStep(b) ==
  \/ GetBuild(b) \/ LoadCache(b) \/ FetchOpen(b) \/ FetchDownload(b)
  \/ FetchUnarchive(b) \/ StartProgress(b) \/ SaveCache(b) \/ SaveUpload(b)
  \/ Return(b)

Next ==
  \E b \in Builds :
    \/ BuildStep(b) \/ SolveStatus(b) \/ SolveSucceeds(b) \/ SolveFails(b)
    \/ DisplaySolveStatus(b) \/ Cancel(b)

Spec == Init /\ [][Next]_vars

\* Both goroutines run and calls return.  A solve may take for ever unless its
\* context is cancelled: then the client stops asking for statuses after a
\* while, however many buildkitd has.
FairSpec ==
  /\ Spec
  /\ \A b \in Builds :
       /\ WF_vars(BuildStep(b)) /\ WF_vars(DisplaySolveStatus(b))
       /\ SF_vars(b \in ctxDone /\ SolveFails(b))

-----------------------------------------------------------------------------
Labels == {"get", "load", "fetch", "download", "unarchive", "verify", "solve",
           "save", "upload", "ok", "error", "returned ok", "returned error"}
TempFiles == {"export", "import", "download", "upload"}

TypeOK ==
  /\ pc \in [Builds -> Labels]
  /\ opts \in [Builds -> CacheTypes]
  /\ ctxDone \subseteq Builds
  /\ paths \in [Builds -> SUBSET TempFiles]
  /\ sopts \in [Builds -> SUBSET {"export", "import"}]
  /\ imported \in [Builds -> Builds \union {NoCache}]
  /\ object \in Builds \union {NoCache}
  /\ progress \in [Builds -> {"none", "reading", "done"}]
  /\ chan \in [Builds -> {"open", "sending", "closed"}]
  /\ solved \subseteq Builds

\* Build, Fetch and Save leave no temporary file or directory behind, whichever
\* of their calls fails.
NothingLeftBehind == \A b \in Builds : Returned(b) => paths[b] = NoPath

\* The directories that SolveOpt names are there as long as Solve and Save use
\* them: no clean-up of loadCache or Fetch comes too early.
DirectoriesKept ==
  \A b \in Builds :
    pc[b] \in {"verify", "solve", "save", "upload"} => sopts[b] \subseteq paths[b]

\* Build succeeds exactly if the solve did: no error of the cache, of a build
\* event or of a context that is cancelled later changes that.
ResultIsTheSolves ==
  \A b \in Builds : Returned(b) => (pc[b] = "returned ok" <=> b \in solved)

\* The S3 object that the builds of a repository share, and with it every
\* cache they import, was exported by a solve that succeeded.
CacheFromSuccess ==
  \A c \in {object} \union {imported[b] : b \in Builds} : c \in solved \union {NoCache}

\* A build whose context is cancelled gets out of Solve and returns: the
\* client is never stuck on the status channel (DisplaySolveStatus runs with a
\* context of its own, "prevents client hanging").
CancelEndsBuild == \A b \in Builds : (b \in ctxDone) ~> Returned(b)

-----------------------------------------------------------------------------
(* Inductive strengthenings *)

\* Why NothingLeftBehind and DirectoriesKept hold: at every step the files of a
\* build are the directories SolveOpt names and the archive in use, if any.
FilesOf(b) ==
  /\ pc[b] \in {"get", "load"} => sopts[b] = NoPath /\ paths[b] = NoPath
  /\ pc[b] = "fetch" => sopts[b] = {"export"} /\ paths[b] = {"export"}
  /\ pc[b] \in {"download", "unarchive"} =>
       sopts[b] = {"export"} /\ paths[b] = {"export", "download"}
  /\ pc[b] \in {"verify", "solve", "save", "ok", "error"} => paths[b] = sopts[b]
  /\ pc[b] = "upload" => paths[b] = sopts[b] \union {"upload"}
  /\ Returned(b) => paths[b] = NoPath
FilesInv == \A b \in Builds : FilesOf(b)

\* Why ResultIsTheSolves and CacheFromSuccess hold: only a solve that succeeded
\* gets Build to saveCache and to its successful return.
SolvedInv ==
  /\ \A b \in Builds :
       pc[b] \in {"save", "upload", "ok", "returned ok"} <=> b \in solved
  /\ \A b \in Builds : imported[b] \in solved \union {NoCache}
  /\ object \in solved \union {NoCache}
==============================================================================
