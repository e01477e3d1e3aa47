---------------------------- MODULE FakeDataLayer ----------------------------
(***************************************************************************)
(* FakeDataLayer (pkg/datalayer/fake.go), the data layer of the tests, with *)
(* one build and one API key.  A goroutine makes one call at a time.       *)
(*                                                                         *)
(* A critical section under Lock, and one under RLock that sends nothing,  *)
(* is one step.  A notifier keeps its RLock while it sends on the channels *)
(* of the listeners, which have no buffer.  As in sync.RWMutex, a waiting  *)
(* Lock keeps new readers out.                                             *)
(***************************************************************************)
EXTENDS BuildStatus, Naturals, Sequences, FiniteSets

CONSTANTS Procs    \* goroutines

\* The events, cancellation, running and completion listeners
Kinds == {"events", "cxl", "run", "done"}
NoCall == [op |-> "none"]

\* Calls: of a method that waits, and of one that wakes those up, after a
\* write of the status unless it adds an event
Listen(k) == [op |-> "listen", kind |-> k]
Notify(k, s) == [op |-> "notify", kind |-> k, status |-> s]

VARIABLES status,    \* the status of the build, or NoRow
          deleted,   \* the status it had when it was deleted, or NoRow
          completed, \* whether its completion timestamp is set
          apikey,    \* whether the API key exists
          regs,      \* per kind, the goroutines whose channels are registered
          closed,    \* the goroutines whose channels are closed
          readers,   \* the notifiers that hold the RLock
          writers,   \* the goroutines that wait in Lock
          pc, call, res,  \* per goroutine: position, call, result
          queue,     \* per notifier, the listeners it has still to signal
          heard,     \* per event listener, the events it passed on
          ctxDone,   \* the listeners whose context is cancelled
          stopped,   \* the event listeners whose events nobody reads any more
          missed     \* history: the status a listener waits for, or one that
                     \* ends the wait, was there when it registered

dataVars == <<status, deleted, completed, apikey>>
lockVars == <<readers, writers>>
listenVars == <<regs, closed, heard, missed>>
userVars == <<ctxDone, stopped>>
fakeVars == <<dataVars, listenVars, lockVars, pc, call, res, queue, userVars>>

\* All maps exist: the first call of a test, which is alone, runs init.
FakeInit ==
  /\ completed = FALSE /\ apikey = FALSE
  /\ regs = [k \in Kinds |-> <<>>]
  /\ closed = {} /\ readers = {} /\ writers = {} /\ missed = {}
  /\ ctxDone = {} /\ stopped = {} /\ deleted = NoRow
  /\ pc = [p \in Procs |-> "idle"]
  /\ call = [p \in Procs |-> NoCall]
  /\ res = [p \in Procs |-> "none"]
  /\ queue = [p \in Procs |-> <<>>]
  /\ heard = [p \in Procs |-> 0]

Goto(p, l) == pc' = [pc EXCEPT ![p] = l]
Return(p, r) == Goto(p, "returned") /\ res' = [res EXCEPT ![p] = r]
kind(p) == call[p].kind

\* Entry of a call
FirstStep(c) == CASE c.op = "listen" -> "check" [] c.op = "notify" -> "write" [] OTHER -> c.op
Begin(p, c) ==
  /\ pc[p] \in {"idle", "returned"}
  /\ call' = [call EXCEPT ![p] = c]
  /\ Goto(p, FirstStep(c))
  /\ UNCHANGED <<dataVars, listenVars, lockVars, res, queue, userVars>>

-----------------------------------------------------------------------------
(* The lock *)

Writing == {"CreateBuild", "DeleteBuild", "SetBuildStatus", "SetBuildCompletedTimestamp",
            "CreateAPIKey", "DeleteAPIKey", "register", "leave", "write"}

CanRLock == writers = {}

\* Lock and Unlock around one step of p
WithLock(p) == readers = {} /\ writers' = writers \ {p} /\ UNCHANGED readers

BlockOnLock(p) ==
  /\ pc[p] \in Writing /\ readers # {} /\ p \notin writers
  /\ writers' = writers \union {p}
  /\ UNCHANGED <<dataVars, listenVars, readers, pc, call, res, queue, userVars>>

-----------------------------------------------------------------------------
(* Calls without listeners *)

\* Mutation: the status of a new build is not set.
CreateBuild_NoStatus(p) ==
  /\ pc[p] = "CreateBuild" /\ WithLock(p)
  /\ status' = "NULL"
  /\ Return(p, "ok")
  /\ UNCHANGED <<deleted, completed, apikey, listenVars, call, queue, userVars>>

CreateBuild(p) ==
  /\ pc[p] = "CreateBuild" /\ WithLock(p)
  /\ status' = "NotStarted"
  /\ Return(p, "ok")
  /\ UNCHANGED <<deleted, completed, apikey, listenVars, call, queue, userVars>>

\* SetBuildCompletedTimestamp, SetBuildStatus and DeleteBuild: a build that
\* does not exist is no error.
UpdateBuild(p) ==
  /\ WithLock(p)
  /\ \/ /\ pc[p] = "SetBuildCompletedTimestamp"
        /\ completed' = (status # NoRow) /\ UNCHANGED <<status, deleted>>
     \/ /\ pc[p] = "SetBuildStatus"
        /\ status' = IF status = NoRow THEN NoRow ELSE call[p].status
        /\ UNCHANGED <<deleted, completed>>
     \/ /\ pc[p] = "DeleteBuild"
        /\ status' = NoRow /\ completed' = FALSE
        /\ deleted' = IF status = NoRow THEN deleted ELSE status
  /\ Return(p, "ok")
  /\ UNCHANGED <<apikey, listenVars, call, queue, userVars>>

\* The build or ErrNotFound; a test looks at its status or at its timestamp.
GetBuildByID(p) ==
  /\ CanRLock
  /\ \/ pc[p] = "GetBuildByID" /\ Return(p, status)
     \/ pc[p] = "GetBuildByID (completed)" /\ Return(p, IF completed THEN "set" ELSE "unset")
  /\ UNCHANGED <<dataVars, listenVars, lockVars, call, queue, userVars>>

\* CreateAPIKey, GetAPIKey and DeleteAPIKey
UseAPIKey(p) ==
  /\ \/ pc[p] = "CreateAPIKey" /\ WithLock(p) /\ apikey' = TRUE /\ Return(p, "ok")
     \/ pc[p] = "DeleteAPIKey" /\ WithLock(p) /\ apikey' = FALSE /\ Return(p, "ok")
     \/ /\ pc[p] = "GetAPIKey" /\ CanRLock
        /\ Return(p, IF apikey THEN "ok" ELSE NoRow) /\ UNCHANGED <<apikey, lockVars>>
  /\ UNCHANGED <<status, deleted, completed, listenVars, call, queue, userVars>>

-----------------------------------------------------------------------------
(* Steps of a listener, and its four methods *)

\* Mutation: a cancellation that was requested before is an error.
ListenCheck_CancelledOnly(k, s) ==
  CASE s = NoRow     -> "error"
    [] k = "events"  -> IF TerminalState(s) THEN "error" ELSE "wait"
    [] k = "cxl"     -> IF Running(s) THEN "wait" ELSE IF s = "Cancelled" THEN "ok" ELSE "error"
    [] k = "run"     -> IF Running(s) THEN "ok" ELSE IF s = "NotStarted" THEN "wait" ELSE "error"
    [] k = "done"    -> IF TerminalState(s) THEN s
                        ELSE IF s \in {"Running", "NotStarted"} THEN "wait" ELSE "error"

\* What a listener does on the status it finds: wait, or return
ListenCheck(k, s) ==
  CASE s = NoRow     -> "error"
    [] k = "events"  -> IF TerminalState(s) THEN "error" ELSE "wait"
    [] k = "cxl"     -> IF Running(s) THEN "wait"
                        ELSE IF s \in {"CancelRequested", "Cancelled"} THEN "ok" ELSE "error"
    [] k = "run"     -> IF Running(s) THEN "ok" ELSE IF s = "NotStarted" THEN "wait" ELSE "error"
    [] k = "done"    -> IF TerminalState(s) THEN s
                        ELSE IF s \in {"Running", "NotStarted"} THEN "wait" ELSE "error"

Decide(p, s) ==
  LET r == ListenCheck(kind(p), s) IN
    \/ r = "wait" /\ Goto(p, "register") /\ UNCHANGED res
    \/ r # "wait" /\ Return(p, r)

\* The status is read under RLock,
Check(p) ==
  /\ pc[p] = "check" /\ CanRLock
  /\ Decide(p, status)
  /\ UNCHANGED <<dataVars, listenVars, lockVars, call, queue, userVars>>

\* except that ListenForBuildRunning only looks the build up there
CheckExists(p) ==
  /\ pc[p] = "check" /\ CanRLock
  /\ \/ status = NoRow /\ Return(p, "error")
     \/ status # NoRow /\ Goto(p, "read") /\ UNCHANGED res
  /\ UNCHANGED <<dataVars, listenVars, lockVars, call, queue, userVars>>

\* and reads its status afterwards, through a pointer that stays valid if the
\* build is deleted meanwhile.
ReadStatus(p) ==
  /\ pc[p] = "read"
  /\ Decide(p, IF status = NoRow THEN deleted ELSE status)
  /\ UNCHANGED <<dataVars, listenVars, lockVars, call, queue, userVars>>

\* The channel is registered in a second critical section; the status is not
\* looked at again.
Register(p) ==
  /\ pc[p] = "register" /\ WithLock(p)
  /\ regs' = [regs EXCEPT ![kind(p)] = Append(@, p)]
  /\ missed' = IF ListenCheck(kind(p), status) = "wait" THEN missed ELSE missed \union {p}
  /\ Goto(p, "wait")
  /\ UNCHANGED <<dataVars, closed, heard, call, res, queue, userVars>>

\* Mutation: the channel is closed right away, while it is registered.
ContextCancelled_Closes(p) ==
  /\ pc[p] = "wait" /\ p \in ctxDone
  /\ Goto(p, "leave")
  /\ closed' = closed \union {p}
  /\ res' = [res EXCEPT ![p] = "error"]
  /\ UNCHANGED <<dataVars, regs, heard, missed, lockVars, call, queue, userVars>>

\* Mutation: the loop over the events does not look at the context.
ContextCancelled_NotEvents(p) ==
  /\ pc[p] = "wait" /\ p \in ctxDone /\ kind(p) # "events"
  /\ Goto(p, "leave")
  /\ res' = [res EXCEPT ![p] = "error"]
  /\ UNCHANGED <<dataVars, listenVars, lockVars, call, queue, userVars>>

\* ctx.Done in the select
ContextCancelled(p) ==
  /\ pc[p] = "wait" /\ p \in ctxDone
  /\ Goto(p, "leave")
  /\ res' = [res EXCEPT ![p] = "error"]
  /\ UNCHANGED <<dataVars, listenVars, lockVars, call, queue, userVars>>

\* The deferred clean-up removes the last channel, not its own,
RemoveLast(k) ==
  regs' = [regs EXCEPT ![k] = IF @ = <<>> THEN @ ELSE SubSeq(@, 1, Len(@) - 1)]

LeaveEvents(p) ==
  /\ pc[p] = "leave" /\ WithLock(p)
  /\ RemoveLast("events")
  /\ Goto(p, "returned")
  /\ UNCHANGED <<dataVars, closed, heard, missed, call, res, queue, userVars>>

\* Mutation: the clean-up deletes the whole list.
Leave_All(p) ==
  /\ pc[p] = "leave" /\ WithLock(p)
  /\ regs' = [regs EXCEPT ![kind(p)] = <<>>]
  /\ Goto(p, "returned")
  /\ UNCHANGED <<dataVars, closed, heard, missed, call, res, queue, userVars>>

\* and closes its own afterwards unless it found one channel only.
Leave(p) ==
  /\ pc[p] = "leave" /\ WithLock(p)
  /\ RemoveLast(kind(p))
  /\ Goto(p, IF Len(regs[kind(p)]) > 1 THEN "close" ELSE "returned")
  /\ UNCHANGED <<dataVars, closed, heard, missed, call, res, queue, userVars>>

Close(p) ==
  /\ pc[p] = "close"
  /\ closed' = closed \union {p}
  /\ Goto(p, "returned")
  /\ UNCHANGED <<dataVars, regs, heard, missed, lockVars, call, res, queue, userVars>>

\* The caller takes the event from the channel it gave to ListenForBuildEvents,
\* which has no buffer; until then the listener looks at nothing else.
Forward(p) ==
  /\ pc[p] = "forward" /\ p \notin stopped
  /\ heard' = [heard EXCEPT ![p] = @ + 1]
  /\ Goto(p, "wait")
  /\ UNCHANGED <<dataVars, regs, closed, missed, lockVars, call, res, queue, userVars>>

Listens(p, k) == call[p] = Listen(k)
WaitAndLeave(p) == Register(p) \/ ContextCancelled(p) \/ Leave(p) \/ Close(p)

ListenForBuildEvents(p) ==
  /\ Listens(p, "events")
  /\ Check(p) \/ Register(p) \/ Forward(p) \/ ContextCancelled(p) \/ LeaveEvents(p)
ListenForCancellation(p) == Listens(p, "cxl") /\ (Check(p) \/ WaitAndLeave(p))
ListenForBuildRunning(p) == Listens(p, "run") /\ (CheckExists(p) \/ ReadStatus(p) \/ WaitAndLeave(p))
ListenForBuildCompleted(p) == Listens(p, "done") /\ (Check(p) \/ WaitAndLeave(p))

-----------------------------------------------------------------------------
(* Steps of a notifier, and its four methods *)

\* AddEvent leaves the status alone and returns if there is no build.
WriteEvent(p) ==
  /\ pc[p] = "write" /\ WithLock(p)
  /\ \/ status = NoRow /\ Return(p, "ok")
     \/ status # NoRow /\ Goto(p, "range") /\ UNCHANGED res
  /\ UNCHANGED <<dataVars, listenVars, call, queue, userVars>>

WriteStatus(p) ==
  /\ pc[p] = "write" /\ WithLock(p)
  /\ status' = IF status = NoRow THEN NoRow ELSE call[p].status
  /\ Goto(p, "range")
  /\ UNCHANGED <<deleted, completed, apikey, listenVars, call, res, queue, userVars>>

\* RLock; the channels registered by now are gone through.
RangeListeners(p) ==
  /\ pc[p] = "range" /\ CanRLock
  /\ readers' = readers \union {p}
  /\ queue' = [queue EXCEPT ![p] = regs[kind(p)]]
  /\ Goto(p, "send")
  /\ UNCHANGED <<dataVars, listenVars, writers, call, res, userVars>>

\* The next listener; a send waits until it receives.
Receiver(p) == Head(queue[p])
Sending(p) ==
  /\ pc[p] = "send" /\ queue[p] # <<>>
  /\ queue' = [queue EXCEPT ![p] = Tail(@)]
  /\ UNCHANGED <<dataVars, regs, closed, missed, lockVars, call, userVars>>

\* The listener takes the event and passes it on.
SendEvent(p) ==
  /\ Sending(p) /\ pc[Receiver(p)] = "wait"
  /\ Goto(Receiver(p), "forward")
  /\ UNCHANGED <<res, heard>>

\* The listener returns, with the status if it waits for the completion.
SendSignal(p) ==
  /\ Sending(p) /\ Receiver(p) \notin closed /\ pc[Receiver(p)] = "wait"
  /\ Goto(Receiver(p), "leave")
  /\ res' = [res EXCEPT ![Receiver(p)] = IF kind(p) = "done" THEN call[p].status ELSE "ok"]
  /\ UNCHANGED heard

\* A send on a closed channel panics.
SendPanics(p) ==
  /\ Sending(p) /\ Receiver(p) \in closed
  /\ Goto(p, "panic")
  /\ UNCHANGED <<res, heard>>

\* Mutation: RUnlock is missing.
SendDone_KeepsRLock(p) ==
  /\ pc[p] = "send" /\ queue[p] = <<>>
  /\ Return(p, "ok")
  /\ UNCHANGED <<dataVars, listenVars, lockVars, call, queue, userVars>>

\* RUnlock
SendDone(p) ==
  /\ pc[p] = "send" /\ queue[p] = <<>>
  /\ readers' = readers \ {p}
  /\ Return(p, "ok")
  /\ UNCHANGED <<dataVars, listenVars, writers, call, queue, userVars>>

Notifies(p, k) == call[p].op = "notify" /\ kind(p) = k
SetAndSignal(p) ==
  WriteStatus(p) \/ RangeListeners(p) \/ SendSignal(p) \/ SendPanics(p) \/ SendDone(p)

AddEvent(p) ==
  Notifies(p, "events") /\ (WriteEvent(p) \/ RangeListeners(p) \/ SendEvent(p) \/ SendDone(p))
CancelBuild(p) == Notifies(p, "cxl") /\ SetAndSignal(p)
SetBuildAsRunning(p) == Notifies(p, "run") /\ SetAndSignal(p)
SetBuildAsCompleted(p) == Notifies(p, "done") /\ SetAndSignal(p)

FakeStep(p) ==
  \/ BlockOnLock(p)
  \/ CreateBuild(p) \/ UpdateBuild(p) \/ GetBuildByID(p) \/ UseAPIKey(p)
  \/ ListenForBuildEvents(p) \/ ListenForCancellation(p)
  \/ ListenForBuildRunning(p) \/ ListenForBuildCompleted(p)
  \/ AddEvent(p) \/ CancelBuild(p) \/ SetBuildAsRunning(p) \/ SetBuildAsCompleted(p)
==============================================================================
