----------------------------- MODULE MonitorBuild ----------------------------
(***************************************************************************)
(* The MonitorBuild RPC (pkg/grpc/grpc.go) and the data layer methods it   *)
(* uses: AddEvent, ListenForBuildEvents and ListenForBuildCompleted.  A    *)
(* call reads the build and streams the events it has, then runs three     *)
(* goroutines:                                                             *)
(*                                                                         *)
(*   call  the handler, which waits in ListenForBuildCompleted and then    *)
(*         cancels ctx and closes the channel events, in that order        *)
(*   lis   ListenForBuildEvents, which sends notifications on events; the  *)
(*         channel is unbuffered and the send does not look at ctx         *)
(*   rd    the reader of events, which sends on the gRPC stream            *)
(*                                                                         *)
(* Events are numbered per build by their place in the row.                *)
(***************************************************************************)
EXTENDS BuildStatus, ListenPool, Naturals

CONSTANTS Calls,     \* MonitorBuild calls at a time; one may follow another
          MaxEvents  \* bound on the events of a build

ASSUME MaxEventsAssumption == MaxEvents \in Nat
ASSUME NoOneAssumption == NoOne \notin Calls \X {"handler", "listener"}

VARIABLES status,    \* per build, builds.status
          events,    \* per build, the length of builds.events
          adding,    \* builds with an AddEvent between its check and its write
          of,        \* per call, its build
          call, lis, rd,
          ctx,       \* calls whose context is not yet cancelled
          hand,      \* per call, the payload the listener is sending, if any
          got,       \* per call, the payload the reader is handling, if any
          stream,    \* per call, what was sent on its gRPC stream
          panicked,  \* the server process has ended in a panic
          snap,      \* history: events at the first read of the call
          since,     \* history: events when its listener had registered
          fresh      \* history: calls whose listener got an unused connection

buildVars == <<status, events, adding>>
streamVars == <<hand, got, stream>>
history == <<snap, since, fresh>>
vars == <<buildVars, of, call, lis, rd, ctx, streamVars, panicked, history, poolVars>>

Handler(m) == <<m, "handler">>
Listener(m) == <<m, "listener">>

Event(b, n) == [build |-> b, event |-> n]
Done(b) == [build |-> b, event |-> 0]
Payloads == [build : Builds, event : 0..MaxEvents]
Notifications == [channel : Channels, payload : Payloads]
\* events i+1 .. j of b
Events(b, i, j) == [k \in 1..(j - i) |-> Event(b, i + k)]

CallPC == {"get", "acquire", "listen", "wait", "close", "returned"}
LisPC == {"none", "get", "acquire", "listen", "wait", "send", "off"}
RdPC == {"none", "recv", "send", "off"}
BuildStates == {"Running", "CancelRequested", "Success"}

\* Who acquires connections: the handler and the listener of a call
Users == Calls \X {"handler", "listener"}

CallTypeOK ==
  /\ status \in [Builds -> BuildStates]
  /\ events \in [Builds -> 0..MaxEvents]
  /\ adding \in SUBSET Builds
  /\ of \in [Calls -> Builds]
  /\ call \in [Calls -> CallPC]
  /\ lis \in [Calls -> LisPC]
  /\ rd \in [Calls -> RdPC]
  /\ ctx \in SUBSET Calls
  /\ hand \in [Calls -> Seq(Payloads)] /\ \A m \in Calls : Len(hand[m]) <= 1
  /\ got \in [Calls -> Seq(Payloads)] /\ \A m \in Calls : Len(got[m]) <= 1
  /\ stream \in [Calls -> Seq(Payloads)]
  /\ panicked \in BOOLEAN
  /\ snap \in [Calls -> 0..MaxEvents] /\ since \in [Calls -> 0..MaxEvents]
  /\ fresh \in SUBSET Calls

PoolTypeOK ==
  /\ holder \in [PoolConns -> Users \union {NoOne}]
  /\ channels \in [PoolConns -> SUBSET Channels]
  /\ queue \in [PoolConns -> Seq(Notifications)]

TypeOK == CallTypeOK /\ PoolTypeOK

Init ==
  /\ status = [b \in Builds |-> "Running"]
  /\ events = [b \in Builds |-> 0]
  /\ adding = {}
  /\ of \in [Calls -> Builds]
  /\ call = [m \in Calls |-> "returned"]
  /\ lis = [m \in Calls |-> "none"]
  /\ rd = [m \in Calls |-> "none"]
  /\ ctx = {}
  /\ hand = [m \in Calls |-> <<>>]
  /\ got = [m \in Calls |-> <<>>]
  /\ stream = [m \in Calls |-> <<>>]
  /\ panicked = FALSE
  /\ snap = [m \in Calls |-> 0]
  /\ since = [m \in Calls |-> 0]
  /\ fresh = {}
  /\ PoolInit

EventListenable(b) == ~TerminalState(status[b])
CanAddEvent(b) == EventListenable(b)

callVars == <<of, call, lis, rd, ctx, streamVars, panicked, history>>

-----------------------------------------------------------------------------
(* The processes that write the build *)

\* AddEvent reads the status ...
AddEventCheck(b) ==
  /\ CanAddEvent(b) /\ b \notin adding /\ events[b] < MaxEvents
  /\ adding' = adding \union {b}
  /\ UNCHANGED <<status, events, callVars, poolVars>>

\* ... and appends and notifies in a transaction that does not look at it.
AddEventCommit(b) ==
  /\ b \in adding
  /\ adding' = adding \ {b}
  /\ events' = [events EXCEPT ![b] = @ + 1]
  /\ Notify(<<"event", b>>, Event(b, events[b] + 1))
  /\ UNCHANGED <<status, callVars>>

SetBuildAsCompleted(b) ==
  /\ ~TerminalState(status[b])
  /\ status' = [status EXCEPT ![b] = "Success"]
  /\ Notify(<<"completed", b>>, Done(b))
  /\ UNCHANGED <<events, adding, callVars>>

CancelBuild(b) ==
  /\ Running(status[b])
  /\ status' = [status EXCEPT ![b] = "CancelRequested"]
  /\ UNCHANGED <<events, adding, callVars, poolVars>>

-----------------------------------------------------------------------------
(* The handler *)

CallGoto(m, pc) == call' = [call EXCEPT ![m] = pc]
handlerRest == <<buildVars, of, streamVars, panicked, history>>

\* The call is over and its goroutines have ended (or it never began).
Over(m) ==
  call[m] = "returned" /\ lis[m] \in {"none", "off"} /\ rd[m] \in {"none", "off"}

\* The build is read and its events are streamed.  A build that has ended is
\* reported and the call is over; otherwise the goroutines start.  (A call
\* that fails here leaves nothing behind.)
Monitor(m, b) ==
  /\ Over(m)
  /\ of' = [of EXCEPT ![m] = b]
  /\ snap' = [snap EXCEPT ![m] = events[b]]
  /\ since' = [since EXCEPT ![m] = 0]
  /\ fresh' = fresh \ {m}
  /\ hand' = [hand EXCEPT ![m] = <<>>]
  /\ IF TerminalState(status[b])
       THEN /\ stream' = [stream EXCEPT ![m] = Append(Events(b, 0, events[b]), Done(b))]
            /\ lis' = [lis EXCEPT ![m] = "none"]
            /\ rd' = [rd EXCEPT ![m] = "none"]
            /\ UNCHANGED <<call, ctx>>
       ELSE /\ stream' = [stream EXCEPT ![m] = Events(b, 0, events[b])]
            /\ CallGoto(m, "get")
            /\ lis' = [lis EXCEPT ![m] = "get"]
            /\ rd' = [rd EXCEPT ![m] = "recv"]
            /\ ctx' = ctx \union {m}
  /\ UNCHANGED <<buildVars, got, panicked, poolVars>>

\* ListenForBuildCompleted returned: its connection is released, and the
\* deferred cf() cancels ctx.
HandlerReturns(m) ==
  /\ CallGoto(m, "close")
  /\ ctx' = ctx \ {m}

\* ListenForBuildCompleted reads the build: it returns at once if the build
\* has ended, and with an error if a cancellation was requested.
CompletedGet(m) ==
  /\ call[m] = "get"
  /\ \/ Running(status[of[m]]) /\ CallGoto(m, "acquire") /\ UNCHANGED ctx
     \/ ~Running(status[of[m]]) /\ HandlerReturns(m)
  /\ UNCHANGED <<handlerRest, lis, rd, poolVars>>

CompletedAcquire(m, c) ==
  /\ call[m] = "acquire"
  /\ Acquire(Handler(m), c)
  /\ CallGoto(m, "listen")
  /\ UNCHANGED <<handlerRest, lis, rd, ctx>>

\* Mutation: the channel of the events is taken for that of the completion.
CompletedListen_Events(m) ==
  /\ call[m] = "listen"
  /\ Listen(Handler(m), <<"event", of[m]>>)
  /\ CallGoto(m, "wait")
  /\ UNCHANGED <<handlerRest, lis, rd, ctx>>

CompletedListen(m) ==
  /\ call[m] = "listen"
  /\ Listen(Handler(m), <<"completed", of[m]>>)
  /\ CallGoto(m, "wait")
  /\ UNCHANGED <<handlerRest, lis, rd, ctx>>

\* Any notification ends the wait; a payload that is no terminal status is an
\* error, which ends it too.
CompletedWait(m) ==
  /\ call[m] = "wait"
  /\ \E c \in Held(Handler(m)) :
       /\ queue[c] # <<>>
       /\ Dequeue(c)
       /\ holder' = Released(Handler(m))
  /\ HandlerReturns(m)
  /\ UNCHANGED <<handlerRest, lis, rd, channels>>

Listening == {"get", "acquire", "listen", "wait"}

\* The context of the stream ends, and ctx with it.
ClientGone(m) ==
  /\ call[m] \in Listening /\ m \in ctx
  /\ ctx' = ctx \ {m}
  /\ UNCHANGED <<handlerRest, call, lis, rd, poolVars>>

\* ctx was cancelled or the database failed: the handler returns an error.  A
\* cancelled wait gives the connection back to the pool as it is.
HandlerFails(m) ==
  /\ call[m] \in Listening
  /\ \/ m \notin ctx /\ Release(Handler(m))
     \/ Destroy(Handler(m))
  /\ HandlerReturns(m)
  /\ UNCHANGED <<handlerRest, lis, rd>>

\* The deferred close(events)
Close(m) ==
  /\ call[m] = "close"
  /\ CallGoto(m, "returned")
  /\ UNCHANGED <<handlerRest, lis, rd, ctx, poolVars>>

-----------------------------------------------------------------------------
(* The goroutine in ListenForBuildEvents *)

LisGoto(m, pc) == lis' = [lis EXCEPT ![m] = pc]
listenerRest == <<buildVars, of, call, rd, ctx, got, stream, snap>>

EventsGet(m) ==
  /\ lis[m] = "get"
  /\ LisGoto(m, IF EventListenable(of[m]) THEN "acquire" ELSE "off")
  /\ UNCHANGED <<listenerRest, hand, panicked, since, fresh, poolVars>>

EventsAcquire(m, c) ==
  /\ lis[m] = "acquire"
  /\ Acquire(Listener(m), c)
  /\ LisGoto(m, "listen")
  /\ fresh' = IF channels'[c] = {} THEN fresh \union {m} ELSE fresh
  /\ UNCHANGED <<listenerRest, hand, panicked, since>>

EventsListen(m) ==
  /\ lis[m] = "listen"
  /\ Listen(Listener(m), <<"event", of[m]>>)
  /\ LisGoto(m, "wait")
  /\ since' = [since EXCEPT ![m] = events[of[m]]]
  /\ UNCHANGED <<listenerRest, hand, panicked, fresh>>

EventsWait(m) ==
  /\ lis[m] = "wait"
  /\ \E c \in Held(Listener(m)) :
       /\ queue[c] # <<>>
       /\ hand' = [hand EXCEPT ![m] = <<Head(queue[c]).payload>>]
       /\ Dequeue(c)
  /\ LisGoto(m, "send")
  /\ UNCHANGED <<listenerRest, holder, channels, panicked, since, fresh>>

\* Mutation: the connection is not released.
EventsFail_NoRelease(m) ==
  /\ lis[m] \in Listening
  /\ LisGoto(m, "off")
  /\ UNCHANGED <<listenerRest, hand, panicked, since, fresh, poolVars>>

\* ctx was cancelled or the database failed, as above
EventsFail(m) ==
  /\ lis[m] \in Listening
  /\ \/ m \notin ctx /\ Release(Listener(m))
     \/ Destroy(Listener(m))
  /\ LisGoto(m, "off")
  /\ UNCHANGED <<listenerRest, hand, panicked, since, fresh>>

\* Mutation: the send does not wait for the reader.
Deliver_NotAwaited(m) ==
  /\ lis[m] = "send" /\ call[m] # "returned"
  /\ got' = [got EXCEPT ![m] = @ \o hand[m]]
  /\ hand' = [hand EXCEPT ![m] = <<>>]
  /\ LisGoto(m, "wait")
  /\ rd' = [rd EXCEPT ![m] = "send"]
  /\ UNCHANGED <<buildVars, of, call, ctx, stream, panicked, history, poolVars>>

\* c <- n.Payload meets the reader ...
Deliver(m) ==
  /\ lis[m] = "send" /\ rd[m] = "recv" /\ call[m] # "returned"
  /\ got' = [got EXCEPT ![m] = hand[m]]
  /\ hand' = [hand EXCEPT ![m] = <<>>]
  /\ LisGoto(m, "wait")
  /\ rd' = [rd EXCEPT ![m] = "send"]
  /\ UNCHANGED <<buildVars, of, call, ctx, stream, panicked, history, poolVars>>

\* ... or finds the channel closed.
SendOnClosed(m) ==
  /\ lis[m] = "send" /\ call[m] = "returned"
  /\ panicked' = TRUE
  /\ UNCHANGED <<buildVars, of, call, lis, rd, ctx, streamVars, history, poolVars>>

-----------------------------------------------------------------------------
(* The reader of events *)

readerRest == <<buildVars, of, call, lis, ctx, hand, panicked, history, poolVars>>

\* Mutation: an error of GetBuildByID skips the event.
ReaderSend_Skips(m) ==
  /\ rd[m] = "send"
  /\ \/ stream' = [stream EXCEPT ![m] = @ \o got[m]]
     \/ UNCHANGED stream
  /\ rd' = [rd EXCEPT ![m] = "recv"]
  /\ got' = [got EXCEPT ![m] = <<>>]
  /\ UNCHANGED readerRest

\* The build is read for its current state and the event is sent; an error of
\* either ends the goroutine.
ReaderSend(m) ==
  /\ rd[m] = "send"
  /\ \/ stream' = [stream EXCEPT ![m] = @ \o got[m]] /\ rd' = [rd EXCEPT ![m] = "recv"]
     \/ UNCHANGED stream /\ rd' = [rd EXCEPT ![m] = "off"]
  /\ got' = [got EXCEPT ![m] = <<>>]
  /\ UNCHANGED readerRest

ReaderEnds(m) ==
  /\ rd[m] = "recv" /\ call[m] = "returned"
  /\ rd' = [rd EXCEPT ![m] = "off"]
  /\ UNCHANGED <<readerRest, got, stream>>

-----------------------------------------------------------------------------
WriterStep(b) ==
  \/ AddEventCheck(b) \/ AddEventCommit(b)
  \/ SetBuildAsCompleted(b) \/ CancelBuild(b)

HandlerStep(m) ==
  \/ CompletedGet(m) \/ CompletedListen(m) \/ CompletedWait(m) \/ Close(m)
  \/ (m \notin ctx /\ HandlerFails(m))
  \/ \E c \in PoolConns : CompletedAcquire(m, c)

ListenerStep(m) ==
  \/ EventsGet(m) \/ EventsListen(m) \/ EventsWait(m) \/ SendOnClosed(m)
  \/ (m \notin ctx /\ EventsFail(m))
  \/ \E c \in PoolConns : EventsAcquire(m, c)

ReaderStep(m) == Deliver(m) \/ ReaderSend(m) \/ ReaderEnds(m)

Next ==
  /\ ~panicked
  /\ \/ \E b \in Builds : WriterStep(b)
     \/ \E m \in Calls :
          \/ \E b \in Builds : Monitor(m, b)
          \/ ClientGone(m) \/ HandlerStep(m) \/ HandlerFails(m)
          \/ ListenerStep(m) \/ EventsFail(m) \/ ReaderStep(m)

Spec == Init /\ [][Next]_vars

\* The goroutines of a call are scheduled; nobody has to write or to fail.
FairSpec ==
  /\ Spec
  /\ \A m \in Calls :
       /\ WF_vars(~panicked /\ HandlerStep(m))
       /\ WF_vars(~panicked /\ ListenerStep(m))
       /\ WF_vars(~panicked /\ ReaderStep(m))

-----------------------------------------------------------------------------
Contents(q) == [i \in 1..Len(q) |-> q[i].payload]

NothingLost(m) ==
  lis[m] \in {"wait", "send"} /\ m \in fresh /\ rd[m] # "off" =>
    \A c \in Held(Listener(m)) :
      stream[m] \o got[m] \o hand[m] \o Contents(queue[c])
        = Events(of[m], 0, snap[m]) \o Events(of[m], since[m], events[of[m]])

\* While MonitorBuild waits and its listener runs on an unused connection, its
\* stream together with what is in flight is exactly the events of the build
\* at its first read and those since LISTEN, each once and in order, whatever
\* AddEvent, other calls and the pool do meanwhile.
NoEventLost == \A m \in Calls : NothingLost(m)

\* A call of MonitorBuild that waits for a build which has not ended by then
\* hears of its end: only a completion between the read and the LISTEN of
\* ListenForBuildCompleted can leave it waiting.
CompletionEndsCall ==
  \A m \in Calls :
    (call[m] = "wait" /\ ~TerminalState(status[of[m]]))
      ~> (panicked \/ call[m] # "wait" \/ []~TerminalState(status[of[m]]))

\* A call of MonitorBuild that returned gives its connections back to the
\* pool and its goroutines end, unless one of them brings the server down.
CallFreesPool ==
  \A m \in Calls :
    (call[m] = "close")
      ~> (panicked \/ (Over(m) /\ Held(Handler(m)) = {} /\ Held(Listener(m)) = {}))

-----------------------------------------------------------------------------
(* Inductive strengthenings *)

\* Why TypeOK holds: an AddEvent that passed its check has room.
AddingInv == \A b \in adding : events[b] < MaxEvents

\* Who holds a connection: each call of ListenFor... one at most, and only
\* between its Acquire and its return.  Nothing arrives on a connection that
\* nobody listens on.
PoolInv ==
  /\ \A c, d \in PoolConns : holder[c] = holder[d] /\ holder[c] # NoOne => c = d
  /\ \A c \in PoolConns : channels[c] = {} => queue[c] = <<>>
  /\ \A m \in Calls : lis[m] \notin {"listen", "wait", "send"} => Held(Listener(m)) = {}
  /\ \A m \in Calls : call[m] \notin {"listen", "wait"} => Held(Handler(m)) = {}

\* Why NoEventLost holds: before its LISTEN nothing but the first read is on
\* the stream, a payload is at one place at a time, and a connection that was
\* unused hears of the events of the call and of nothing else.
BeforeListen(m) ==
  lis[m] \in {"get", "acquire", "listen"} =>
    /\ hand[m] = <<>> /\ rd[m] \in {"recv", "off"}
    /\ stream[m] = Events(of[m], 0, snap[m])
OnePlace(m) ==
  /\ lis[m] = "wait" => hand[m] = <<>>
  /\ rd[m] # "send" => got[m] = <<>>
HearsItsEvents(m) ==
  /\ lis[m] \in {"get", "acquire"} => m \notin fresh
  /\ lis[m] \in {"wait", "send"} => since[m] <= events[of[m]]
  /\ m \in fresh => \A c \in Held(Listener(m)) :
       /\ lis[m] = "listen" => channels[c] = {}
       /\ lis[m] \in {"wait", "send"} => channels[c] = {<<"event", of[m]>>}
EventsOf(m) == BeforeListen(m) /\ OnePlace(m) /\ HearsItsEvents(m) /\ NothingLost(m)
EventsInv == \A m \in Calls : EventsOf(m)

-----------------------------------------------------------------------------
\* grpc.go, MonitorBuild: "MonitorBuild streams events from a specified build":
\* every payload on the stream is of that build.
StreamsItsBuild ==
  \A m \in Calls : \A i \in DOMAIN stream[m] : stream[m][i].build = of[m]
==============================================================================
