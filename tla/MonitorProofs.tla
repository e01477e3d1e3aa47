---------------------------- MODULE MonitorProofs ----------------------------
(***************************************************************************)
(* Theorems about MonitorBuild, for any builds, calls, connections and     *)
(* numbers of events.                                                      *)
(***************************************************************************)
EXTENDS MonitorBuild, SequenceTheorems, TLAPS

-----------------------------------------------------------------------------
(* Sequences of events *)

\* A sequence given by its elements is a sequence.
LEMMA EventsType ==
  ASSUME NEW b \in Builds, NEW i \in 0..MaxEvents, NEW j \in 0..MaxEvents
  PROVE  Events(b, i, j) \in Seq(Payloads)
<1>1. CASE j < i
  <2>1. Events(b, i, j) = <<>>
    BY <1>1, MaxEventsAssumption DEF Events
  <2> QED BY <2>1
<1>2. CASE i <= j
  <2>1. j - i \in Nat
    BY <1>2, MaxEventsAssumption
  <2>2. \A k \in 1..(j - i) : Event(b, i + k) \in Payloads
    BY <1>2, MaxEventsAssumption DEF Event, Payloads
  <2>3. Events(b, i, j) \in [1..(j - i) -> Payloads]
    BY <2>2 DEF Events
  <2> QED BY <2>1, <2>3, SeqDef
<1> QED BY <1>1, <1>2, MaxEventsAssumption

\* No events, and one event more.
LEMMA NoEvents == ASSUME NEW b, NEW i \in Nat PROVE Events(b, i, i) = <<>>
BY DEF Events

LEMMA EventAdded ==
  ASSUME NEW b \in Builds, NEW i \in 0..MaxEvents, NEW j \in 0..MaxEvents,
         i <= j, j + 1 <= MaxEvents
  PROVE  Events(b, i, j + 1) = Events(b, i, j) \o <<Event(b, j + 1)>>
<1> DEFINE s == Events(b, i, j + 1)
           t == Events(b, i, j)
           e == Event(b, j + 1)
<1>1. j + 1 \in 0..MaxEvents /\ i \in Nat /\ j \in Nat
  BY MaxEventsAssumption
<1>2. s \in Seq(Payloads) /\ t \in Seq(Payloads)
  BY <1>1, EventsType
<1>3. e \in Payloads
  BY <1>1 DEF Event, Payloads
<1>4. Len(s) = j - i + 1 /\ Len(t) = j - i
  BY <1>1 DEF Events
<1>5. /\ Append(t, e) \in Seq(Payloads)
      /\ Len(Append(t, e)) = Len(t) + 1
      /\ \A k \in 1..Len(t) : Append(t, e)[k] = t[k]
      /\ Append(t, e)[Len(t) + 1] = e
  BY <1>2, <1>3, AppendProperties
<1>6. ASSUME NEW k \in 1..Len(s) PROVE s[k] = Append(t, e)[k]
  <2>1. s[k] = Event(b, i + k)
    BY <1>1, <1>4, <1>6 DEF Events
  <2>2. CASE k \in 1..Len(t)
    <3>1. t[k] = Event(b, i + k)
      BY <1>1, <1>4, <2>2 DEF Events
    <3> QED BY <2>1, <2>2, <3>1, <1>5
  <2>3. CASE k = Len(t) + 1
    <3>1. i + k = j + 1
      BY <1>1, <1>4, <2>3
    <3> QED BY <2>1, <2>3, <3>1, <1>5
  <2> HIDE DEF s, t
  <2> QED BY <1>1, <1>4, <1>6, <2>2, <2>3
<1> HIDE DEF s, t, e
<1>7. s = Append(t, e)
  BY <1>1, <1>2, <1>4, <1>5, <1>6, SeqEqual
<1> QED BY <1>2, <1>3, <1>7, AppendIsConcat DEF s, t, e

\* The payloads of a queue.
LEMMA ContentsType ==
  ASSUME NEW q \in Seq(Notifications)
  PROVE  /\ Contents(q) \in Seq(Payloads)
         /\ Len(Contents(q)) = Len(q)
         /\ \A i \in 1..Len(q) : Contents(q)[i] = q[i].payload
<1>1. Len(q) \in Nat /\ \A i \in 1..Len(q) : q[i] \in Notifications
  BY LenProperties, ElementOfSeq
<1>2. \A i \in 1..Len(q) : q[i].payload \in Payloads
  BY <1>1 DEF Notifications
<1>3. Contents(q) \in [1..Len(q) -> Payloads]
  BY <1>2 DEF Contents
<1>4. Contents(q) \in Seq(Payloads)
  BY <1>1, <1>3, SeqDef
<1> QED BY <1>1, <1>3, <1>4 DEF Contents

LEMMA ContentsAppend ==
  ASSUME NEW q \in Seq(Notifications), NEW n \in Notifications
  PROVE  Contents(Append(q, n)) = Contents(q) \o <<n.payload>>
<1> DEFINE r == Append(q, n)
           s == Contents(r)
           t == Append(Contents(q), n.payload)
<1>1. n.payload \in Payloads
  BY DEF Notifications
<1>2. /\ r \in Seq(Notifications) /\ Len(r) = Len(q) + 1
      /\ \A i \in 1..Len(q) : r[i] = q[i]
      /\ r[Len(q) + 1] = n
  BY AppendProperties
<1> HIDE DEF r
<1>3. /\ s \in Seq(Payloads) /\ Len(s) = Len(r)
      /\ \A i \in 1..Len(r) : s[i] = r[i].payload
  BY <1>2, ContentsType
<1>4. /\ Contents(q) \in Seq(Payloads) /\ Len(Contents(q)) = Len(q)
      /\ \A i \in 1..Len(q) : Contents(q)[i] = q[i].payload
  BY ContentsType
<1>5. /\ t \in Seq(Payloads) /\ Len(t) = Len(q) + 1
      /\ \A i \in 1..Len(q) : t[i] = Contents(q)[i]
      /\ t[Len(q) + 1] = n.payload
  BY <1>1, <1>4, AppendProperties
<1>6. Len(q) \in Nat
  BY LenProperties
<1> HIDE DEF s, t
<1>7. \A i \in 1..Len(s) : s[i] = t[i]
  BY <1>2, <1>3, <1>4, <1>5, <1>6
<1>8. s = t
  BY <1>2, <1>3, <1>5, <1>7, SeqEqual
<1> QED BY <1>1, <1>4, <1>8, AppendIsConcat DEF s, t, r

LEMMA ContentsHead ==
  ASSUME NEW q \in Seq(Notifications), q # <<>>
  PROVE  /\ Head(q).payload \in Payloads /\ Tail(q) \in Seq(Notifications)
         /\ <<Head(q).payload>> \o Contents(Tail(q)) = Contents(q)
<1> DEFINE h == <<Head(q).payload>>
           t == Contents(Tail(q))
           s == h \o t
<1>1. /\ Head(q) \in Notifications /\ Tail(q) \in Seq(Notifications)
      /\ Len(Tail(q)) = Len(q) - 1
      /\ \A i \in 1..Len(Tail(q)) : Tail(q)[i] = q[i + 1]
  BY HeadTailProperties
<1>2. Head(q).payload \in Payloads
  BY <1>1 DEF Notifications
<1>3. h \in Seq(Payloads) /\ Len(h) = 1 /\ h[1] = Head(q).payload
  BY <1>2
<1>4. /\ t \in Seq(Payloads) /\ Len(t) = Len(q) - 1
      /\ \A i \in 1..Len(t) : t[i] = Tail(q)[i].payload
  BY <1>1, ContentsType
<1>5. Head(q) = q[1] /\ Len(q) \in Nat \ {0}
  BY EmptySeq
<1> HIDE DEF h, t
<1>10. /\ s \in Seq(Payloads) /\ Len(s) = Len(h) + Len(t)
      /\ \A i \in 1..Len(h) + Len(t) : s[i] = IF i <= Len(h) THEN h[i] ELSE t[i - Len(h)]
  BY <1>3, <1>4, ConcatProperties
<1> HIDE DEF s
<1>6. /\ s \in Seq(Payloads) /\ Len(s) = Len(q)
      /\ \A i \in 1..Len(q) : s[i] = IF i <= 1 THEN h[i] ELSE t[i - 1]
  BY <1>10, <1>3, <1>4, <1>5
<1>7. /\ Contents(q) \in Seq(Payloads) /\ Len(Contents(q)) = Len(q)
      /\ \A i \in 1..Len(q) : Contents(q)[i] = q[i].payload
  BY ContentsType
<1>8. ASSUME NEW i \in 1..Len(q) PROVE s[i] = Contents(q)[i]
  <2>1. CASE i = 1
    BY <2>1, <1>3, <1>5, <1>6, <1>7
  <2>2. CASE i > 1
    <3>1. i - 1 \in 1..Len(t) /\ (i - 1) + 1 = i
      BY <2>2, <1>4, <1>5
    <3>2. s[i] = Tail(q)[i - 1].payload
      BY <2>2, <3>1, <1>4, <1>6
    <3>3. Tail(q)[i - 1] = q[i]
      BY <3>1, <1>1, <1>4
    <3> QED BY <3>2, <3>3, <1>7
  <2> QED BY <2>1, <2>2, <1>5
<1>9. s = Contents(q)
  BY <1>6, <1>7, <1>8, SeqEqual
<1> QED BY <1>1, <1>2, <1>9 DEF s, h, t

-----------------------------------------------------------------------------
(* Types *)

\* What each operation of the pool keeps.
LEMMA AcquireType ==
  ASSUME PoolTypeOK, NEW u \in Users, NEW c \in PoolConns, Acquire(u, c)
  PROVE  PoolTypeOK'
<1>1. holder' \in [PoolConns -> Users \union {NoOne}]
  BY DEF PoolTypeOK, Acquire
<1>2. channels' \in [PoolConns -> SUBSET Channels]
  <2>1. channels' = channels \/ channels' = [channels EXCEPT ![c] = {}]
    BY DEF Acquire
  <2>2. {} \in SUBSET Channels
    OBVIOUS
  <2> QED BY <2>1, <2>2 DEF PoolTypeOK
<1>3. queue' \in [PoolConns -> Seq(Notifications)]
  <2>1. queue' = queue \/ queue' = [queue EXCEPT ![c] = <<>>]
    BY DEF Acquire
  <2>2. <<>> \in Seq(Notifications)
    OBVIOUS
  <2> QED BY <2>1, <2>2 DEF PoolTypeOK
<1> QED BY <1>1, <1>2, <1>3 DEF PoolTypeOK

LEMMA ReleasedType ==
  ASSUME PoolTypeOK, NEW u
  PROVE  Released(u) \in [PoolConns -> Users \union {NoOne}]
BY DEF PoolTypeOK, Released

LEMMA ReleaseType ==
  ASSUME PoolTypeOK, NEW u, Release(u)
  PROVE  PoolTypeOK'
BY ReleasedType DEF PoolTypeOK, Release

LEMMA DestroyType ==
  ASSUME PoolTypeOK, NEW u, Destroy(u)
  PROVE  PoolTypeOK'
<1>1. channels' \in [PoolConns -> SUBSET Channels]
  BY DEF PoolTypeOK, Destroy
<1>2. queue' \in [PoolConns -> Seq(Notifications)]
  <2>1. <<>> \in Seq(Notifications)
    OBVIOUS
  <2> QED BY <2>1 DEF PoolTypeOK, Destroy
<1> QED BY <1>1, <1>2, ReleasedType DEF PoolTypeOK, Destroy

LEMMA ListenType ==
  ASSUME PoolTypeOK, NEW u, NEW ch \in Channels, Listen(u, ch)
  PROVE  PoolTypeOK'
<1>1. \A c \in PoolConns : channels[c] \union {ch} \in SUBSET Channels
  BY DEF PoolTypeOK
<1>2. channels' \in [PoolConns -> SUBSET Channels]
  BY <1>1 DEF PoolTypeOK, Listen
<1> QED BY <1>2 DEF PoolTypeOK, Listen

LEMMA NotifyType ==
  ASSUME PoolTypeOK, NEW ch \in Channels, NEW x \in Payloads, Notify(ch, x)
  PROVE  PoolTypeOK'
<1>1. [channel |-> ch, payload |-> x] \in Notifications
  BY DEF Notifications
<1>2. \A c \in PoolConns :
        Append(queue[c], [channel |-> ch, payload |-> x]) \in Seq(Notifications)
  BY <1>1, AppendProperties DEF PoolTypeOK
<1>3. queue' \in [PoolConns -> Seq(Notifications)]
  BY <1>2 DEF PoolTypeOK, Notify
<1> QED BY <1>3 DEF PoolTypeOK, Notify

LEMMA DequeueType ==
  ASSUME PoolTypeOK, NEW c \in PoolConns, queue[c] # <<>>, Dequeue(c)
  PROVE  queue' \in [PoolConns -> Seq(Notifications)]
<1>1. Tail(queue[c]) \in Seq(Notifications)
  BY HeadTailProperties DEF PoolTypeOK
<1> QED BY <1>1 DEF PoolTypeOK, Dequeue

LEMMA PoolUnchanged == PoolTypeOK /\ UNCHANGED poolVars => PoolTypeOK'
BY DEF PoolTypeOK, poolVars

\* What a step may do to the sequences of a call.
LEMMA SeqUpdate ==
  ASSUME NEW f \in [Calls -> Seq(Payloads)], NEW m \in Calls, NEW s \in Seq(Payloads)
  PROVE  [f EXCEPT ![m] = s] \in [Calls -> Seq(Payloads)]
OBVIOUS

\* Every channel of a build and every payload about it is one of the model's.
LEMMA ChannelTypes ==
  ASSUME NEW b \in Builds
  PROVE  /\ <<"event", b>> \in Channels /\ <<"completed", b>> \in Channels
         /\ \A n \in 0..MaxEvents : Event(b, n) \in Payloads
         /\ Done(b) \in Payloads
BY MaxEventsAssumption DEF Channels, Event, Done, Payloads

LEMMA WriterType ==
  ASSUME TypeOK, AddingInv, NEW b \in Builds, WriterStep(b)
  PROVE  TypeOK' /\ AddingInv'
<1> USE DEF TypeOK
<1>1. CASE AddEventCheck(b)
  <2>1. PoolTypeOK'
    BY <1>1, PoolUnchanged DEF AddEventCheck
  <2>2. CallTypeOK'
    BY <1>1 DEF AddEventCheck, CallTypeOK, callVars, streamVars, history
  <2>3. AddingInv'
    BY <1>1 DEF AddEventCheck, AddingInv
  <2> QED BY <2>1, <2>2, <2>3
<1>2. CASE AddEventCommit(b)
  <2>1. events[b] + 1 \in 0..MaxEvents
    BY <1>2, MaxEventsAssumption DEF AddEventCommit, AddingInv, CallTypeOK
  <2>2. PoolTypeOK'
    BY <1>2, <2>1, ChannelTypes, NotifyType DEF AddEventCommit
  <2>3. CallTypeOK'
    BY <1>2, <2>1 DEF AddEventCommit, CallTypeOK, callVars, streamVars, history
  <2>4. AddingInv'
    BY <1>2 DEF AddEventCommit, AddingInv, CallTypeOK
  <2> QED BY <2>2, <2>3, <2>4
<1>3. CASE SetBuildAsCompleted(b)
  <2>1. PoolTypeOK'
    BY <1>3, ChannelTypes, NotifyType DEF SetBuildAsCompleted
  <2>2. CallTypeOK'
    BY <1>3 DEF SetBuildAsCompleted, CallTypeOK, BuildStates, callVars, streamVars, history
  <2>3. AddingInv'
    BY <1>3 DEF SetBuildAsCompleted, AddingInv
  <2> QED BY <2>1, <2>2, <2>3
<1>4. CASE CancelBuild(b)
  <2>1. PoolTypeOK'
    BY <1>4, PoolUnchanged DEF CancelBuild
  <2>2. CallTypeOK'
    BY <1>4 DEF CancelBuild, CallTypeOK, BuildStates, callVars, streamVars, history
  <2>3. AddingInv'
    BY <1>4 DEF CancelBuild, AddingInv
  <2> QED BY <2>1, <2>2, <2>3
<1> QED BY <1>1, <1>2, <1>3, <1>4 DEF WriterStep

LEMMA MonitorType ==
  ASSUME TypeOK, NEW m \in Calls, NEW b \in Builds, Monitor(m, b)
  PROVE  TypeOK'
<1>1. PoolTypeOK'
  BY PoolUnchanged DEF Monitor, TypeOK
<1>2. events[b] \in 0..MaxEvents /\ 0 \in 0..MaxEvents
  BY MaxEventsAssumption DEF TypeOK, CallTypeOK
<1>3. Events(b, 0, events[b]) \in Seq(Payloads)
  BY <1>2, EventsType
<1>4. Append(Events(b, 0, events[b]), Done(b)) \in Seq(Payloads)
  BY <1>3, ChannelTypes, AppendProperties
<1>5. stream' \in [Calls -> Seq(Payloads)]
  <2>1. \/ stream' = [stream EXCEPT ![m] = Append(Events(b, 0, events[b]), Done(b))]
        \/ stream' = [stream EXCEPT ![m] = Events(b, 0, events[b])]
    BY DEF Monitor
  <2> QED BY <2>1, <1>3, <1>4, SeqUpdate DEF TypeOK, CallTypeOK
<1>6. hand' \in [Calls -> Seq(Payloads)] /\ \A n \in Calls : Len(hand'[n]) <= 1
  BY DEF Monitor, TypeOK, CallTypeOK
<1>7. /\ call' \in [Calls -> CallPC] /\ lis' \in [Calls -> LisPC]
      /\ rd' \in [Calls -> RdPC] /\ ctx' \in SUBSET Calls
  <2>1. /\ call' \in {call, [call EXCEPT ![m] = "get"]}
        /\ lis' \in {[lis EXCEPT ![m] = "none"], [lis EXCEPT ![m] = "get"]}
        /\ rd' \in {[rd EXCEPT ![m] = "none"], [rd EXCEPT ![m] = "recv"]}
        /\ ctx' \in {ctx, ctx \union {m}}
    BY DEF Monitor, CallGoto
  <2> QED BY <2>1 DEF TypeOK, CallTypeOK, CallPC, LisPC, RdPC
<1>8. /\ of' \in [Calls -> Builds] /\ fresh' \in SUBSET Calls
      /\ snap' \in [Calls -> 0..MaxEvents] /\ since' \in [Calls -> 0..MaxEvents]
  BY <1>2 DEF Monitor, TypeOK, CallTypeOK
<1>9. CallTypeOK'
  BY <1>5, <1>6, <1>7, <1>8 DEF Monitor, TypeOK, CallTypeOK, buildVars
<1> QED BY <1>1, <1>9 DEF TypeOK

LEMMA HandlerUser ==
  ASSUME NEW m \in Calls
  PROVE  Handler(m) \in Users /\ Listener(m) \in Users
BY DEF Handler, Listener, Users

LEMMA HandlerType ==
  ASSUME TypeOK, NEW m \in Calls,
         ClientGone(m) \/ HandlerStep(m) \/ HandlerFails(m)
  PROVE  TypeOK'
<1> USE DEF TypeOK
<1>1. CASE ClientGone(m) \/ CompletedGet(m) \/ Close(m)
  <2>1. PoolTypeOK'
    BY <1>1, PoolUnchanged DEF ClientGone, CompletedGet, Close
  <2>2. CallTypeOK'
    BY <1>1 DEF ClientGone, CompletedGet, Close, HandlerReturns, CallGoto, CallPC, CallTypeOK,
       handlerRest, buildVars, streamVars, history
  <2> QED BY <2>1, <2>2
<1>2. ASSUME NEW c \in PoolConns, CompletedAcquire(m, c) PROVE TypeOK'
  <2>1. PoolTypeOK'
    BY <1>2, AcquireType, HandlerUser DEF CompletedAcquire
  <2>2. CallTypeOK'
    BY <1>2 DEF CompletedAcquire, CallGoto, CallPC, CallTypeOK,
       handlerRest, buildVars, streamVars, history
  <2> QED BY <2>1, <2>2
<1>3. CASE CompletedListen(m)
  <2>1. <<"completed", of[m]>> \in Channels
    BY ChannelTypes DEF CallTypeOK
  <2>2. PoolTypeOK'
    BY <1>3, <2>1, ListenType DEF CompletedListen
  <2>3. CallTypeOK'
    BY <1>3 DEF CompletedListen, CallGoto, CallPC, CallTypeOK,
       handlerRest, buildVars, streamVars, history
  <2> QED BY <2>2, <2>3
<1>4. CASE CompletedWait(m)
  <2>1. PICK c \in PoolConns : queue[c] # <<>> /\ Dequeue(c) /\ holder' = Released(Handler(m))
    BY <1>4 DEF CompletedWait, Held
  <2>2. PoolTypeOK'
    BY <1>4, <2>1, DequeueType, ReleasedType DEF CompletedWait, PoolTypeOK
  <2>3. CallTypeOK'
    BY <1>4 DEF CompletedWait, HandlerReturns, CallGoto, CallPC, CallTypeOK,
       handlerRest, buildVars, streamVars, history
  <2> QED BY <2>2, <2>3
<1>5. CASE HandlerFails(m)
  <2>1. PoolTypeOK'
    BY <1>5, ReleaseType, DestroyType DEF HandlerFails
  <2>2. CallTypeOK'
    BY <1>5 DEF HandlerFails, HandlerReturns, CallGoto, CallPC, CallTypeOK,
       handlerRest, buildVars, streamVars, history
  <2> QED BY <2>1, <2>2
<1> QED BY <1>1, <1>2, <1>3, <1>4, <1>5 DEF HandlerStep

LEMMA ListenerType ==
  ASSUME TypeOK, NEW m \in Calls, ListenerStep(m) \/ EventsFail(m)
  PROVE  TypeOK'
<1> USE DEF TypeOK
<1>1. CASE EventsGet(m) \/ SendOnClosed(m)
  <2>1. PoolTypeOK'
    BY <1>1, PoolUnchanged DEF EventsGet, SendOnClosed
  <2>2. lis' \in [Calls -> LisPC] /\ panicked' \in BOOLEAN
    BY <1>1 DEF EventsGet, SendOnClosed, LisGoto, LisPC, CallTypeOK
  <2>3. CallTypeOK'
    BY <1>1, <2>2 DEF EventsGet, SendOnClosed, CallTypeOK, listenerRest, buildVars,
       streamVars, history
  <2> QED BY <2>1, <2>3
<1>2. ASSUME NEW c \in PoolConns, EventsAcquire(m, c) PROVE TypeOK'
  <2>1. PoolTypeOK'
    BY <1>2, AcquireType, HandlerUser DEF EventsAcquire
  <2>2. fresh' \in SUBSET Calls
    BY <1>2 DEF EventsAcquire, CallTypeOK
  <2>3. CallTypeOK'
    BY <1>2, <2>2 DEF EventsAcquire, LisGoto, LisPC, CallTypeOK, listenerRest, buildVars
  <2> QED BY <2>1, <2>3
<1>3. CASE EventsListen(m)
  <2>1. <<"event", of[m]>> \in Channels /\ events[of[m]] \in 0..MaxEvents
    BY ChannelTypes DEF CallTypeOK
  <2>2. PoolTypeOK'
    BY <1>3, <2>1, ListenType DEF EventsListen
  <2>3. CallTypeOK'
    BY <1>3, <2>1 DEF EventsListen, LisGoto, LisPC, CallTypeOK, listenerRest, buildVars
  <2> QED BY <2>2, <2>3
<1>4. CASE EventsWait(m)
  <2>1. PICK c \in PoolConns :
          /\ queue[c] # <<>> /\ Dequeue(c)
          /\ hand' = [hand EXCEPT ![m] = <<Head(queue[c]).payload>>]
    BY <1>4 DEF EventsWait, Held
  <2>2. Head(queue[c]).payload \in Payloads
    BY <2>1, ContentsHead DEF PoolTypeOK
  <2>3. PoolTypeOK'
    BY <1>4, <2>1, DequeueType DEF EventsWait, PoolTypeOK
  <2>4. hand' \in [Calls -> Seq(Payloads)] /\ \A n \in Calls : Len(hand'[n]) <= 1
    BY <2>1, <2>2, SeqUpdate DEF CallTypeOK
  <2>5. CallTypeOK'
    BY <1>4, <2>4 DEF EventsWait, LisGoto, LisPC, CallTypeOK, listenerRest, buildVars
  <2> QED BY <2>3, <2>5
<1>5. CASE EventsFail(m)
  <2>1. PoolTypeOK'
    BY <1>5, ReleaseType, DestroyType DEF EventsFail
  <2>2. CallTypeOK'
    BY <1>5 DEF EventsFail, LisGoto, LisPC, CallTypeOK, listenerRest, buildVars
  <2> QED BY <2>1, <2>2
<1> QED BY <1>1, <1>2, <1>3, <1>4, <1>5 DEF ListenerStep

LEMMA ReaderType ==
  ASSUME TypeOK, NEW m \in Calls, ReaderStep(m)
  PROVE  TypeOK'
<1> USE DEF TypeOK
<1>1. CASE Deliver(m)
  <2>1. PoolTypeOK'
    BY <1>1, PoolUnchanged DEF Deliver
  <2>2. /\ hand' \in [Calls -> Seq(Payloads)] /\ \A n \in Calls : Len(hand'[n]) <= 1
        /\ got' \in [Calls -> Seq(Payloads)] /\ \A n \in Calls : Len(got'[n]) <= 1
    BY <1>1 DEF Deliver, CallTypeOK
  <2>3. CallTypeOK'
    BY <1>1, <2>2 DEF Deliver, LisGoto, LisPC, RdPC, CallTypeOK, buildVars, history
  <2> QED BY <2>1, <2>3
<1>2. CASE ReaderSend(m)
  <2>1. PoolTypeOK'
    BY <1>2, PoolUnchanged DEF ReaderSend, readerRest
  <2>2. stream[m] \o got[m] \in Seq(Payloads)
    BY ConcatProperties DEF CallTypeOK
  <2>3. stream' \in [Calls -> Seq(Payloads)]
    BY <1>2, <2>2, SeqUpdate DEF ReaderSend, CallTypeOK
  <2>4. got' \in [Calls -> Seq(Payloads)] /\ \A n \in Calls : Len(got'[n]) <= 1
    BY <1>2 DEF ReaderSend, CallTypeOK
  <2>5. CallTypeOK'
    BY <1>2, <2>3, <2>4 DEF ReaderSend, RdPC, CallTypeOK, readerRest, buildVars, history
  <2> QED BY <2>1, <2>5
<1>3. CASE ReaderEnds(m)
  <2>1. PoolTypeOK'
    BY <1>3, PoolUnchanged DEF ReaderEnds, readerRest
  <2>2. CallTypeOK'
    BY <1>3 DEF ReaderEnds, RdPC, CallTypeOK, readerRest, buildVars, history
  <2> QED BY <2>1, <2>2
<1> QED BY <1>1, <1>2, <1>3 DEF ReaderStep

\* Calls leave the builds alone.
LEMMA BuildsUnchanged ==
  ASSUME NEW m \in Calls,
         \/ \E b \in Builds : Monitor(m, b)
         \/ ClientGone(m) \/ HandlerStep(m) \/ HandlerFails(m)
         \/ ListenerStep(m) \/ EventsFail(m) \/ ReaderStep(m)
  PROVE  UNCHANGED buildVars
BY DEF Monitor, ClientGone, HandlerStep, HandlerFails, ListenerStep, EventsFail, ReaderStep,
   CompletedGet, CompletedAcquire, CompletedListen, CompletedWait, Close, handlerRest,
   EventsGet, EventsAcquire, EventsListen, EventsWait, SendOnClosed, listenerRest,
   Deliver, ReaderSend, ReaderEnds, readerRest

\* Every variable of MonitorBuild keeps its type, and no build gets more than
\* MaxEvents events.
LEMMA MonitorTypes == Spec => [](TypeOK /\ AddingInv)
<1>1. Init => TypeOK /\ AddingInv
  <2> SUFFICES ASSUME Init PROVE TypeOK /\ AddingInv
    OBVIOUS
  <2>1. PoolTypeOK
    BY DEF Init, PoolInit, PoolTypeOK
  <2>2. panicked \in BOOLEAN
    BY DEF Init
  <2>3. /\ hand \in [Calls -> Seq(Payloads)] /\ \A m \in Calls : Len(hand[m]) <= 1
        /\ got \in [Calls -> Seq(Payloads)] /\ \A m \in Calls : Len(got[m]) <= 1
        /\ stream \in [Calls -> Seq(Payloads)]
    BY DEF Init
  <2>4. CallTypeOK
    BY <2>2, <2>3, MaxEventsAssumption
    DEF Init, CallTypeOK, BuildStates, CallPC, LisPC, RdPC
  <2> QED BY <2>1, <2>4 DEF Init, TypeOK, AddingInv
<1>2. TypeOK /\ AddingInv /\ [Next]_vars => TypeOK' /\ AddingInv'
  <2> SUFFICES ASSUME TypeOK, AddingInv, [Next]_vars PROVE TypeOK' /\ AddingInv'
    OBVIOUS
  <2>1. CASE UNCHANGED vars
    BY <2>1 DEF vars, buildVars, streamVars, history, poolVars, TypeOK, CallTypeOK,
       PoolTypeOK, AddingInv
  <2>2. ASSUME NEW b \in Builds, WriterStep(b) PROVE TypeOK' /\ AddingInv'
    BY <2>2, WriterType
  <2>3. ASSUME NEW m \in Calls,
               \/ \E b \in Builds : Monitor(m, b)
               \/ ClientGone(m) \/ HandlerStep(m) \/ HandlerFails(m)
               \/ ListenerStep(m) \/ EventsFail(m) \/ ReaderStep(m)
        PROVE  TypeOK' /\ AddingInv'
    <3>1. AddingInv'
      BY <2>3, BuildsUnchanged DEF buildVars, AddingInv
    <3> QED BY <2>3, <3>1, MonitorType, HandlerType, ListenerType, ReaderType
  <2> QED BY <2>1, <2>2, <2>3 DEF Next
<1> QED BY <1>1, <1>2, PTL DEF Spec

\* Every variable of MonitorBuild, its listener, its reader and the connection
\* pool keeps its type, for any calls, builds and connections.
THEOREM MonitorTypeCorrect == Spec => []TypeOK
BY MonitorTypes, PTL

-----------------------------------------------------------------------------
(* Connections and who holds them *)

OneEach == \A c, d \in PoolConns : holder[c] = holder[d] /\ holder[c] # NoOne => c = d
Quiet == \A c \in PoolConns : channels[c] = {} => queue[c] = <<>>

\* A user's connections stay as they are.
SameConns(v) ==
  /\ Held(v)' = Held(v)
  /\ \A c \in Held(v) : channels'[c] = channels[c] /\ queue'[c] = queue[c]

\* What each operation of the pool does to the connections of its user, and
\* that it leaves those of the others alone.
LEMMA AcquireEffect ==
  ASSUME PoolTypeOK, OneEach, Quiet, NEW u \in Users, NEW c \in PoolConns, Acquire(u, c),
         Held(u) = {}
  PROVE  /\ OneEach' /\ Quiet' /\ Held(u)' = {c}
         /\ \A v \in Users : v # u => SameConns(v)
<1>1. /\ holder[c] = NoOne /\ holder' = [holder EXCEPT ![c] = u]
      /\ \/ UNCHANGED <<channels, queue>>
         \/ /\ channels' = [channels EXCEPT ![c] = {}]
            /\ queue' = [queue EXCEPT ![c] = <<>>]
  BY DEF Acquire
<1>2. \A d \in PoolConns : holder[d] # u
  BY DEF Held
<1>3. NoOne \notin Users
  BY NoOneAssumption DEF Users
<1>4. OneEach'
  BY <1>1, <1>2 DEF OneEach, PoolTypeOK
<1>5. Quiet'
  BY <1>1 DEF Quiet, PoolTypeOK
<1>6. Held(u)' = {c}
  BY <1>1, <1>2 DEF Held, PoolTypeOK
<1>7. ASSUME NEW v \in Users, v # u PROVE SameConns(v)
  BY <1>1, <1>3, <1>7 DEF SameConns, Held, PoolTypeOK
<1> QED BY <1>4, <1>5, <1>6, <1>7

LEMMA ReleaseEffect ==
  ASSUME PoolTypeOK, OneEach, Quiet, NEW u \in Users, Release(u) \/ Destroy(u)
  PROVE  /\ OneEach' /\ Quiet' /\ Held(u)' = {}
         /\ \A v \in Users : v # u => SameConns(v)
<1>1. /\ holder' = [c \in PoolConns |-> IF holder[c] = u THEN NoOne ELSE holder[c]]
      /\ \A c \in PoolConns :
           \/ channels'[c] = channels[c] /\ queue'[c] = queue[c]
           \/ holder[c] = u /\ channels'[c] = {} /\ queue'[c] = <<>>
  BY DEF Release, Destroy, Released
<1>2. NoOne \notin Users
  BY NoOneAssumption DEF Users
<1>3. OneEach'
  BY <1>1 DEF OneEach
<1>4. Quiet'
  BY <1>1 DEF Quiet
<1>5. Held(u)' = {}
  BY <1>1, <1>2 DEF Held
<1>6. ASSUME NEW v \in Users, v # u PROVE SameConns(v)
  BY <1>1, <1>2, <1>6 DEF SameConns, Held
<1> QED BY <1>3, <1>4, <1>5, <1>6

LEMMA ListenEffect ==
  ASSUME PoolTypeOK, OneEach, Quiet, NEW u \in Users, NEW ch, Listen(u, ch)
  PROVE  /\ OneEach' /\ Quiet' /\ Held(u)' = Held(u)
         /\ \A c \in Held(u) : channels'[c] = channels[c] \union {ch} /\ queue'[c] = queue[c]
         /\ \A v \in Users : v # u => SameConns(v)
<1>1. /\ \A c \in PoolConns :
           channels'[c] = IF holder[c] = u THEN channels[c] \union {ch} ELSE channels[c]
      /\ holder' = holder /\ queue' = queue
  BY DEF Listen
<1>2. OneEach'
  BY <1>1 DEF OneEach
<1>3. Quiet'
  BY <1>1 DEF Quiet
<1>4. \A v : Held(v)' = Held(v)
  BY <1>1 DEF Held
<1>5. ASSUME NEW v \in Users, v # u PROVE SameConns(v)
  BY <1>1, <1>4, <1>5 DEF SameConns, Held
<1> QED BY <1>1, <1>2, <1>3, <1>4, <1>5 DEF Held

LEMMA NotifyEffect ==
  ASSUME PoolTypeOK, OneEach, Quiet, NEW ch, NEW x, Notify(ch, x)
  PROVE  /\ OneEach' /\ Quiet' /\ \A v : Held(v)' = Held(v)
         /\ channels' = channels
         /\ \A c \in PoolConns :
              /\ ch \notin channels[c] => queue'[c] = queue[c]
              /\ ch \in channels[c] =>
                   queue'[c] = Append(queue[c], [channel |-> ch, payload |-> x])
<1>1. /\ \A c \in PoolConns :
           queue'[c] = IF ch \in channels[c]
                         THEN Append(queue[c], [channel |-> ch, payload |-> x])
                         ELSE queue[c]
      /\ holder' = holder /\ channels' = channels
  BY DEF Notify
<1>2. OneEach'
  BY <1>1 DEF OneEach
<1>3. Quiet'
  BY <1>1 DEF Quiet
<1>4. \A v : Held(v)' = Held(v)
  BY <1>1 DEF Held
<1> QED BY <1>1, <1>2, <1>3, <1>4

LEMMA DequeueEffect ==
  ASSUME PoolTypeOK, OneEach, Quiet, NEW u \in Users, NEW c \in Held(u), queue[c] # <<>>,
         Dequeue(c), channels' = channels, holder' \in {holder, Released(u)}
  PROVE  /\ OneEach' /\ Quiet' /\ queue'[c] = Tail(queue[c])
         /\ holder' = holder => Held(u) = {c} /\ Held(u)' = Held(u)
         /\ holder' = Released(u) => Held(u)' = {}
         /\ \A v \in Users : v # u => SameConns(v)
<1>1. c \in PoolConns /\ holder[c] = u
  BY DEF Held
<1>2. queue' = [queue EXCEPT ![c] = Tail(queue[c])]
  BY DEF Dequeue
<1>3. NoOne \notin Users
  BY NoOneAssumption DEF Users
<1>4. OneEach'
  BY DEF OneEach, Released
<1>5. Quiet'
  BY <1>1, <1>2 DEF Quiet, PoolTypeOK
<1>6. holder' = holder => Held(u) = {c} /\ Held(u)' = Held(u)
  BY <1>1, <1>3 DEF OneEach, Held
<1>7. holder' = Released(u) => Held(u)' = {}
  BY <1>3 DEF Released, Held
<1>8. ASSUME NEW v \in Users, v # u PROVE SameConns(v)
  BY <1>1, <1>2, <1>3, <1>8 DEF SameConns, Held, Released, PoolTypeOK
<1> QED BY <1>1, <1>2, <1>4, <1>5, <1>6, <1>7, <1>8 DEF PoolTypeOK

\* The handler and the listener of any two calls are different users.
LEMMA UsersDiffer ==
  ASSUME NEW m \in Calls, NEW n \in Calls
  PROVE  /\ Handler(m) # Listener(n)
         /\ m # n => Handler(m) # Handler(n) /\ Listener(m) # Listener(n)
BY DEF Handler, Listener

ListenerHolds(m) == lis[m] \notin {"listen", "wait", "send"} => Held(Listener(m)) = {}
HandlerHolds(m) == call[m] \notin {"listen", "wait"} => Held(Handler(m)) = {}

LEMMA PoolParts ==
  PoolInv <=> /\ OneEach /\ Quiet
              /\ \A m \in Calls : ListenerHolds(m) /\ HandlerHolds(m)
BY DEF PoolInv, OneEach, Quiet, ListenerHolds, HandlerHolds

\* A step of a handler, as the pool and the other goroutines see it.
LEMMA HandlerPool ==
  ASSUME TypeOK, PoolInv, NEW m \in Calls,
         ClientGone(m) \/ HandlerStep(m) \/ HandlerFails(m)
  PROVE  /\ OneEach' /\ Quiet' /\ HandlerHolds(m)'
         /\ \A v \in Users : v # Handler(m) => SameConns(v)
         /\ \A n \in Calls : n # m => call'[n] = call[n]
         /\ UNCHANGED <<lis, rd, events, of, streamVars, history>>
<1>1. PoolTypeOK /\ CallTypeOK /\ OneEach /\ Quiet /\ HandlerHolds(m)
  BY PoolParts DEF TypeOK
<1>2. Handler(m) \in Users
  BY HandlerUser
<1>3. /\ UNCHANGED <<lis, rd, events, of, streamVars, history>>
      /\ \A n \in Calls : n # m => call'[n] = call[n]
  BY <1>1 DEF ClientGone, HandlerStep, HandlerFails, CompletedGet, CompletedAcquire,
     CompletedListen, CompletedWait, Close, HandlerReturns, CallGoto, handlerRest, buildVars,
     CallTypeOK
<1>4. CASE ClientGone(m) \/ CompletedGet(m) \/ Close(m)
  <2>1. UNCHANGED poolVars
    BY <1>4 DEF ClientGone, CompletedGet, Close
  <2>2. call'[m] \in {"listen", "wait"} \/ call[m] \notin {"listen", "wait"}
    BY <1>4 DEF ClientGone, CompletedGet, Close
  <2> QED BY <1>1, <1>3, <2>1, <2>2
          DEF poolVars, OneEach, Quiet, HandlerHolds, Held, SameConns
<1>5. ASSUME NEW c \in PoolConns, CompletedAcquire(m, c)
      PROVE  OneEach' /\ Quiet' /\ HandlerHolds(m)'
             /\ \A v \in Users : v # Handler(m) => SameConns(v)
  <2>1. Acquire(Handler(m), c) /\ call[m] = "acquire" /\ call'[m] = "listen"
    BY <1>1, <1>5 DEF CompletedAcquire, CallGoto, CallTypeOK
  <2>2. Held(Handler(m)) = {}
    BY <1>1, <2>1 DEF HandlerHolds
  <2> QED BY <1>1, <1>2, <2>1, <2>2, AcquireEffect DEF HandlerHolds
<1>6. CASE CompletedListen(m)
  <2>1. Listen(Handler(m), <<"completed", of[m]>>) /\ call'[m] = "wait"
    BY <1>1, <1>6 DEF CompletedListen, CallGoto, CallTypeOK
  <2> QED BY <1>1, <1>2, <1>3, <2>1, ListenEffect DEF HandlerHolds
<1>7. CASE CompletedWait(m)
  <2>1. PICK c \in Held(Handler(m)) :
          queue[c] # <<>> /\ Dequeue(c) /\ holder' = Released(Handler(m))
    BY <1>7 DEF CompletedWait
  <2>2. channels' = channels
    BY <1>7 DEF CompletedWait
  <2> QED BY <1>1, <1>2, <1>3, <2>1, <2>2, DequeueEffect DEF HandlerHolds
<1>8. CASE HandlerFails(m)
  <2>1. Release(Handler(m)) \/ Destroy(Handler(m))
    BY <1>8 DEF HandlerFails
  <2> QED BY <1>1, <1>2, <1>3, <2>1, ReleaseEffect DEF HandlerHolds
<1> QED BY <1>3, <1>4, <1>5, <1>6, <1>7, <1>8 DEF HandlerStep

\* A step of a listener, likewise.
LEMMA ListenerPool ==
  ASSUME TypeOK, PoolInv, NEW m \in Calls, ListenerStep(m) \/ EventsFail(m)
  PROVE  /\ OneEach' /\ Quiet' /\ ListenerHolds(m)'
         /\ \A v \in Users : v # Listener(m) => SameConns(v)
         /\ \A n \in Calls : n # m =>
              /\ lis'[n] = lis[n] /\ hand'[n] = hand[n] /\ since'[n] = since[n]
              /\ n \in fresh' <=> n \in fresh
         /\ UNCHANGED <<call, rd, events, of, got, stream, snap>>
<1>1. PoolTypeOK /\ CallTypeOK /\ OneEach /\ Quiet /\ ListenerHolds(m)
  BY PoolParts DEF TypeOK
<1>2. Listener(m) \in Users
  BY HandlerUser
<1>3. /\ UNCHANGED <<call, rd, events, of, got, stream, snap>>
      /\ \A n \in Calls : n # m =>
           /\ lis'[n] = lis[n] /\ hand'[n] = hand[n] /\ since'[n] = since[n]
           /\ n \in fresh' <=> n \in fresh
  BY <1>1 DEF ListenerStep, EventsFail, EventsGet, EventsAcquire, EventsListen, EventsWait,
     SendOnClosed, LisGoto, listenerRest, buildVars, streamVars, history, CallTypeOK
<1>4. CASE EventsGet(m) \/ SendOnClosed(m)
  <2>1. UNCHANGED poolVars
    BY <1>4 DEF EventsGet, SendOnClosed
  <2>2. lis'[m] = lis[m] \/ lis[m] \notin {"listen", "wait", "send"}
    BY <1>4 DEF EventsGet, SendOnClosed
  <2> QED BY <1>1, <1>3, <2>1, <2>2
          DEF poolVars, OneEach, Quiet, ListenerHolds, Held, SameConns
<1>5. ASSUME NEW c \in PoolConns, EventsAcquire(m, c)
      PROVE  OneEach' /\ Quiet' /\ ListenerHolds(m)'
             /\ \A v \in Users : v # Listener(m) => SameConns(v)
  <2>1. Acquire(Listener(m), c) /\ lis[m] = "acquire" /\ lis'[m] = "listen"
    BY <1>1, <1>5 DEF EventsAcquire, LisGoto, CallTypeOK
  <2>2. Held(Listener(m)) = {}
    BY <1>1, <2>1 DEF ListenerHolds
  <2> QED BY <1>1, <1>2, <2>1, <2>2, AcquireEffect DEF ListenerHolds
<1>6. CASE EventsListen(m)
  <2>1. Listen(Listener(m), <<"event", of[m]>>) /\ lis'[m] = "wait"
    BY <1>1, <1>6 DEF EventsListen, LisGoto, CallTypeOK
  <2> QED BY <1>1, <1>2, <1>3, <2>1, ListenEffect DEF ListenerHolds
<1>7. CASE EventsWait(m)
  <2>1. PICK c \in Held(Listener(m)) : queue[c] # <<>> /\ Dequeue(c)
    BY <1>7 DEF EventsWait
  <2>2. channels' = channels /\ holder' = holder /\ lis'[m] = "send"
    BY <1>1, <1>7 DEF EventsWait, LisGoto, CallTypeOK
  <2> QED BY <1>1, <1>2, <1>3, <2>1, <2>2, DequeueEffect DEF ListenerHolds
<1>8. CASE EventsFail(m)
  <2>1. Release(Listener(m)) \/ Destroy(Listener(m))
    BY <1>8 DEF EventsFail
  <2> QED BY <1>1, <1>2, <1>3, <2>1, ReleaseEffect DEF ListenerHolds
<1> QED BY <1>3, <1>4, <1>5, <1>6, <1>7, <1>8 DEF ListenerStep

\* Every step keeps PoolInv.
LEMMA PoolStep ==
  ASSUME TypeOK, PoolInv, [Next]_vars
  PROVE  PoolInv'
<1>1. /\ OneEach /\ Quiet /\ PoolTypeOK /\ CallTypeOK
      /\ \A m \in Calls : ListenerHolds(m) /\ HandlerHolds(m)
  BY PoolParts DEF TypeOK
<1>2. CASE UNCHANGED poolVars /\ UNCHANGED <<call, lis>>
  BY <1>2 DEF poolVars, PoolInv, Held
<1>3. ASSUME NEW b \in Builds, WriterStep(b) PROVE PoolInv'
  <2>1. UNCHANGED <<call, lis>>
    BY <1>3 DEF WriterStep, AddEventCheck, AddEventCommit, SetBuildAsCompleted, CancelBuild,
       callVars
  <2>2. CASE AddEventCheck(b) \/ CancelBuild(b)
    BY <1>2, <2>1, <2>2 DEF AddEventCheck, CancelBuild
  <2>3. CASE AddEventCommit(b) \/ SetBuildAsCompleted(b)
    <3>1. \E ch, x : Notify(ch, x)
      BY <2>3 DEF AddEventCommit, SetBuildAsCompleted
    <3>2. OneEach' /\ Quiet' /\ \A v : Held(v)' = Held(v)
      BY <1>1, <3>1, NotifyEffect
    <3>3. \A m \in Calls : ListenerHolds(m)' /\ HandlerHolds(m)'
      BY <1>1, <2>1, <3>2 DEF ListenerHolds, HandlerHolds
    <3> QED BY <3>2, <3>3 DEF PoolInv, OneEach, Quiet, ListenerHolds, HandlerHolds
  <2> QED BY <1>3, <2>2, <2>3 DEF WriterStep
<1>4. ASSUME NEW m \in Calls, NEW b \in Builds, Monitor(m, b) PROVE PoolInv'
  <2>1. UNCHANGED poolVars /\ \A v : Held(v)' = Held(v)
    BY <1>4 DEF Monitor, poolVars, Held
  <2>2. OneEach' /\ Quiet'
    BY <1>1, <2>1 DEF poolVars, OneEach, Quiet
  <2>3. \A n \in Calls : ListenerHolds(n)' /\ HandlerHolds(n)'
    BY <1>1, <1>4, <2>1 DEF Monitor, Over, CallGoto, CallTypeOK, ListenerHolds, HandlerHolds
  <2> QED BY <2>2, <2>3 DEF PoolInv, OneEach, Quiet, ListenerHolds, HandlerHolds
<1>5. ASSUME NEW m \in Calls, ClientGone(m) \/ HandlerStep(m) \/ HandlerFails(m)
      PROVE  PoolInv'
  <2>1. ASSUME NEW n \in Calls PROVE ListenerHolds(n)' /\ HandlerHolds(n)'
    <3>1. SameConns(Listener(n)) /\ lis' = lis
      BY <1>5, HandlerPool, HandlerUser, UsersDiffer
    <3>2. ListenerHolds(n)'
      BY <1>1, <3>1 DEF ListenerHolds, SameConns
    <3>3. CASE n = m
      BY <1>5, <3>2, <3>3, HandlerPool
    <3>4. CASE n # m
      <4>1. SameConns(Handler(n)) /\ call'[n] = call[n]
        BY <1>5, <3>4, HandlerPool, HandlerUser, UsersDiffer
      <4> QED BY <1>1, <3>2, <4>1 DEF HandlerHolds, SameConns
    <3> QED BY <3>3, <3>4
  <2>2. OneEach' /\ Quiet'
    BY <1>5, HandlerPool
  <2> QED BY <2>1, <2>2 DEF PoolInv, OneEach, Quiet, ListenerHolds, HandlerHolds
<1>6. ASSUME NEW m \in Calls, ListenerStep(m) \/ EventsFail(m) PROVE PoolInv'
  <2>1. ASSUME NEW n \in Calls PROVE ListenerHolds(n)' /\ HandlerHolds(n)'
    <3>1. SameConns(Handler(n)) /\ call' = call
      BY <1>6, ListenerPool, HandlerUser, UsersDiffer
    <3>2. HandlerHolds(n)'
      BY <1>1, <3>1 DEF HandlerHolds, SameConns
    <3>3. CASE n = m
      BY <1>6, <3>2, <3>3, ListenerPool
    <3>4. CASE n # m
      <4>1. SameConns(Listener(n)) /\ lis'[n] = lis[n]
        BY <1>6, <3>4, ListenerPool, HandlerUser, UsersDiffer
      <4> QED BY <1>1, <3>2, <4>1 DEF ListenerHolds, SameConns
    <3> QED BY <3>3, <3>4
  <2>2. OneEach' /\ Quiet'
    BY <1>6, ListenerPool
  <2> QED BY <2>1, <2>2 DEF PoolInv, OneEach, Quiet, ListenerHolds, HandlerHolds
<1>7. ASSUME NEW m \in Calls, ReaderStep(m) PROVE PoolInv'
  <2>1. UNCHANGED poolVars /\ call' = call /\ \A v : Held(v)' = Held(v)
    BY <1>7 DEF ReaderStep, Deliver, ReaderSend, ReaderEnds, readerRest, poolVars, Held
  <2>2. OneEach' /\ Quiet'
    BY <1>1, <2>1 DEF poolVars, OneEach, Quiet
  <2>3. \A n \in Calls : ListenerHolds(n)' /\ HandlerHolds(n)'
    BY <1>1, <1>7, <2>1 DEF ReaderStep, Deliver, ReaderSend, ReaderEnds, readerRest, LisGoto,
       CallTypeOK, ListenerHolds, HandlerHolds
  <2> QED BY <2>2, <2>3 DEF PoolInv, OneEach, Quiet, ListenerHolds, HandlerHolds
<1>8. CASE UNCHANGED vars
  BY <1>2, <1>8 DEF vars
<1> QED BY <1>3, <1>4, <1>5, <1>6, <1>7, <1>8 DEF Next

-----------------------------------------------------------------------------
(* No event is lost *)

\* Nothing that EventsOf(m) is about changes, apart from the builds.
SameCall(m) ==
  /\ of'[m] = of[m] /\ lis'[m] = lis[m] /\ rd'[m] = rd[m] /\ hand'[m] = hand[m]
  /\ got'[m] = got[m] /\ stream'[m] = stream[m] /\ snap'[m] = snap[m] /\ since'[m] = since[m]
  /\ m \in fresh' <=> m \in fresh
  /\ SameConns(Listener(m))

LEMMA CallFrame ==
  ASSUME NEW m \in Calls, SameCall(m), events' = events, EventsOf(m)
  PROVE  EventsOf(m)'
<1>1. Held(Listener(m))' = Held(Listener(m))
  BY DEF SameCall, SameConns
<1>2. BeforeListen(m)' /\ OnePlace(m)'
  BY DEF SameCall, EventsOf, BeforeListen, OnePlace
<1>3. HearsItsEvents(m)'
  BY <1>1 DEF SameCall, SameConns, EventsOf, HearsItsEvents
<1>4. NothingLost(m)'
  BY <1>1 DEF SameCall, SameConns, EventsOf, NothingLost
<1> QED BY <1>2, <1>3, <1>4 DEF EventsOf

\* The types of what is on its way in a call.
LEMMA CallSeqs ==
  ASSUME TypeOK, NEW m \in Calls
  PROVE  /\ stream[m] \in Seq(Payloads) /\ got[m] \in Seq(Payloads)
         /\ hand[m] \in Seq(Payloads)
         /\ \A c \in PoolConns : queue[c] \in Seq(Notifications)
         /\ \A c \in PoolConns : Contents(queue[c]) \in Seq(Payloads)
         /\ of[m] \in Builds /\ snap[m] \in 0..MaxEvents /\ since[m] \in 0..MaxEvents
         /\ 0 \in 0..MaxEvents /\ events[of[m]] \in 0..MaxEvents
<1>1. \A c \in PoolConns : queue[c] \in Seq(Notifications)
  BY DEF TypeOK, PoolTypeOK
<1>2. \A c \in PoolConns : Contents(queue[c]) \in Seq(Payloads)
  BY <1>1, ContentsType
<1> QED BY <1>1, <1>2, MaxEventsAssumption DEF TypeOK, CallTypeOK

\* Writers: a call's connection hears of its own events and of nothing else.
LEMMA WriterEvents ==
  ASSUME TypeOK, AddingInv, PoolInv, NEW b \in Builds, WriterStep(b), NEW m \in Calls,
         EventsOf(m)
  PROVE  EventsOf(m)'
<1>1. /\ UNCHANGED callVars
      /\ PoolTypeOK /\ OneEach /\ Quiet
  BY PoolParts DEF WriterStep, AddEventCheck, AddEventCommit, SetBuildAsCompleted, CancelBuild,
     TypeOK
<1>2. /\ of' = of /\ lis' = lis /\ rd' = rd /\ hand' = hand /\ got' = got
      /\ stream' = stream /\ snap' = snap /\ since' = since /\ fresh' = fresh
  BY <1>1 DEF callVars, streamVars, history
<1>3. CASE AddEventCheck(b) \/ CancelBuild(b)
  <2>1. SameCall(m) /\ events' = events
    BY <1>2, <1>3 DEF AddEventCheck, CancelBuild, SameCall, SameConns, Held, poolVars
  <2> QED BY <2>1, CallFrame
<1>4. BeforeListen(m)' /\ OnePlace(m)'
  BY <1>2 DEF EventsOf, BeforeListen, OnePlace
<1>5. CASE SetBuildAsCompleted(b)
  <2>1. Notify(<<"completed", b>>, Done(b)) /\ events' = events
    BY <1>5 DEF SetBuildAsCompleted
  <2>2. /\ \A v : Held(v)' = Held(v)
        /\ channels' = channels
        /\ \A c \in PoolConns : <<"completed", b>> \notin channels[c] => queue'[c] = queue[c]
    BY <1>1, <2>1, NotifyEffect
  <2>3. HearsItsEvents(m)'
    BY <1>2, <2>1, <2>2 DEF EventsOf, HearsItsEvents
  <2>4. NothingLost(m)'
    <3> SUFFICES ASSUME lis[m] \in {"wait", "send"}, m \in fresh, rd[m] # "off",
                        NEW c \in Held(Listener(m))
                 PROVE  stream[m] \o got[m] \o hand[m] \o Contents(queue'[c])
                          = Events(of[m], 0, snap[m])
                              \o Events(of[m], since[m], events[of[m]])
      BY <1>2, <2>1, <2>2 DEF NothingLost
    <3>1. channels[c] = {<<"event", of[m]>>} /\ c \in PoolConns
      BY DEF EventsOf, HearsItsEvents, Held
    <3>2. queue'[c] = queue[c]
      BY <2>2, <3>1
    <3>3. stream[m] \o got[m] \o hand[m] \o Contents(queue[c])
            = Events(of[m], 0, snap[m]) \o Events(of[m], since[m], events[of[m]])
      BY DEF EventsOf, NothingLost
    <3> QED BY <3>2, <3>3
  <2> QED BY <1>4, <2>3, <2>4 DEF EventsOf
<1>6. CASE AddEventCommit(b)
  <2> DEFINE e == Event(b, events[b] + 1)
             n == [channel |-> <<"event", b>>, payload |-> e]
  <2>1. /\ b \in adding /\ Notify(<<"event", b>>, e)
        /\ events' = [events EXCEPT ![b] = events[b] + 1]
    BY <1>6 DEF AddEventCommit
  <2>2. /\ \A v : Held(v)' = Held(v)
        /\ channels' = channels
        /\ \A c \in PoolConns :
             /\ <<"event", b>> \notin channels[c] => queue'[c] = queue[c]
             /\ <<"event", b>> \in channels[c] => queue'[c] = Append(queue[c], n)
    BY <1>1, <2>1, NotifyEffect
  <2>3. events[b] + 1 \in 0..MaxEvents /\ events[b] \in 0..MaxEvents
    BY <2>1, MaxEventsAssumption DEF AddingInv, TypeOK, CallTypeOK
  <2>4. /\ events'[b] = events[b] + 1
        /\ \A a \in Builds : a # b => events'[a] = events[a]
    BY <2>1 DEF TypeOK, CallTypeOK
  <2>5. n \in Notifications /\ e \in Payloads /\ n.payload = e
    BY <2>3, ChannelTypes DEF Notifications
  <2> HIDE DEF e, n
  <2>6. /\ of[m] \in Builds /\ since[m] \in 0..MaxEvents /\ snap[m] \in 0..MaxEvents
        /\ events[of[m]] \in 0..MaxEvents /\ 0 \in 0..MaxEvents
    BY CallSeqs
  <2>7. HearsItsEvents(m)'
    <3>1. lis[m] \in {"wait", "send"} => since[m] <= events'[of[m]]
      BY <2>3, <2>4, <2>6, MaxEventsAssumption DEF EventsOf, HearsItsEvents
    <3> QED BY <1>2, <2>2, <3>1 DEF EventsOf, HearsItsEvents
  <2>8. NothingLost(m)'
    <3> DEFINE X == stream[m] \o got[m] \o hand[m]
               F == Events(of[m], 0, snap[m])
    <3> SUFFICES ASSUME lis[m] \in {"wait", "send"}, m \in fresh, rd[m] # "off",
                        NEW c \in Held(Listener(m))
                 PROVE  X \o Contents(queue'[c])
                          = F \o Events(of[m], since[m], events'[of[m]])
      BY <1>2, <2>2 DEF NothingLost
    <3>1. channels[c] = {<<"event", of[m]>>} /\ c \in PoolConns
      BY DEF EventsOf, HearsItsEvents, Held
    <3>2. X \o Contents(queue[c]) = F \o Events(of[m], since[m], events[of[m]])
      BY DEF EventsOf, NothingLost
    <3>3. CASE of[m] # b
      <4>1. queue'[c] = queue[c] /\ events'[of[m]] = events[of[m]]
        BY <3>1, <3>3, <2>2, <2>4, <2>6
      <4> QED BY <3>2, <4>1
    <3>4. CASE of[m] = b
      <4>1. Contents(queue'[c]) = Contents(queue[c]) \o <<e>>
        BY <3>1, <3>4, <2>2, <2>5, CallSeqs, ContentsAppend
      <4>2. since[m] <= events[b] /\ events[b] + 1 <= MaxEvents
        BY <3>4, <2>3, MaxEventsAssumption DEF EventsOf, HearsItsEvents
      <4>3. Events(b, since[m], events[b] + 1) = Events(b, since[m], events[b]) \o <<e>>
        BY <2>3, <2>6, <4>2, EventAdded DEF e
      <4>4. /\ F \in Seq(Payloads) /\ Events(b, since[m], events[b]) \in Seq(Payloads)
            /\ Contents(queue[c]) \in Seq(Payloads) /\ <<e>> \in Seq(Payloads)
        <5>1. F \in Seq(Payloads) /\ Events(b, since[m], events[b]) \in Seq(Payloads)
          BY <2>3, <2>6, EventsType
        <5>2. Contents(queue[c]) \in Seq(Payloads)
          BY <3>1, CallSeqs
        <5>3. <<e>> \in Seq(Payloads)
          BY <2>5
        <5> QED BY <5>1, <5>2, <5>3
      <4>5. X \in Seq(Payloads)
        <5>1. stream[m] \o got[m] \in Seq(Payloads) /\ hand[m] \in Seq(Payloads)
          BY CallSeqs, ConcatProperties
        <5> QED BY <5>1, ConcatProperties
      <4> HIDE DEF X, F
      <4>6. X \o (Contents(queue[c]) \o <<e>>) = (X \o Contents(queue[c])) \o <<e>>
        BY <4>4, <4>5, ConcatAssociative
      <4>7. (F \o Events(b, since[m], events[b])) \o <<e>>
              = F \o (Events(b, since[m], events[b]) \o <<e>>)
        BY <4>4, ConcatAssociative
      <4> QED BY <3>2, <3>4, <2>4, <4>1, <4>3, <4>6, <4>7
    <3> QED BY <3>3, <3>4
  <2> QED BY <1>4, <2>7, <2>8 DEF EventsOf
<1> QED BY <1>3, <1>5, <1>6 DEF WriterStep

\* A new call starts with what it read.
LEMMA MonitorEvents ==
  ASSUME TypeOK, PoolInv, NEW m \in Calls, NEW b \in Builds, Monitor(m, b), NEW n \in Calls,
         EventsOf(n)
  PROVE  EventsOf(n)'
<1>1. CallTypeOK /\ UNCHANGED <<events, poolVars, got>>
  BY DEF TypeOK, Monitor, buildVars
<1>2. CASE n # m
  <2>1. SameCall(n) /\ events' = events
    BY <1>1, <1>2 DEF Monitor, SameCall, SameConns, Held, poolVars, CallTypeOK
  <2> QED BY <2>1, CallFrame
<1>3. CASE n = m
  <2>1. /\ of'[m] = b /\ snap'[m] = events[b] /\ hand'[m] = <<>> /\ m \notin fresh'
        /\ rd[m] \in {"none", "off"} /\ lis'[m] \in {"none", "get"}
        /\ lis'[m] = "get" => stream'[m] = Events(b, 0, events[b]) /\ rd'[m] = "recv"
    BY <1>1 DEF Monitor, Over, CallTypeOK
  <2>2. got'[m] = <<>>
    BY <1>1, <1>3, <2>1 DEF EventsOf, OnePlace
  <2>3. BeforeListen(m)'
    BY <2>1 DEF BeforeListen
  <2>4. OnePlace(m)' /\ HearsItsEvents(m)' /\ NothingLost(m)'
    BY <2>1, <2>2 DEF OnePlace, HearsItsEvents, NothingLost
  <2> QED BY <1>3, <2>3, <2>4 DEF EventsOf
<1> QED BY <1>2, <1>3

\* The handler does not touch what the listener and the reader work on.
LEMMA HandlerEvents ==
  ASSUME TypeOK, PoolInv, NEW m \in Calls,
         ClientGone(m) \/ HandlerStep(m) \/ HandlerFails(m),
         NEW n \in Calls, EventsOf(n)
  PROVE  EventsOf(n)'
<1>1. SameConns(Listener(n))
  BY HandlerPool, HandlerUser, UsersDiffer
<1>2. UNCHANGED <<lis, rd, events, of, streamVars, history>>
  BY HandlerPool
<1>3. SameCall(n) /\ events' = events
  BY <1>1, <1>2 DEF SameCall, streamVars, history
<1> QED BY <1>3, CallFrame

\* The listener moves a payload from its connection to its hand.
LEMMA ListenerEvents ==
  ASSUME TypeOK, PoolInv, NEW m \in Calls, ListenerStep(m) \/ EventsFail(m),
         NEW n \in Calls, EventsOf(n)
  PROVE  EventsOf(n)'
<1>1. UNCHANGED <<call, rd, events, of, got, stream, snap>>
  BY ListenerPool
<1>2. CASE n # m
  <2>1. SameConns(Listener(n))
    BY <1>2, ListenerPool, HandlerUser, UsersDiffer
  <2>2. /\ lis'[n] = lis[n] /\ hand'[n] = hand[n] /\ since'[n] = since[n]
        /\ n \in fresh' <=> n \in fresh
    BY <1>2, ListenerPool
  <2>3. SameCall(n) /\ events' = events
    BY <1>1, <2>1, <2>2 DEF SameCall
  <2> QED BY <2>3, CallFrame
<1>3. CASE n = m
  <2> SUFFICES EventsOf(m)'
    BY <1>3
  <2>0. EventsOf(m) /\ BeforeListen(m) /\ OnePlace(m) /\ HearsItsEvents(m) /\ NothingLost(m)
    BY <1>3 DEF EventsOf
  <2>1. PoolTypeOK /\ CallTypeOK /\ OneEach /\ Quiet /\ ListenerHolds(m)
    BY PoolParts DEF TypeOK
  <2>2. Listener(m) \in Users
    BY HandlerUser
  <2>3. CASE EventsGet(m)
    <3>1. /\ lis[m] = "get" /\ lis'[m] \in {"acquire", "off"}
          /\ UNCHANGED <<hand, since, fresh, poolVars>>
      BY <2>1, <2>3 DEF EventsGet, LisGoto, CallTypeOK
    <3> QED BY <1>1, <2>0, <3>1
            DEF EventsOf, BeforeListen, OnePlace, HearsItsEvents, NothingLost
  <2>4. CASE SendOnClosed(m)
    <3>1. SameCall(m) /\ events' = events
      BY <2>4 DEF SendOnClosed, SameCall, SameConns, Held, buildVars, streamVars, history,
         poolVars
    <3> QED BY <2>0, <3>1, CallFrame
  <2>5. ASSUME NEW c \in PoolConns, EventsAcquire(m, c) PROVE EventsOf(m)'
    <3>1. /\ Acquire(Listener(m), c) /\ lis[m] = "acquire" /\ lis'[m] = "listen"
          /\ hand' = hand /\ since' = since
          /\ fresh' = IF channels'[c] = {} THEN fresh \union {m} ELSE fresh
      BY <2>1, <2>5 DEF EventsAcquire, LisGoto, CallTypeOK
    <3>2. Held(Listener(m))' = {c}
      BY <2>1, <2>2, <3>1, AcquireEffect DEF ListenerHolds
    <3>3. m \notin fresh
      BY <2>0, <3>1 DEF HearsItsEvents
    <3>4. HearsItsEvents(m)'
      BY <3>1, <3>2, <3>3 DEF HearsItsEvents
    <3> QED BY <1>1, <2>0, <3>1, <3>4
            DEF EventsOf, BeforeListen, OnePlace, NothingLost
  <2>6. CASE EventsListen(m)
    <3>1. /\ Listen(Listener(m), <<"event", of[m]>>) /\ lis[m] = "listen" /\ lis'[m] = "wait"
          /\ hand' = hand /\ fresh' = fresh /\ since'[m] = events[of[m]]
      BY <2>1, <2>6 DEF EventsListen, LisGoto, CallTypeOK
    <3>2. /\ Held(Listener(m))' = Held(Listener(m))
          /\ \A c \in Held(Listener(m)) :
               channels'[c] = channels[c] \union {<<"event", of[m]>>} /\ queue'[c] = queue[c]
      BY <2>1, <2>2, <3>1, ListenEffect
    <3>3. BeforeListen(m)' /\ OnePlace(m)'
      BY <1>1, <2>0, <3>1 DEF BeforeListen, OnePlace
    <3>4. HearsItsEvents(m)'
      <4>1. events[of[m]] \in 0..MaxEvents
        BY CallSeqs
      <4>2. since'[m] <= events'[of'[m]]
        BY <1>1, <3>1, <4>1, MaxEventsAssumption
      <4>3. m \in fresh => \A c \in Held(Listener(m)) : channels[c] = {}
        BY <2>0, <3>1 DEF HearsItsEvents
      <4>4. m \in fresh' => \A c \in Held(Listener(m))' : channels'[c] = {<<"event", of[m]>>}
        BY <3>1, <3>2, <4>3
      <4> QED BY <1>1, <3>1, <4>2, <4>4 DEF HearsItsEvents
    <3>5. NothingLost(m)'
      <4> DEFINE F == Events(of[m], 0, snap[m])
      <4> SUFFICES ASSUME m \in fresh, rd[m] # "off", NEW c \in Held(Listener(m))
                   PROVE  stream[m] \o got[m] \o hand[m] \o Contents(queue[c])
                            = F \o Events(of[m], events[of[m]], events[of[m]])
        BY <1>1, <3>1, <3>2 DEF NothingLost
      <4>1. stream[m] = F /\ got[m] = <<>> /\ hand[m] = <<>>
        BY <2>0, <3>1 DEF BeforeListen, OnePlace
      <4>2. c \in PoolConns /\ channels[c] = {}
        BY <2>0, <3>1 DEF HearsItsEvents, Held
      <4>3. Contents(queue[c]) = <<>>
        BY <2>1, <4>2 DEF Quiet, Contents
      <4>4. Events(of[m], events[of[m]], events[of[m]]) = <<>>
        <5>1. events[of[m]] \in Nat
          BY CallSeqs, MaxEventsAssumption
        <5> QED BY <5>1, NoEvents
      <4>5. F \in Seq(Payloads)
        BY CallSeqs, EventsType
      <4> HIDE DEF F
      <4>6. F \o <<>> = F
        BY <4>5, ConcatEmptySeq
      <4> QED BY <4>1, <4>3, <4>4, <4>6
    <3> QED BY <3>3, <3>4, <3>5 DEF EventsOf
  <2>7. CASE EventsWait(m)
    <3>1. PICK c \in Held(Listener(m)) :
            /\ queue[c] # <<>> /\ Dequeue(c)
            /\ hand' = [hand EXCEPT ![m] = <<Head(queue[c]).payload>>]
      BY <2>7 DEF EventsWait
    <3>2. /\ channels' = channels /\ holder' = holder /\ lis[m] = "wait" /\ lis'[m] = "send"
          /\ since' = since /\ fresh' = fresh
          /\ hand'[m] = <<Head(queue[c]).payload>> /\ c \in PoolConns
      BY <2>1, <2>7, <3>1 DEF EventsWait, LisGoto, CallTypeOK, Held
    <3>3. Held(Listener(m)) = {c} /\ Held(Listener(m))' = {c} /\ queue'[c] = Tail(queue[c])
      BY <2>1, <2>2, <3>1, <3>2, DequeueEffect
    <3>4. BeforeListen(m)' /\ OnePlace(m)' /\ HearsItsEvents(m)'
      BY <1>1, <2>0, <3>2, <3>3 DEF BeforeListen, OnePlace, HearsItsEvents
    <3>5. NothingLost(m)'
      <4> DEFINE A == stream[m] \o got[m]
                 h == <<Head(queue[c]).payload>>
                 t == Contents(Tail(queue[c]))
                 G == Events(of[m], 0, snap[m]) \o Events(of[m], since[m], events[of[m]])
      <4> SUFFICES ASSUME m \in fresh, rd[m] # "off"
                   PROVE  (A \o h) \o t = G
        BY <1>1, <3>2, <3>3 DEF NothingLost
      <4>1. (A \o hand[m]) \o Contents(queue[c]) = G
        BY <2>0, <3>2, <3>3 DEF NothingLost
      <4>2. hand[m] = <<>>
        BY <2>0, <3>2 DEF OnePlace
      <4>3. A \in Seq(Payloads)
        BY CallSeqs, ConcatProperties
      <4>4. /\ Head(queue[c]).payload \in Payloads /\ Tail(queue[c]) \in Seq(Notifications)
            /\ h \o t = Contents(queue[c])
        BY <3>1, <3>2, CallSeqs, ContentsHead
      <4>5. h \in Seq(Payloads)
        BY <4>4
      <4>6. t \in Seq(Payloads)
        BY <4>4, ContentsType
      <4> HIDE DEF A, h, t, G
      <4>7. (A \o h) \o t = A \o (h \o t)
        BY <4>3, <4>5, <4>6, ConcatAssociative
      <4>8. A \o <<>> = A
        BY <4>3, ConcatEmptySeq
      <4> QED BY <4>1, <4>2, <4>4, <4>7, <4>8
    <3> QED BY <3>4, <3>5 DEF EventsOf
  <2>8. CASE EventsFail(m)
    <3>1. lis'[m] = "off" /\ hand' = hand /\ since' = since /\ fresh' = fresh
      BY <2>1, <2>8 DEF EventsFail, LisGoto, CallTypeOK
    <3>2. Held(Listener(m))' = {}
      BY <2>1, <2>2, <2>8, ReleaseEffect DEF EventsFail
    <3> QED BY <1>1, <2>0, <3>1, <3>2
            DEF EventsOf, BeforeListen, OnePlace, HearsItsEvents, NothingLost
  <2> QED BY <2>3, <2>4, <2>5, <2>6, <2>7, <2>8 DEF ListenerStep
<1> QED BY <1>2, <1>3

\* The reader takes it from there and puts it on the stream.
LEMMA ReaderEvents ==
  ASSUME TypeOK, NEW m \in Calls, ReaderStep(m), NEW n \in Calls, EventsOf(n)
  PROVE  EventsOf(n)'
<1>1. /\ UNCHANGED <<events, of, snap, since, fresh, poolVars>>
      /\ \A v : Held(v)' = Held(v)
  BY DEF ReaderStep, Deliver, ReaderSend, ReaderEnds, readerRest, buildVars, history, poolVars,
     Held
<1>2. CallTypeOK
  BY DEF TypeOK
<1>3. CASE n # m
  <2>1. /\ lis'[n] = lis[n] /\ rd'[n] = rd[n] /\ hand'[n] = hand[n] /\ got'[n] = got[n]
        /\ stream'[n] = stream[n]
    BY <1>2, <1>3 DEF ReaderStep, Deliver, ReaderSend, ReaderEnds, readerRest, LisGoto,
       CallTypeOK
  <2>2. SameCall(n)
    BY <1>1, <2>1 DEF SameCall, SameConns, poolVars
  <2> QED BY <1>1, <2>2, CallFrame
<1>4. CASE n = m
  <2> SUFFICES EventsOf(m)'
    BY <1>4
  <2>0. BeforeListen(m) /\ OnePlace(m) /\ HearsItsEvents(m) /\ NothingLost(m)
    BY <1>4 DEF EventsOf
  <2> DEFINE G == Events(of[m], 0, snap[m]) \o Events(of[m], since[m], events[of[m]])
  <2>1. CASE Deliver(m)
    <3>1. /\ lis[m] = "send" /\ lis'[m] = "wait" /\ rd[m] = "recv" /\ rd'[m] = "send"
          /\ got'[m] = hand[m] /\ hand'[m] = <<>> /\ stream' = stream
      BY <1>2, <2>1 DEF Deliver, LisGoto, CallTypeOK
    <3>2. BeforeListen(m)' /\ OnePlace(m)' /\ HearsItsEvents(m)'
      BY <1>1, <2>0, <3>1 DEF BeforeListen, OnePlace, HearsItsEvents, poolVars
    <3>3. NothingLost(m)'
      <4> SUFFICES ASSUME m \in fresh, NEW c \in Held(Listener(m))
                   PROVE  ((stream[m] \o hand[m]) \o <<>>) \o Contents(queue[c]) = G
        BY <1>1, <3>1 DEF NothingLost, poolVars
      <4>1. ((stream[m] \o got[m]) \o hand[m]) \o Contents(queue[c]) = G
        BY <2>0, <3>1 DEF NothingLost
      <4>2. got[m] = <<>>
        BY <2>0, <3>1 DEF OnePlace
      <4>3. stream[m] \in Seq(Payloads) /\ stream[m] \o hand[m] \in Seq(Payloads)
        BY CallSeqs, ConcatProperties
      <4>4. stream[m] \o <<>> = stream[m] /\ (stream[m] \o hand[m]) \o <<>> = stream[m] \o hand[m]
        BY <4>3, ConcatEmptySeq
      <4> HIDE DEF G
      <4> QED BY <4>1, <4>2, <4>4
    <3> QED BY <3>2, <3>3 DEF EventsOf
  <2>2. CASE ReaderSend(m)
    <3>1. /\ rd[m] = "send" /\ got'[m] = <<>> /\ hand' = hand /\ lis' = lis
          /\ \/ rd'[m] = "recv" /\ stream'[m] = stream[m] \o got[m]
             \/ rd'[m] = "off" /\ stream' = stream
      BY <1>2, <2>2 DEF ReaderSend, readerRest, CallTypeOK
    <3>2. BeforeListen(m)' /\ OnePlace(m)' /\ HearsItsEvents(m)'
      BY <1>1, <2>0, <3>1 DEF BeforeListen, OnePlace, HearsItsEvents, poolVars
    <3>3. NothingLost(m)'
      <4> SUFFICES ASSUME lis[m] \in {"wait", "send"}, m \in fresh, NEW c \in Held(Listener(m)),
                          stream'[m] = stream[m] \o got[m]
                   PROVE  (((stream[m] \o got[m]) \o <<>>) \o hand[m]) \o Contents(queue[c]) = G
        BY <1>1, <3>1 DEF NothingLost, poolVars
      <4>1. ((stream[m] \o got[m]) \o hand[m]) \o Contents(queue[c]) = G
        BY <2>0, <3>1 DEF NothingLost
      <4>2. stream[m] \o got[m] \in Seq(Payloads)
        BY CallSeqs, ConcatProperties
      <4>3. (stream[m] \o got[m]) \o <<>> = stream[m] \o got[m]
        BY <4>2, ConcatEmptySeq
      <4> HIDE DEF G
      <4> QED BY <4>1, <4>3
    <3> QED BY <3>2, <3>3 DEF EventsOf
  <2>3. CASE ReaderEnds(m)
    <3>1. /\ rd[m] = "recv" /\ rd'[m] = "off" /\ hand' = hand /\ got' = got /\ lis' = lis
          /\ stream' = stream
      BY <1>2, <2>3 DEF ReaderEnds, readerRest, CallTypeOK
    <3> QED BY <1>1, <2>0, <3>1
            DEF EventsOf, BeforeListen, OnePlace, HearsItsEvents, NothingLost,
                poolVars
  <2> QED BY <2>1, <2>2, <2>3 DEF ReaderStep
<1> QED BY <1>3, <1>4

\* While MonitorBuild waits and its listener runs on an unused connection, the
\* stream and what is on its way to it are exactly the events of the first
\* read and those since LISTEN, in order, for any number of calls, builds and
\* connections (MonitorBuild, ListenForBuildEvents, AddEvent).
THEOREM EventsArrive == Spec => []NoEventLost
<1>1. Init => PoolInv /\ EventsInv
  <2> SUFFICES ASSUME Init PROVE PoolInv /\ EventsInv
    OBVIOUS
  <2>1. PoolInv
    <3>1. \A u \in Users : Held(u) = {}
      BY NoOneAssumption DEF Init, PoolInit, Held, Users
    <3>2. OneEach /\ Quiet
      BY DEF Init, PoolInit, OneEach, Quiet
    <3> QED BY <3>1, <3>2, HandlerUser, PoolParts DEF ListenerHolds, HandlerHolds
  <2>2. EventsInv
    BY DEF Init, EventsInv, EventsOf, BeforeListen, OnePlace, HearsItsEvents, NothingLost
  <2> QED BY <2>1, <2>2
<1>2. TypeOK /\ AddingInv /\ PoolInv /\ EventsInv /\ [Next]_vars => PoolInv' /\ EventsInv'
  <2> SUFFICES ASSUME TypeOK, AddingInv, PoolInv, EventsInv, [Next]_vars
               PROVE  PoolInv' /\ EventsInv'
    OBVIOUS
  <2>1. PoolInv'
    BY PoolStep
  <2>2. ASSUME NEW n \in Calls PROVE EventsOf(n)'
    <3>0. EventsOf(n)
      BY DEF EventsInv
    <3>1. CASE UNCHANGED vars
      <4>1. SameCall(n) /\ events' = events
        BY <3>1 DEF vars, SameCall, SameConns, Held, buildVars, streamVars, history, poolVars
      <4> QED BY <3>0, <4>1, CallFrame
    <3>2. ASSUME NEW b \in Builds, WriterStep(b) PROVE EventsOf(n)'
      BY <3>0, <3>2, WriterEvents
    <3>3. ASSUME NEW m \in Calls, NEW b \in Builds, Monitor(m, b) PROVE EventsOf(n)'
      BY <3>0, <3>3, MonitorEvents
    <3>4. ASSUME NEW m \in Calls, ClientGone(m) \/ HandlerStep(m) \/ HandlerFails(m)
          PROVE  EventsOf(n)'
      BY <3>0, <3>4, HandlerEvents
    <3>5. ASSUME NEW m \in Calls, ListenerStep(m) \/ EventsFail(m) PROVE EventsOf(n)'
      BY <3>0, <3>5, ListenerEvents
    <3>6. ASSUME NEW m \in Calls, ReaderStep(m) PROVE EventsOf(n)'
      BY <3>0, <3>6, ReaderEvents
    <3> QED BY <3>1, <3>2, <3>3, <3>4, <3>5, <3>6 DEF Next
  <2>3. EventsInv'
    BY <2>2 DEF EventsInv
  <2> QED BY <2>1, <2>3
<1>3. EventsInv => NoEventLost
  BY DEF EventsInv, EventsOf, NoEventLost
<1> QED BY <1>1, <1>2, <1>3, MonitorTypes, PTL DEF Spec
==============================================================================
