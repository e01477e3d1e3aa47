----------------------------- MODULE ListenPool ------------------------------
(***************************************************************************)
(* The listen pool of one process (pkg/datalayer/datalayer.go, field lp of *)
(* PostgresDBLayer): a bounded set of connections to Postgres, shared by   *)
(* every ListenFor... call of the process.  A call acquires a connection,  *)
(* issues LISTEN on it, waits for notifications and releases it.  The code *)
(* never issues UNLISTEN, so a released connection keeps its registrations *)
(* and goes on receiving; the next call that acquires it reads whatever    *)
(* has arrived and does not look at the channel of a notification.         *)
(*                                                                         *)
(* The pool itself (pgxpool) is external.  A wait that ends because its    *)
(* context was cancelled leaves the connection usable and in the pool.     *)
(***************************************************************************)
EXTENDS Sequences

CONSTANTS PoolConns,  \* the connections of the pool: MaxListenPoolConns of them
          Builds,
          NoOne

VARIABLES holder,     \* per connection, who acquired it, or NoOne
          channels,   \* per connection, the channels it LISTENs on
          queue       \* per connection, notifications not yet read

poolVars == <<holder, channels, queue>>

\* pgChanFromID and pgCompletedChanFromID of every build
Channels == {"event", "completed"} \X Builds

PoolInit ==
  /\ holder = [c \in PoolConns |-> NoOne]
  /\ channels = [c \in PoolConns |-> {}]
  /\ queue = [c \in PoolConns |-> <<>>]

Held(u) == {c \in PoolConns : holder[c] = u}

\* Acquire waits until some connection is free.  One that was idle for
\* MaxConnIdleTime has been closed, and the pool opens a new one instead.
Acquire(u, c) ==
  /\ holder[c] = NoOne
  /\ holder' = [holder EXCEPT ![c] = u]
  /\ \/ UNCHANGED <<channels, queue>>
     \/ /\ channels' = [channels EXCEPT ![c] = {}]
        /\ queue' = [queue EXCEPT ![c] = <<>>]

\* Release returns every connection of u (it has one at most) to the pool.
Released(u) == [c \in PoolConns |-> IF holder[c] = u THEN NoOne ELSE holder[c]]

Release(u) == holder' = Released(u) /\ UNCHANGED <<channels, queue>>

\* A connection that broke in use is destroyed on Release; the pool opens a
\* new one in its place.
Destroy(u) ==
  /\ holder' = Released(u)
  /\ channels' = [c \in PoolConns |-> IF holder[c] = u THEN {} ELSE channels[c]]
  /\ queue' = [c \in PoolConns |-> IF holder[c] = u THEN <<>> ELSE queue[c]]

Listen(u, ch) ==
  /\ channels' = [c \in PoolConns |->
                    IF holder[c] = u THEN channels[c] \union {ch} ELSE channels[c]]
  /\ UNCHANGED <<holder, queue>>

\* NOTIFY at commit
Notify(ch, payload) ==
  /\ queue' = [c \in PoolConns |->
                 IF ch \in channels[c]
                   THEN Append(queue[c], [channel |-> ch, payload |-> payload])
                   ELSE queue[c]]
  /\ UNCHANGED <<holder, channels>>

Dequeue(c) == queue' = [queue EXCEPT ![c] = Tail(@)]
==============================================================================
