------------------------------ MODULE TestSuite ------------------------------
(***************************************************************************)
(* The tests of pkg/datalayer/testsuite run against FakeDataLayer: the     *)
(* test function calls it itself (Main), and starts a goroutine that       *)
(* listens (Listener) and one that signals (Setter).                       *)
(*                                                                         *)
(* In the test NoTest goroutines call whatever they like once, as the      *)
(* tests of other packages do.                                             *)
(***************************************************************************)
EXTENDS FakeDataLayer, ListBuilds

CONSTANTS Main, Listener, Setter,
          NoTest

ASSUME TestAssumption ==
  /\ IsFiniteSet(Procs) /\ {Main, Listener, Setter} \subseteq Procs
  /\ Main # Listener /\ Main # Setter /\ Listener # Setter

VARIABLES test,    \* the test function
          at,      \* the step it has to take next
          failed   \* a t.Fatalf or t.Errorf was reached

vars == <<fakeVars, test, at, failed>>

-----------------------------------------------------------------------------
(* Calls *)

Op(name) == [op |-> name]
Set(s) == [op |-> "SetBuildStatus", status |-> s]
Event == Notify("events", NoRow)
Cancelling == Notify("cxl", "CancelRequested")
Start == Notify("run", "Running")
Complete(s) == Notify("done", s)

-----------------------------------------------------------------------------
Sleeping == {"events", "cancellation"}
Racing == {"running", "completed"}

(* Steps of a test: a call by Main and what it has to return, a goroutine    *)
(* that starts a call, and looks at what became of a goroutine               *)

Do(c, expect) == [do |-> "call", call |-> c, expect |-> expect]
OK(c) == Do(c, {"ok"})
Go(p, c) == [do |-> "go", proc |-> p, call |-> c]
Sleep == [do |-> "sleep"]
NotYet == [do |-> "not yet"]
AwaitSetter == [do |-> "await"]
Returns(expect) == [do |-> "result", expect |-> expect]
Heard(n) == [do |-> "heard", n |-> n]

\* A look-up of an unknown id is one before the build or the key exists, and a
\* deletion of one is a second deletion.
testDBCreateBuild ==
  <<OK(Op("CreateBuild")), Do(Op("GetBuildByID"), {"NotStarted"}), OK(Op("DeleteBuild"))>>

testDBDeleteBuild == <<OK(Op("DeleteBuild"))>>

testDBGetBuildByID ==
  <<Do(Op("GetBuildByID"), {NoRow}), OK(Op("CreateBuild")),
    Do(Op("GetBuildByID"), {"NotStarted"}), OK(Op("DeleteBuild"))>>

testDBSetBuildCompletedTimestamp ==
  <<OK(Op("CreateBuild")), OK(Op("SetBuildCompletedTimestamp")),
    Do(Op("GetBuildByID (completed)"), {"set"}), OK(Op("DeleteBuild"))>>

testDBSetBuildStatus ==
  <<OK(Op("CreateBuild")), Do(Op("GetBuildByID"), {"NotStarted"}), OK(Set("Success")),
    Do(Op("GetBuildByID"), {"Success"}), OK(Op("DeleteBuild"))>>

testDBListenAndAddEvents ==
  <<OK(Op("CreateBuild")),
    OK(Set("Failure")), Do(Listen("events"), {"error"}),
    OK(Set("Running")),
    Go(Listener, Listen("events")), Sleep,
    OK(Event), OK(Event), OK(Event), Heard(3)>>

testDBCancelBuildAndListenForCancellation ==
  <<OK(Op("CreateBuild")), Do(Listen("cxl"), {"error"}),
    OK(Set("CancelRequested")), OK(Listen("cxl")),
    OK(Set("Running")),
    Go(Listener, Listen("cxl")), Sleep, NotYet,
    Go(Setter, Cancelling), AwaitSetter, Returns({"ok", "error"})>>

testDBSetBuildAsRunningAndListenForBuildRunning ==
  <<OK(Op("CreateBuild")),
    OK(Set("Success")), Do(Listen("run"), {"error"}),
    OK(Set("Running")), OK(Listen("run")),
    OK(Set("NotStarted")),
    Go(Listener, Listen("run")), NotYet,
    Go(Setter, Start), AwaitSetter, Returns({"ok", "error"})>>

testDBSetBuildAsCompletedAndListenForBuildCompleted ==
  <<OK(Op("CreateBuild")),
    OK(Set("Unknown")), Do(Listen("done"), {"error"}),
    OK(Set("Success")), Do(Listen("done"), {"Success"}),
    OK(Set("Running")),
    Go(Listener, Listen("done")), NotYet,
    Go(Setter, Complete("Success")), AwaitSetter, Returns({"Success"})>>

testDBCreateAPIKey ==
  <<OK(Op("CreateAPIKey")), OK(Op("GetAPIKey")), OK(Op("DeleteAPIKey"))>>

testDBGetAPIKey ==
  <<Do(Op("GetAPIKey"), {NoRow}), OK(Op("CreateAPIKey")), OK(Op("GetAPIKey")),
    OK(Op("DeleteAPIKey"))>>

testDBDeleteAPIKey ==
  <<OK(Op("CreateAPIKey")), OK(Op("DeleteAPIKey")), OK(Op("DeleteAPIKey"))>>

\* The builds of testDBListBuilds: startedAfter is 5, they are created at 6,
\* startedBefore is 9; completedBefore is 2 and completedAfter 4.
NewBuild(i, repo, ref, images, s, c) ==
  [id |-> i, repo |-> repo, ref |-> ref, images |-> images, status |-> s,
   created |-> 6, completed |-> c]
NewBuilds ==
  {NewBuild(1, "foo/bar", "", {}, "NotStarted", 0), NewBuild(2, "", "asdf", {}, "NotStarted", 0),
   NewBuild(3, "", "", {"some/repo"}, "NotStarted", 0), NewBuild(4, "", "", {}, "Failure", 0),
   NewBuild(5, "", "", {}, "NotStarted", 5), NewBuild(6, "", "", {}, "NotStarted", 1),
   NewBuild(7, "foo/bar2", "1234", {"abc", "def"}, "Running", 0)}
Listed(n) == {b \in NewBuilds : b.id <= n}

\* n builds are there; the result is an error, or has this many of these builds.
List(n, opts, ids, count) ==
  [do |-> "list", n |-> n, opts |-> opts, err |-> FALSE, ids |-> ids, count |-> count]
ListFails(opts) == [do |-> "list", n |-> 6, opts |-> opts, err |-> TRUE]

\* Options: one of them, a range of times, everything that build 7 has
By(field, v) == [Zero EXCEPT ![field] = v]
Started(after, before) == [Zero EXCEPT !.startedAfter = after, !.startedBefore = before]
Limited(opts, n) == [opts EXCEPT !.limit = n]
LikeSeventh(after, img) ==
  [Started(after, 0) EXCEPT !.repo = "foo/bar2", !.ref = "1234", !.image = img, !.status = "Running"]

testDBListBuilds ==
  <<ListFails(Zero), ListFails(Started(5, 5)),
    List(6, By("repo", "foo/bar"), {1}, 1), List(6, By("ref", "asdf"), {2}, 1),
    List(6, By("image", "some/repo"), {3}, 1), List(6, By("status", "Failure"), {4}, 1),
    List(6, By("completedAfter", 4), {5}, 1), List(6, By("completedBefore", 2), {6}, 1),
    List(6, Started(5, 0), 1..6, 6), List(6, Started(0, 9), 1..6, 6),
    List(6, Limited(Started(0, 9), 2), 1..6, 2), List(6, Started(9, 8), {}, 0),
    List(7, LikeSeventh(5, "def"), {7}, 1), List(7, LikeSeventh(9, "invalid"), {}, 0)>>

RunTests ==
  {"list builds", "create build", "delete build", "get build by ID", "set build completed timestamp",
   "set build status", "create API key", "get API key", "delete API key"}
   \union Sleeping \union Racing

tfunc(name) ==
  CASE name = "create build" -> testDBCreateBuild
    [] name = "delete build" -> testDBDeleteBuild
    [] name = "get build by ID" -> testDBGetBuildByID
    [] name = "set build completed timestamp" -> testDBSetBuildCompletedTimestamp
    [] name = "set build status" -> testDBSetBuildStatus
    [] name = "events" -> testDBListenAndAddEvents
    [] name = "cancellation" -> testDBCancelBuildAndListenForCancellation
    [] name = "running" -> testDBSetBuildAsRunningAndListenForBuildRunning
    [] name = "completed" -> testDBSetBuildAsCompletedAndListenForBuildCompleted
    [] name = "list builds" -> testDBListBuilds
    [] name = "create API key" -> testDBCreateAPIKey
    [] name = "get API key" -> testDBGetAPIKey
    [] name = "delete API key" -> testDBDeleteAPIKey
    [] OTHER -> <<>>

ASSUME NoTestAssumption == NoTest \notin RunTests

Init ==
  /\ FakeInit
  /\ test \in RunTests \union {NoTest}
  /\ IF test = NoTest THEN status \in {"NotStarted", "Running"} ELSE status = NoRow
  /\ at = 1
  /\ failed = FALSE

-----------------------------------------------------------------------------
(* The test function *)

script == tfunc(test)
Ended == at > Len(script)
Step(what) == ~Ended /\ script[at].do = what
Advance == at' = at + 1 /\ UNCHANGED test
Require(ok) == failed' = (failed \/ ~ok)

CallFake ==
  /\ Step("call") /\ pc[Main] = "idle"
  /\ Begin(Main, script[at].call)
  /\ UNCHANGED <<test, at, failed>>

\* A wrong result is fatal.
CallReturns ==
  /\ Step("call") /\ pc[Main] = "returned"
  /\ Goto(Main, "idle")
  /\ Require(res[Main] \in script[at].expect)
  /\ at' = IF failed' THEN Len(script) + 1 ELSE at + 1
  /\ UNCHANGED <<dataVars, listenVars, lockVars, call, res, queue, userVars, test>>

\* ListBuilds after the builds before it were made
CallListBuilds ==
  /\ Step("list")
  /\ LET l == script[at]
         r == FakeListBuilds(Listed(l.n), l.opts)
     IN Require(r.err = l.err
                /\ (~l.err => {b.id : b \in r.from} = l.ids /\ r.count = l.count))
  /\ Advance /\ UNCHANGED fakeVars

StartGoroutine ==
  /\ Step("go")
  /\ Begin(script[at].proc, script[at].call)
  /\ Advance /\ UNCHANGED failed

\* 100 ms are enough for the listener to register.
SleepEnds ==
  /\ Step("sleep") /\ pc[Listener] = "wait"
  /\ Advance /\ UNCHANGED <<fakeVars, failed>>

\* <-c: the goroutine of the completed test sends the status on c, and ends;
\* those of the other tests close c, which can be read again.
Receive ==
  /\ IF test = "completed" /\ pc[Listener] = "returned" THEN Goto(Listener, "idle") ELSE UNCHANGED pc
  /\ UNCHANGED <<dataVars, listenVars, lockVars, call, res, queue, userVars>>

\* "build shouldn't be ... yet", and <-cancelled, <-running or <-completed
LookAt ==
  /\ \/ Step("not yet") /\ Require(pc[Listener] # "returned") /\ Receive
     \/ Step("await") /\ pc[Setter] = "returned" /\ UNCHANGED <<fakeVars, failed>>
  /\ Advance

\* The last select: the listener returned, or all events came.
Collect ==
  /\ \/ /\ Step("result") /\ pc[Listener] = "returned"
        /\ Require(res[Listener] \in script[at].expect)
        /\ Receive
     \/ /\ Step("heard") /\ heard[Listener] = script[at].n
        /\ UNCHANGED <<fakeVars, failed>>
  /\ Advance

\* Its ticker fires only if the listener has nothing to do.
Timeout ==
  /\ Step("result") \/ Step("heard")
  /\ pc[Listener] \in {"wait", "idle"} /\ readers = {}
  /\ Step("heard") => heard[Listener] < script[at].n
  /\ Require(FALSE)
  /\ Advance /\ UNCHANGED fakeVars

\* The deferred calls: the completed test closes c, then all call cf.
CancelContext ==
  /\ test # NoTest /\ Ended /\ ctxDone = {}
  /\ ctxDone' = {Listener}
  /\ UNCHANGED <<dataVars, listenVars, lockVars, pc, call, res, queue, stopped, test, at, failed>>

\* If nobody took the status of the completed test before its end, the goroutine
\* that sends it panics: c is closed.
SendOnClosed ==
  /\ test = "completed" /\ ctxDone # {} /\ pc[Listener] = "returned"
  /\ Goto(Listener, "crash")
  /\ UNCHANGED <<dataVars, listenVars, lockVars, call, res, queue, userVars, test, at, failed>>

MainStep ==
  \/ CallFake \/ CallReturns \/ CallListBuilds \/ StartGoroutine \/ SleepEnds
  \/ LookAt \/ Collect \/ Timeout \/ CancelContext

-----------------------------------------------------------------------------
(* Free use *)

FreeCalls ==
  <<Listen("events"), Listen("cxl"), Listen("run"), Listen("done"), Event, Cancelling,
    Start, Complete("Success"), Op("DeleteBuild")>>

\* The goroutines are alike, and the entry of a call changes nothing that
\* others see: they may start one after the other, in the order of FreeCalls.
StartsAfter(p, i) ==
  \A q \in CASE p = Listener -> {Main} [] p = Setter -> {Listener} [] OTHER -> {} :
    \E j \in 1..i : call[q] = FreeCalls[j]

FreeCall(p) ==
  /\ test = NoTest /\ pc[p] = "idle"
  /\ \E i \in DOMAIN FreeCalls : StartsAfter(p, i) /\ Begin(p, FreeCalls[i])
  /\ UNCHANGED <<test, at, failed>>

FreeCancel(p) ==
  /\ test = NoTest /\ p \notin ctxDone /\ call[p].op = "listen" /\ pc[p] # "returned"
  /\ ctxDone' = ctxDone \union {p}
  /\ UNCHANGED <<dataVars, listenVars, lockVars, pc, call, res, queue, stopped, test, at, failed>>

\* The caller of ListenForBuildEvents does not read its channel any more.
FreeStop(p) ==
  /\ test = NoTest /\ p \notin stopped /\ Listens(p, "events") /\ pc[p] # "returned"
  /\ stopped' = stopped \union {p}
  /\ UNCHANGED <<dataVars, listenVars, lockVars, pc, call, res, queue, ctxDone, test, at, failed>>

GoStep(p) == FakeStep(p) /\ UNCHANGED <<test, at, failed>>

Next ==
  \/ MainStep \/ SendOnClosed
  \/ \E p \in Procs : GoStep(p) \/ FreeCall(p) \/ FreeCancel(p) \/ FreeStop(p)

Spec == Init /\ [][Next]_vars

\* Every goroutine that can go on does.
FairSpec == Spec /\ WF_vars(MainStep) /\ \A p \in Procs : WF_vars(GoStep(p))

-----------------------------------------------------------------------------
Labels == {"idle", "returned", "panic", "crash", "check", "read", "register", "wait",
           "forward", "leave", "close", "write", "range", "send", "GetBuildByID", "GetBuildByID (completed)", "GetAPIKey"}
           \union Writing

\* The calls of the tests
Ops == {"CreateBuild", "DeleteBuild", "SetBuildCompletedTimestamp", "GetBuildByID",
        "GetBuildByID (completed)", "CreateAPIKey", "GetAPIKey", "DeleteAPIKey"}
ListenCalls == [op : {"listen"}, kind : Kinds]
NotifyCalls == [op : {"notify"}, kind : Kinds \ {"events"}, status : Status]
SetCalls == [op : {"SetBuildStatus"}, status : Status]
Calls == ListenCalls \union NotifyCalls \union {Event} \union SetCalls \union [op : Ops]

FakeTypeOK ==
  /\ status \in Status \union {NoRow} /\ deleted \in Status \union {NoRow}
  /\ completed \in BOOLEAN /\ apikey \in BOOLEAN
  /\ regs \in [Kinds -> Seq(Procs)]
  /\ closed \subseteq Procs /\ readers \subseteq Procs /\ writers \subseteq Procs
  /\ ctxDone \subseteq Procs /\ stopped \subseteq Procs /\ missed \subseteq Procs
  /\ pc \in [Procs -> Labels] /\ call \in [Procs -> Calls \union {NoCall}]
  /\ queue \in [Procs -> Seq(Procs)] /\ heard \in [Procs -> Nat]

TypeOK ==
  /\ FakeTypeOK
  /\ test \in RunTests \union {NoTest} /\ at \in Nat \ {0} /\ failed \in BOOLEAN

Waiting(k) == {p \in Procs : pc[p] \in {"wait", "forward", "leave"} /\ kind(p) = k}

\* Although a listener that leaves removes another's channel, there are as
\* many channels registered as there are listeners: CancellationListeners, by
\* which tests wait until somebody listens, is right.
RegistryCount == \A k \in Kinds : Len(regs[k]) = Cardinality(Waiting(k))

\* A notifier sends on a closed channel, and panics, only if two goroutines
\* listened for the same.
TwoListeners == \E p, q \in Procs : p # q /\ call[p].op = "listen" /\ call[q] = call[p]
PanicNeedsTwoListeners == (\E p \in Procs : pc[p] = "panic") => TwoListeners

\* A test of the suite fails, or panics in its own goroutine, only if it neither
\* slept nor waited until its listener was registered and the signal came
\* between the listener's look at the status and its registration.
FailsByLostWakeupOnly ==
  failed \/ pc[Listener] = "crash" => test \in Racing /\ Listener \in missed

\* Requests for the builds of testDBListBuilds, with build states that do not
\* exist, the zero time and a time before it
Requests ==
  [repo : {"", "foo/bar2"}, ref : {"", "asdf", "1234"}, image : {"", "def"},
   state : {"Unknown", "Failure", "Running", "no state"},
   completedAfter : {Nil, At(-1), At(0), At(4)}, startedAfter : {Nil, At(0), At(5), At(9)},
   completedBefore : {Nil, At(0), At(2)}, startedBefore : {Nil, At(5), At(9)}, limit : {0, 2}]

\* The fake lists the builds that Postgres lists, or refuses what it refuses, for
\* every request that Server.ListBuilds lets through, with two exceptions: where
\* the request is converted to options with a limit only, by a build state that
\* does not exist or a zero time; and where CompletedAfter is before the zero time.
LimitOnly(opts) == opts # Zero /\ Conditionals(opts) = {}
Vanishes(req) == req.state \notin Status \/ \E f \in TimeFields : req[f] = At(0)
ListedAlike(d, req) ==
  LET opts == datalayerListBuildsOptions(req) IN
    \/ FakeListBuilds(d, opts) = PgListBuilds(d, opts)
    \/ LimitOnly(opts) /\ Vanishes(req)
    \/ opts.completedAfter < 0
FakeListsLikePostgres ==
  test = "list builds" /\ at = 1 =>
    \A req \in Requests : Accepted(req) => ListedAlike(Listed(7), req)

\* How the fake has to be used: nobody who listens for what is signalled leaves
\* early or stops reading, and nobody but AddEvent signals the same twice.
Disciplined ==
  \A p \in Procs : call[p].op = "notify" =>
    /\ \A q \in Procs : Listens(q, kind(p)) => q \notin ctxDone \union stopped
    /\ \A q \in Procs \ {p} : Notifies(q, kind(p)) => kind(p) = "events"

\* As long as the fake is used like that, no notifier is left behind with the
\* lock: every call that signals returns.
NotifierReturns ==
  \A p \in Procs :
    (pc[p] = "write") ~> (pc[p] \notin {"write", "range", "send"} \/ ~Disciplined)

\* Every test comes to its end, and nothing is registered any more after it:
\* no step of it waits for ever.
TestsEnd ==
  (test # NoTest) ~> (Ended /\ \A k \in Kinds : regs[k] = <<>>)

-----------------------------------------------------------------------------
(* Inductive strengthenings *)

\* Why TypeOK and RegistryCount hold: where a goroutine is tells what it calls.
CallInv ==
  \A p \in Procs :
    /\ pc[p] \in {"check", "read", "register", "wait", "forward", "leave", "close"}
         => call[p] \in ListenCalls
    /\ pc[p] = "SetBuildStatus" => call[p] \in SetCalls

\* Why PanicNeedsTwoListeners holds: a channel is closed only if there was
\* another one in the list.
ClosedInv ==
  /\ closed # {} \/ (\E p \in Procs : pc[p] \in {"close", "panic"}) => TwoListeners
  /\ test = NoTest => \A p \in Procs : pc[p] = "idle" => call[p] = NoCall

\* A test never has two goroutines that listen: its function has returned from
\* its own calls before it starts the listener, and listens no more.
ListensAt(i) == script[i].do \in {"call", "go"} /\ script[i].call.op = "listen"
ScriptInv ==
  test # NoTest =>
    /\ ~Step("call") => pc[Main] = "idle"
    /\ Step("call") /\ pc[Main] # "idle" => call[Main] = script[at].call
    /\ Step("go") /\ ListensAt(at) => call[Main].op # "listen"
    /\ call[Listener].op = "listen" =>
         /\ call[Main].op # "listen"
         /\ \A i \in at..Len(script) : ~ListensAt(i)
    /\ \A p \in Procs \ {Main, Listener} : call[p].op # "listen"
==============================================================================
