--------------------------- MODULE TestSuiteProofs ---------------------------
(***************************************************************************)
(* Theorems about TestSuite, for any number of goroutines in free use, and *)
(* about ListBuilds, for any builds and requests.                          *)
(***************************************************************************)
EXTENDS TestSuite, FiniteSetTheorems, SequenceTheorems, TLAPS

-----------------------------------------------------------------------------
(* The scripts of the tests *)

\* What the proofs need to know of a script: only the goroutine Listener is
\* started to listen, right after a call of the test function that does not
\* listen, and nothing listens after that.
LooksFor(x) == x.do \in {"call", "go"} /\ x.call.op = "listen"
GoodScript(s) ==
  /\ Len(s) \in Nat
  /\ \A i \in 1..Len(s) :
       /\ s[i].do \in {"call", "go"} => s[i].call \in Calls
       /\ s[i].do = "go" => s[i].proc \in {Listener, Setter}
       /\ s[i].do = "go" /\ s[i].call.op = "listen" =>
            /\ s[i].proc = Listener
            /\ i > 1 /\ s[i - 1].do = "call" /\ s[i - 1].call.op # "listen"
            /\ \A j \in (i + 1)..Len(s) : ~LooksFor(s[j])

\* The calls the scripts are made of
LEMMA TestCalls ==
  /\ \A name \in Ops : Op(name) \in Calls /\ Op(name).op = name
  /\ \A s \in Status : Set(s) \in Calls /\ Set(s).op = "SetBuildStatus"
  /\ \A k \in Kinds : Listen(k) \in Calls /\ Listen(k).op = "listen"
  /\ Event \in Calls /\ Event.op = "notify"
  /\ \A k \in Kinds \ {"events"}, s \in Status : Notify(k, s) \in Calls /\ Notify(k, s).op = "notify"
<1>1. \A name \in Ops : Op(name) \in Calls /\ Op(name).op = name
  BY DEF Calls, Op
<1>2. \A s \in Status : Set(s) \in Calls /\ Set(s).op = "SetBuildStatus"
  BY DEF Calls, SetCalls, Set
<1>3. \A k \in Kinds : Listen(k) \in Calls /\ Listen(k).op = "listen"
  BY DEF Calls, ListenCalls, Listen
<1>4. Event \in Calls /\ Event.op = "notify"
  BY DEF Calls, Event, Notify
<1>5. \A k \in Kinds \ {"events"}, s \in Status : Notify(k, s) \in Calls /\ Notify(k, s).op = "notify"
  BY DEF Calls, NotifyCalls, Notify
<1> QED
  BY <1>1, <1>2, <1>3, <1>4, <1>5

\* Steps of a script: a call, the start of a goroutine, and anything else
IsCall(x, c) == x.do = "call" /\ x.call = c
IsGo(x, p, c) == x.do = "go" /\ x.proc = p /\ x.call = c
Looks(x) == x.do \notin {"call", "go"}

\* What a step may do before the listener is started, as that, and after it
Quiet(x) ==
  ~Looks(x) =>
    /\ x.call \in Calls /\ x.call.op # "listen"
    /\ x.do = "go" => x.proc = Setter
CallsOnly(x) == x.do = "call" /\ x.call \in Calls
StartsListener(x) == x.do = "go" /\ x.proc = Listener /\ x.call \in ListenCalls

\* What each form of a step may do
LEMMA StepKinds ==
  /\ \A x, name : name \in Ops /\ IsCall(x, Op(name)) => CallsOnly(x) /\ Quiet(x)
  /\ \A x, s : s \in Status /\ IsCall(x, Set(s)) => CallsOnly(x) /\ Quiet(x)
  /\ \A x : IsCall(x, Event) => CallsOnly(x) /\ Quiet(x)
  /\ \A x, k : k \in Kinds /\ IsCall(x, Listen(k)) => CallsOnly(x)
  /\ \A x, k : k \in Kinds /\ IsGo(x, Listener, Listen(k)) => StartsListener(x)
  /\ \A x : IsGo(x, Setter, Cancelling) \/ IsGo(x, Setter, Start)
               \/ IsGo(x, Setter, Complete("Success")) => Quiet(x)
  /\ \A x : Looks(x) => Quiet(x)
<1>0. ASSUME NEW x, NEW c \in Calls, c.op # "listen", IsCall(x, c)
      PROVE  CallsOnly(x) /\ Quiet(x)
  <2>1. x.do = "call" /\ x.call = c
    BY <1>0 DEF IsCall
  <2>2. x.call \in Calls /\ x.call.op # "listen"
    BY <2>1, <1>0
  <2> QED
    BY <2>1, <2>2 DEF CallsOnly, Quiet
<1>1. ASSUME NEW x, NEW name \in Ops, IsCall(x, Op(name))
      PROVE  CallsOnly(x) /\ Quiet(x)
  BY <1>0, <1>1, TestCalls DEF Ops
<1>2. ASSUME NEW x, NEW s \in Status, IsCall(x, Set(s))
      PROVE  CallsOnly(x) /\ Quiet(x)
  BY <1>0, <1>2, TestCalls
<1>3. ASSUME NEW x, IsCall(x, Event)
      PROVE  CallsOnly(x) /\ Quiet(x)
  BY <1>0, <1>3, TestCalls
<1>4. ASSUME NEW x, NEW k \in Kinds, IsCall(x, Listen(k))
      PROVE  CallsOnly(x)
  BY <1>4, TestCalls DEF IsCall, CallsOnly
<1>5. ASSUME NEW x, NEW k \in Kinds, IsGo(x, Listener, Listen(k))
      PROVE  StartsListener(x)
  BY <1>5 DEF IsGo, StartsListener, ListenCalls, Listen
<1>6. ASSUME NEW x, NEW c \in Calls, c.op # "listen", IsGo(x, Setter, c)
      PROVE  Quiet(x)
  BY <1>6 DEF IsGo, Quiet
<1>7. \A c \in {Cancelling, Start, Complete("Success")} : c \in Calls /\ c.op # "listen"
  BY TestCalls DEF Cancelling, Start, Complete, Kinds, Status
<1> QED
  BY <1>1, <1>2, <1>3, <1>4, <1>5, <1>6, <1>7 DEF Quiet

\* The n-th step starts the listener; 0 if none does.
ListensFrom(n, s) ==
  /\ Len(s) \in Nat /\ n \in Nat \ {1}
  /\ \A i \in 1..Len(s) :
       /\ i < n => CallsOnly(s[i]) 
       /\ i = n => StartsListener(s[i]) /\ Quiet(s[n - 1])
       /\ i > n => Quiet(s[i])

\* A script of this shape is as it has to be.
LEMMA Shape ==
  ASSUME NEW s, NEW n, ListensFrom(n, s)
  PROVE  GoodScript(s)
<1> USE DEF ListensFrom
<1>1. ListenCalls \subseteq Calls /\ \A c \in ListenCalls : c.op = "listen"
  BY DEF ListenCalls, Calls
<1>2. ASSUME NEW i \in 1..Len(s)
      PROVE  /\ s[i].do \in {"call", "go"} => s[i].call \in Calls
             /\ s[i].do = "go" => s[i].proc \in {Listener, Setter}
             /\ s[i].do = "go" /\ s[i].call.op = "listen" =>
                  /\ s[i].proc = Listener
                  /\ i > 1 /\ s[i - 1].do = "call" /\ s[i - 1].call.op # "listen"
                  /\ \A j \in (i + 1)..Len(s) : ~LooksFor(s[j])
  <2>1. CASE i < n
    BY <2>1 DEF CallsOnly
  <2>2. CASE i > n
    BY <2>2 DEF Quiet, Looks
  <2>3. CASE i = n
    <3>1. s[i].do = "go" /\ s[i].proc = Listener /\ s[i].call \in Calls
      BY <2>3, <1>1 DEF StartsListener
    <3>2. CallsOnly(s[i - 1]) /\ Quiet(s[i - 1]) /\ i > 1
      BY <2>3
    <3>3. s[i - 1].do = "call" /\ s[i - 1].call.op # "listen"
      BY <3>2 DEF CallsOnly, Quiet, Looks
    <3>4. \A j \in (i + 1)..Len(s) : Quiet(s[j])
      BY <2>3
    <3> QED
      BY <3>1, <3>2, <3>3, <3>4 DEF Quiet, Looks, LooksFor
  <2> QED
    BY <2>1, <2>2, <2>3
<1> QED
  BY <1>2 DEF GoodScript

(* The tests that start no goroutine *)

LEMMA Good_testDBCreateBuild == GoodScript(testDBCreateBuild)
<1> DEFINE s == testDBCreateBuild
<1>0. Len(s) = 3
  BY DEF testDBCreateBuild
<1>1. /\ IsCall(s[1], Op("CreateBuild")) /\ IsCall(s[2], Op("GetBuildByID"))
      /\ IsCall(s[3], Op("DeleteBuild"))
  BY DEF testDBCreateBuild, OK, Do, IsCall
<1> HIDE DEF s
<1>2. Quiet(s[1]) /\ Quiet(s[2]) /\ Quiet(s[3])
  BY <1>1, StepKinds DEF Ops, Kinds, Status
<1>3. ListensFrom(0, s)
  BY <1>0, <1>2 DEF ListensFrom
<1>4. GoodScript(s)
  BY <1>3, Shape
<1> QED
  BY <1>4 DEF s

LEMMA Good_testDBDeleteBuild == GoodScript(testDBDeleteBuild)
<1> DEFINE s == testDBDeleteBuild
<1>0. Len(s) = 1
  BY DEF testDBDeleteBuild
<1>1. IsCall(s[1], Op("DeleteBuild"))
  BY DEF testDBDeleteBuild, OK, Do, IsCall
<1> HIDE DEF s
<1>2. Quiet(s[1])
  BY <1>1, StepKinds DEF Ops, Kinds, Status
<1>3. ListensFrom(0, s)
  BY <1>0, <1>2 DEF ListensFrom
<1>4. GoodScript(s)
  BY <1>3, Shape
<1> QED
  BY <1>4 DEF s

LEMMA Good_testDBGetBuildByID == GoodScript(testDBGetBuildByID)
<1> DEFINE s == testDBGetBuildByID
<1>0. Len(s) = 4
  BY DEF testDBGetBuildByID
<1>1. /\ IsCall(s[1], Op("GetBuildByID")) /\ IsCall(s[2], Op("CreateBuild"))
      /\ IsCall(s[3], Op("GetBuildByID")) /\ IsCall(s[4], Op("DeleteBuild"))
  BY DEF testDBGetBuildByID, OK, Do, IsCall
<1> HIDE DEF s
<1>2. Quiet(s[1]) /\ Quiet(s[2]) /\ Quiet(s[3]) /\ Quiet(s[4])
  BY <1>1, StepKinds DEF Ops, Kinds, Status
<1>3. ListensFrom(0, s)
  BY <1>0, <1>2 DEF ListensFrom
<1>4. GoodScript(s)
  BY <1>3, Shape
<1> QED
  BY <1>4 DEF s

LEMMA Good_testDBSetBuildCompletedTimestamp == GoodScript(testDBSetBuildCompletedTimestamp)
<1> DEFINE s == testDBSetBuildCompletedTimestamp
<1>0. Len(s) = 4
  BY DEF testDBSetBuildCompletedTimestamp
<1>1. /\ IsCall(s[1], Op("CreateBuild")) /\ IsCall(s[2], Op("SetBuildCompletedTimestamp"))
      /\ IsCall(s[3], Op("GetBuildByID (completed)")) /\ IsCall(s[4], Op("DeleteBuild"))
  BY DEF testDBSetBuildCompletedTimestamp, OK, Do, IsCall
<1> HIDE DEF s
<1>2. Quiet(s[1]) /\ Quiet(s[2]) /\ Quiet(s[3]) /\ Quiet(s[4])
  BY <1>1, StepKinds DEF Ops, Kinds, Status
<1>3. ListensFrom(0, s)
  BY <1>0, <1>2 DEF ListensFrom
<1>4. GoodScript(s)
  BY <1>3, Shape
<1> QED
  BY <1>4 DEF s

LEMMA Good_testDBSetBuildStatus == GoodScript(testDBSetBuildStatus)
<1> DEFINE s == testDBSetBuildStatus
<1>0. Len(s) = 5
  BY DEF testDBSetBuildStatus
<1>1. /\ IsCall(s[1], Op("CreateBuild")) /\ IsCall(s[2], Op("GetBuildByID"))
      /\ IsCall(s[3], Set("Success")) /\ IsCall(s[4], Op("GetBuildByID"))
      /\ IsCall(s[5], Op("DeleteBuild"))
  BY DEF testDBSetBuildStatus, OK, Do, IsCall
<1> HIDE DEF s
<1>2. Quiet(s[1]) /\ Quiet(s[2]) /\ Quiet(s[3]) /\ Quiet(s[4]) /\ Quiet(s[5])
  BY <1>1, StepKinds DEF Ops, Kinds, Status
<1>3. ListensFrom(0, s)
  BY <1>0, <1>2 DEF ListensFrom
<1>4. GoodScript(s)
  BY <1>3, Shape
<1> QED
  BY <1>4 DEF s

LEMMA Good_testDBCreateAPIKey == GoodScript(testDBCreateAPIKey)
<1> DEFINE s == testDBCreateAPIKey
<1>0. Len(s) = 3
  BY DEF testDBCreateAPIKey
<1>1. /\ IsCall(s[1], Op("CreateAPIKey")) /\ IsCall(s[2], Op("GetAPIKey"))
      /\ IsCall(s[3], Op("DeleteAPIKey"))
  BY DEF testDBCreateAPIKey, OK, Do, IsCall
<1> HIDE DEF s
<1>2. Quiet(s[1]) /\ Quiet(s[2]) /\ Quiet(s[3])
  BY <1>1, StepKinds DEF Ops, Kinds, Status
<1>3. ListensFrom(0, s)
  BY <1>0, <1>2 DEF ListensFrom
<1>4. GoodScript(s)
  BY <1>3, Shape
<1> QED
  BY <1>4 DEF s

LEMMA Good_testDBGetAPIKey == GoodScript(testDBGetAPIKey)
<1> DEFINE s == testDBGetAPIKey
<1>0. Len(s) = 4
  BY DEF testDBGetAPIKey
<1>1. /\ IsCall(s[1], Op("GetAPIKey")) /\ IsCall(s[2], Op("CreateAPIKey"))
      /\ IsCall(s[3], Op("GetAPIKey")) /\ IsCall(s[4], Op("DeleteAPIKey"))
  BY DEF testDBGetAPIKey, OK, Do, IsCall
<1> HIDE DEF s
<1>2. Quiet(s[1]) /\ Quiet(s[2]) /\ Quiet(s[3]) /\ Quiet(s[4])
  BY <1>1, StepKinds DEF Ops, Kinds, Status
<1>3. ListensFrom(0, s)
  BY <1>0, <1>2 DEF ListensFrom
<1>4. GoodScript(s)
  BY <1>3, Shape
<1> QED
  BY <1>4 DEF s

LEMMA Good_testDBDeleteAPIKey == GoodScript(testDBDeleteAPIKey)
<1> DEFINE s == testDBDeleteAPIKey
<1>0. Len(s) = 3
  BY DEF testDBDeleteAPIKey
<1>1. /\ IsCall(s[1], Op("CreateAPIKey")) /\ IsCall(s[2], Op("DeleteAPIKey"))
      /\ IsCall(s[3], Op("DeleteAPIKey"))
  BY DEF testDBDeleteAPIKey, OK, Do, IsCall
<1> HIDE DEF s
<1>2. Quiet(s[1]) /\ Quiet(s[2]) /\ Quiet(s[3])
  BY <1>1, StepKinds DEF Ops, Kinds, Status
<1>3. ListensFrom(0, s)
  BY <1>0, <1>2 DEF ListensFrom
<1>4. GoodScript(s)
  BY <1>3, Shape
<1> QED
  BY <1>4 DEF s

LEMMA Good_testDBListBuilds == GoodScript(testDBListBuilds)
<1> DEFINE s == testDBListBuilds
<1>1. Len(s) = 14 /\ \A i \in 1..14 : Looks(s[i])
  BY DEF testDBListBuilds, List, ListFails, Looks
<1> HIDE DEF s
<1>2. \A i \in 1..14 : Quiet(s[i])
  BY <1>1, StepKinds
<1>3. ListensFrom(0, s)
  BY <1>1, <1>2 DEF ListensFrom
<1>4. GoodScript(s)
  BY <1>3, Shape
<1> QED
  BY <1>4 DEF s

(* The tests that start one *)

LEMMA Good_testDBListenAndAddEvents ==
  GoodScript(testDBListenAndAddEvents)
<1> DEFINE s == testDBListenAndAddEvents
<1>0. Len(s) = 10
  BY DEF testDBListenAndAddEvents
<1>1. /\ IsCall(s[1], Op("CreateBuild")) /\ IsCall(s[2], Set("Failure"))
      /\ IsCall(s[3], Listen("events")) /\ IsCall(s[4], Set("Running"))
      /\ IsGo(s[5], Listener, Listen("events")) /\ Looks(s[6]) /\ IsCall(s[7], Event)
      /\ IsCall(s[8], Event) /\ IsCall(s[9], Event) /\ Looks(s[10])
  BY DEF testDBListenAndAddEvents,
         OK, Do, Go, Sleep, NotYet, AwaitSetter, Returns, Heard, IsCall, IsGo, Looks
<1> HIDE DEF s
<1>2. /\ CallsOnly(s[1]) /\ CallsOnly(s[2]) /\ CallsOnly(s[3]) /\ CallsOnly(s[4])
      /\ Quiet(s[4]) /\ StartsListener(s[5]) /\ Quiet(s[6]) /\ Quiet(s[7]) /\ Quiet(s[8])
      /\ Quiet(s[9]) /\ Quiet(s[10])
  BY <1>1, StepKinds DEF Ops, Kinds, Status
<1>3. ListensFrom(5, s)
  BY <1>0, <1>2 DEF ListensFrom
<1>4. GoodScript(s)
  BY <1>3, Shape
<1> QED
  BY <1>4 DEF s

LEMMA Good_testDBCancelBuildAndListenForCancellation ==
  GoodScript(testDBCancelBuildAndListenForCancellation)
<1> DEFINE s == testDBCancelBuildAndListenForCancellation
<1>0. Len(s) = 11
  BY DEF testDBCancelBuildAndListenForCancellation
<1>1. /\ IsCall(s[1], Op("CreateBuild")) /\ IsCall(s[2], Listen("cxl"))
      /\ IsCall(s[3], Set("CancelRequested")) /\ IsCall(s[4], Listen("cxl"))
      /\ IsCall(s[5], Set("Running")) /\ IsGo(s[6], Listener, Listen("cxl")) /\ Looks(s[7])
      /\ Looks(s[8]) /\ IsGo(s[9], Setter, Cancelling) /\ Looks(s[10]) /\ Looks(s[11])
  BY DEF testDBCancelBuildAndListenForCancellation,
         OK, Do, Go, Sleep, NotYet, AwaitSetter, Returns, Heard, IsCall, IsGo, Looks
<1> HIDE DEF s
<1>2. /\ CallsOnly(s[1]) /\ CallsOnly(s[2]) /\ CallsOnly(s[3]) /\ CallsOnly(s[4])
      /\ CallsOnly(s[5]) /\ Quiet(s[5]) /\ StartsListener(s[6]) /\ Quiet(s[7])
      /\ Quiet(s[8]) /\ Quiet(s[9]) /\ Quiet(s[10]) /\ Quiet(s[11])
  BY <1>1, StepKinds DEF Ops, Kinds, Status
<1>3. ListensFrom(6, s)
  BY <1>0, <1>2 DEF ListensFrom
<1>4. GoodScript(s)
  BY <1>3, Shape
<1> QED
  BY <1>4 DEF s

LEMMA Good_testDBSetBuildAsRunningAndListenForBuildRunning ==
  GoodScript(testDBSetBuildAsRunningAndListenForBuildRunning)
<1> DEFINE s == testDBSetBuildAsRunningAndListenForBuildRunning
<1>0. Len(s) = 11
  BY DEF testDBSetBuildAsRunningAndListenForBuildRunning
<1>1. /\ IsCall(s[1], Op("CreateBuild")) /\ IsCall(s[2], Set("Success"))
      /\ IsCall(s[3], Listen("run")) /\ IsCall(s[4], Set("Running"))
      /\ IsCall(s[5], Listen("run")) /\ IsCall(s[6], Set("NotStarted"))
      /\ IsGo(s[7], Listener, Listen("run")) /\ Looks(s[8]) /\ IsGo(s[9], Setter, Start)
      /\ Looks(s[10]) /\ Looks(s[11])
  BY DEF testDBSetBuildAsRunningAndListenForBuildRunning,
         OK, Do, Go, Sleep, NotYet, AwaitSetter, Returns, Heard, IsCall, IsGo, Looks
<1> HIDE DEF s
<1>2. /\ CallsOnly(s[1]) /\ CallsOnly(s[2]) /\ CallsOnly(s[3]) /\ CallsOnly(s[4])
      /\ CallsOnly(s[5]) /\ CallsOnly(s[6]) /\ Quiet(s[6]) /\ StartsListener(s[7])
      /\ Quiet(s[8]) /\ Quiet(s[9]) /\ Quiet(s[10]) /\ Quiet(s[11])
  BY <1>1, StepKinds DEF Ops, Kinds, Status
<1>3. ListensFrom(7, s)
  BY <1>0, <1>2 DEF ListensFrom
<1>4. GoodScript(s)
  BY <1>3, Shape
<1> QED
  BY <1>4 DEF s

LEMMA Good_testDBSetBuildAsCompletedAndListenForBuildCompleted ==
  GoodScript(testDBSetBuildAsCompletedAndListenForBuildCompleted)
<1> DEFINE s == testDBSetBuildAsCompletedAndListenForBuildCompleted
<1>0. Len(s) = 11
  BY DEF testDBSetBuildAsCompletedAndListenForBuildCompleted
<1>1. /\ IsCall(s[1], Op("CreateBuild")) /\ IsCall(s[2], Set("Unknown"))
      /\ IsCall(s[3], Listen("done")) /\ IsCall(s[4], Set("Success"))
      /\ IsCall(s[5], Listen("done")) /\ IsCall(s[6], Set("Running"))
      /\ IsGo(s[7], Listener, Listen("done")) /\ Looks(s[8])
      /\ IsGo(s[9], Setter, Complete("Success")) /\ Looks(s[10]) /\ Looks(s[11])
  BY DEF testDBSetBuildAsCompletedAndListenForBuildCompleted,
         OK, Do, Go, Sleep, NotYet, AwaitSetter, Returns, Heard, IsCall, IsGo, Looks
<1> HIDE DEF s
<1>2. /\ CallsOnly(s[1]) /\ CallsOnly(s[2]) /\ CallsOnly(s[3]) /\ CallsOnly(s[4])
      /\ CallsOnly(s[5]) /\ CallsOnly(s[6]) /\ Quiet(s[6]) /\ StartsListener(s[7])
      /\ Quiet(s[8]) /\ Quiet(s[9]) /\ Quiet(s[10]) /\ Quiet(s[11])
  BY <1>1, StepKinds DEF Ops, Kinds, Status
<1>3. ListensFrom(7, s)
  BY <1>0, <1>2 DEF ListensFrom
<1>4. GoodScript(s)
  BY <1>3, Shape
<1> QED
  BY <1>4 DEF s

\* Every test has such a script.
LEMMA Scripts ==
  ASSUME test \in RunTests
  PROVE  GoodScript(script)
<1>1. test = "create build" => script = testDBCreateBuild
  BY Zenon DEF script, tfunc
<1>2. test = "delete build" => script = testDBDeleteBuild
  BY Zenon DEF script, tfunc
<1>3. test = "get build by ID" => script = testDBGetBuildByID
  BY Zenon DEF script, tfunc
<1>4. test = "set build completed timestamp" => script = testDBSetBuildCompletedTimestamp
  BY Zenon DEF script, tfunc
<1>5. test = "set build status" => script = testDBSetBuildStatus
  BY Zenon DEF script, tfunc
<1>6. test = "events" => script = testDBListenAndAddEvents
  BY Zenon DEF script, tfunc
<1>7. test = "cancellation" => script = testDBCancelBuildAndListenForCancellation
  BY Zenon DEF script, tfunc
<1>8. test = "running" => script = testDBSetBuildAsRunningAndListenForBuildRunning
  BY Zenon DEF script, tfunc
<1>9. test = "completed" => script = testDBSetBuildAsCompletedAndListenForBuildCompleted
  BY Zenon DEF script, tfunc
<1>10. test = "list builds" => script = testDBListBuilds
  BY Zenon DEF script, tfunc
<1>11. test = "create API key" => script = testDBCreateAPIKey
  BY Zenon DEF script, tfunc
<1>12. test = "get API key" => script = testDBGetAPIKey
  BY Zenon DEF script, tfunc
<1>13. test = "delete API key" => script = testDBDeleteAPIKey
  BY Zenon DEF script, tfunc
<1> QED
  BY <1>1, <1>2, <1>3, <1>4, <1>5, <1>6, <1>7, <1>8, <1>9, <1>10, <1>11, <1>12, <1>13,
     Good_testDBCreateBuild,
     Good_testDBDeleteBuild,
     Good_testDBGetBuildByID,
     Good_testDBSetBuildCompletedTimestamp,
     Good_testDBSetBuildStatus,
     Good_testDBListenAndAddEvents,
     Good_testDBCancelBuildAndListenForCancellation,
     Good_testDBSetBuildAsRunningAndListenForBuildRunning,
     Good_testDBSetBuildAsCompletedAndListenForBuildCompleted,
     Good_testDBListBuilds,
     Good_testDBCreateAPIKey,
     Good_testDBGetAPIKey,
     Good_testDBDeleteAPIKey
     DEF RunTests, Sleeping, Racing

\* Free use has no script.
LEMMA FreeUse ==
  ASSUME TypeOK, test = NoTest
  PROVE  Ended
<1>1. script = <<>>
  BY NoTestAssumption, Zenon DEF script, tfunc, RunTests, Sleeping, Racing
<1> QED
  BY <1>1 DEF Ended, TypeOK

\* A test that has not ended is at a step of its script,
LEMMA ScriptSteps ==
  ASSUME TypeOK, ~Ended
  PROVE  test \in RunTests /\ at \in 1..Len(script) /\ Len(script) \in Nat /\ GoodScript(script)
<1>1. test \in RunTests
  BY FreeUse DEF TypeOK
<1>2. GoodScript(script)
  BY <1>1, Scripts
<1> QED
  BY <1>1, <1>2 DEF Ended, TypeOK, GoodScript

\* which calls a method of the data layer,
LEMMA CallTyped ==
  ASSUME TypeOK, Step("call") \/ Step("go")
  PROVE  script[at].call \in Calls
  BY ScriptSteps DEF Step, GoodScript

\* and starts the listener or the setter.
LEMMA GoTyped ==
  ASSUME TypeOK, Step("go")
  PROVE  script[at].proc \in {Listener, Setter}
  BY ScriptSteps DEF Step, GoodScript

-----------------------------------------------------------------------------
(* Entry of a call *)

\* A call enters neither a wait nor its end.
LEMMA FirstSteps ==
  ASSUME NEW c \in Calls
  PROVE  /\ FirstStep(c) \in Labels \ {"idle", "panic", "close", "wait", "forward", "leave"}
         /\ FirstStep(c) \in {"read", "check", "register"} => c \in ListenCalls
         /\ FirstStep(c) = "SetBuildStatus" => c \in SetCalls
<1>1. CASE c \in ListenCalls
  <2>1. c.op = "listen"
    BY <1>1 DEF ListenCalls
  <2>2. FirstStep(c) = "check"
    BY <2>1, Zenon DEF FirstStep
  <2> QED
    BY <1>1, <2>2 DEF Labels
<1>2. CASE c \in NotifyCalls \/ c = Event
  <2>1. c.op = "notify"
    BY <1>2 DEF NotifyCalls, Event, Notify
  <2>2. FirstStep(c) = "write"
    BY <2>1, Zenon DEF FirstStep
  <2> QED
    BY <2>2 DEF Labels
<1>3. CASE c \in SetCalls
  <2>1. c.op = "SetBuildStatus"
    BY <1>3 DEF SetCalls
  <2>2. FirstStep(c) = "SetBuildStatus"
    BY <2>1, Zenon DEF FirstStep
  <2> QED
    BY <1>3, <2>2 DEF Labels, Writing
<1>4. CASE c \in [op : Ops]
  <2>1. c.op \in Ops
    BY <1>4
  <2>2. c.op # "listen" /\ c.op # "notify"
    BY <2>1 DEF Ops
  <2>3. FirstStep(c) = c.op
    BY <2>2, Zenon DEF FirstStep
  <2> QED
    BY <2>1, <2>3 DEF Labels, Writing, Ops
<1> QED
  BY <1>1, <1>2, <1>3, <1>4 DEF Calls

-----------------------------------------------------------------------------
(* Types *)

\* The steps of the four listening methods, and those of AddEvent
ListenStep(p) ==
  \/ Check(p) \/ CheckExists(p) \/ ReadStatus(p) \/ Register(p) \/ ContextCancelled(p)
  \/ (kind(p) = "events" /\ LeaveEvents(p)) \/ Leave(p) \/ Close(p) \/ Forward(p)
AddEventStep(p) == WriteEvent(p) \/ RangeListeners(p) \/ SendEvent(p) \/ SendDone(p)

\* A call that notifies is AddEvent or sets a status.
LEMMA CallsByOp ==
  ASSUME NEW c \in Calls \union {NoCall}, c.op = "notify"
  PROVE  c.kind \in Kinds /\ (c.kind # "events" => c \in NotifyCalls)
<1>1. c \notin ListenCalls /\ c \notin SetCalls
  BY DEF ListenCalls, SetCalls
<1>2. c \notin [op : Ops]
  BY DEF Ops
<1>3. c # NoCall
  BY DEF NoCall
<1>4. c \in NotifyCalls \/ c = Event
  BY <1>1, <1>2, <1>3 DEF Calls
<1> QED
  BY <1>4 DEF NotifyCalls, Event, Notify, Kinds

\* Which steps a call takes
LEMMA FakeCases ==
  ASSUME FakeTypeOK, NEW p \in Procs, FakeStep(p)
  PROVE  \/ BlockOnLock(p) \/ CreateBuild(p) \/ UpdateBuild(p) \/ GetBuildByID(p) \/ UseAPIKey(p)
         \/ call[p] \in ListenCalls /\ kind(p) \in Kinds /\ ListenStep(p)
         \/ call[p].op = "notify" /\ kind(p) = "events" /\ AddEventStep(p)
         \/ call[p] \in NotifyCalls /\ kind(p) \in Kinds /\ SetAndSignal(p)
<1>1. ASSUME NEW k \in Kinds, Listens(p, k)
      PROVE  call[p] \in ListenCalls /\ kind(p) = k
  BY <1>1 DEF Listens, Listen, ListenCalls, kind
<1>2. ASSUME NEW k \in Kinds, Notifies(p, k), k # "events"
      PROVE  call[p] \in NotifyCalls /\ kind(p) \in Kinds
  BY <1>2, CallsByOp DEF FakeTypeOK, Notifies, kind
<1>3. \A k \in Kinds : kind(p) = k => kind(p) \in Kinds
  OBVIOUS
<1>4. CASE ListenForBuildEvents(p)
  BY <1>1, <1>4 DEF ListenForBuildEvents, ListenStep, Kinds
<1>5. CASE ListenForCancellation(p)
  BY <1>1, <1>5 DEF ListenForCancellation, WaitAndLeave, ListenStep, Kinds
<1>6. CASE ListenForBuildRunning(p)
  BY <1>1, <1>6 DEF ListenForBuildRunning, WaitAndLeave, ListenStep, Kinds
<1>7. CASE ListenForBuildCompleted(p)
  BY <1>1, <1>7 DEF ListenForBuildCompleted, WaitAndLeave, ListenStep, Kinds
<1>8. CASE AddEvent(p)
  BY <1>8 DEF AddEvent, Notifies, AddEventStep
<1>9. CASE CancelBuild(p) \/ SetBuildAsRunning(p) \/ SetBuildAsCompleted(p)
  BY <1>2, <1>9 DEF CancelBuild, SetBuildAsRunning, SetBuildAsCompleted, Kinds
<1> QED
  BY <1>4, <1>5, <1>6, <1>7, <1>8, <1>9 DEF FakeStep

\* The receiver of a notifier is a goroutine.
LEMMA HeadAndTail ==
  ASSUME FakeTypeOK, NEW p \in Procs, Sending(p)
  PROVE  Receiver(p) \in Procs /\ Tail(queue[p]) \in Seq(Procs)
<1>1. queue[p] \in Seq(Procs) /\ queue[p] # <<>>
  BY DEF FakeTypeOK, Sending
<1> QED
  BY <1>1 DEF Receiver

\* RemoveLast makes one list one shorter and leaves the others alone.
LEMMA Shortened ==
  ASSUME FakeTypeOK, NEW k \in Kinds, RemoveLast(k)
  PROVE  /\ regs' \in [Kinds -> Seq(Procs)]
         /\ \A j \in Kinds : j # k => regs'[j] = regs[j]
         /\ regs[k] # <<>> => Len(regs'[k]) = Len(regs[k]) - 1
<1> DEFINE s == IF regs[k] = <<>> THEN regs[k] ELSE SubSeq(regs[k], 1, Len(regs[k]) - 1)
<1>1. regs \in [Kinds -> Seq(Procs)] /\ regs[k] \in Seq(Procs)
  BY DEF FakeTypeOK
<1>2. regs[k] # <<>> => Len(regs[k]) \in Nat \ {0}
  BY <1>1
<1>3. s \in Seq(Procs) /\ (regs[k] # <<>> => Len(s) = Len(regs[k]) - 1)
  <2>1. CASE regs[k] = <<>>
    BY <1>1, <2>1
  <2>2. CASE regs[k] # <<>>
    <3>1. Len(regs[k]) - 1 \in Int /\ \A i \in 1..(Len(regs[k]) - 1) : regs[k][i] \in Procs
      BY <1>1, <1>2, <2>2
    <3>2. /\ SubSeq(regs[k], 1, Len(regs[k]) - 1) \in Seq(Procs)
          /\ Len(SubSeq(regs[k], 1, Len(regs[k]) - 1)) = Len(regs[k]) - 1
      BY <1>2, <2>2, <3>1, SubSeqProperties
    <3> QED
      BY <2>2, <3>2
  <2> QED
    BY <2>1, <2>2
<1>4. regs' = [regs EXCEPT ![k] = s]
  BY DEF RemoveLast
<1> HIDE DEF s
<1> QED
  BY <1>1, <1>3, <1>4

\* A step of the fake keeps the types.
LEMMA FakeTypes ==
  ASSUME FakeTypeOK, CallInv, NEW p \in Procs, FakeStep(p)
  PROVE  FakeTypeOK' /\ CallInv'
<1> USE DEF Return, Goto, listenVars, userVars
<1>1. CASE BlockOnLock(p)
  BY <1>1 DEF BlockOnLock, FakeTypeOK, CallInv, dataVars
<1>2. CASE CreateBuild(p)
  BY <1>2 DEF CreateBuild, WithLock, FakeTypeOK, CallInv, Labels, Status
<1>3. CASE UpdateBuild(p)
  <2>1. pc[p] = "SetBuildStatus" => call[p].status \in Status
    BY DEF CallInv, SetCalls
  <2> QED
    BY <1>3, <2>1 DEF UpdateBuild, WithLock, FakeTypeOK, CallInv, Labels
<1>4. CASE GetBuildByID(p)
  BY <1>4 DEF GetBuildByID, FakeTypeOK, CallInv, dataVars, lockVars, Labels
<1>5. CASE UseAPIKey(p)
  BY <1>5 DEF UseAPIKey, WithLock, FakeTypeOK, CallInv, lockVars, Labels
<1>6. CASE call[p] \in ListenCalls /\ kind(p) \in Kinds /\ ListenStep(p)
  <2> USE DEF dataVars, lockVars
  <2>1. CASE Check(p)
    BY <1>6, <2>1 DEF Check, Decide, FakeTypeOK, CallInv, Labels
  <2>2. CASE CheckExists(p)
    BY <1>6, <2>2 DEF CheckExists, FakeTypeOK, CallInv, Labels
  <2>3. CASE ReadStatus(p)
    BY <1>6, <2>3 DEF ReadStatus, Decide, FakeTypeOK, CallInv, Labels
  <2>4. CASE Register(p)
    <3>1. regs' \in [Kinds -> Seq(Procs)]
      BY <1>6, <2>4 DEF Register, FakeTypeOK
    <3> QED
      BY <1>6, <2>4, <3>1 DEF Register, WithLock, FakeTypeOK, CallInv, Labels, Writing
  <2>5. CASE ContextCancelled(p)
    BY <1>6, <2>5 DEF ContextCancelled, FakeTypeOK, CallInv, Labels, Writing
  <2>6. CASE LeaveEvents(p)
    <3>1. regs' \in [Kinds -> Seq(Procs)]
      BY <2>6, Shortened DEF LeaveEvents, Kinds
    <3> QED
      BY <1>6, <2>6, <3>1 DEF LeaveEvents, WithLock, FakeTypeOK, CallInv, Labels
  <2>7. CASE Leave(p)
    <3>1. regs' \in [Kinds -> Seq(Procs)]
      BY <1>6, <2>7, Shortened DEF Leave
    <3> QED
      BY <1>6, <2>7, <3>1 DEF Leave, WithLock, FakeTypeOK, CallInv, Labels
  <2>8. CASE Close(p)
    BY <1>6, <2>8 DEF Close, FakeTypeOK, CallInv, Labels
  <2>9. CASE Forward(p)
    <3>1. heard' \in [Procs -> Nat]
      <4>1. heard \in [Procs -> Nat] /\ heard' = [heard EXCEPT ![p] = heard[p] + 1]
        BY <2>9 DEF Forward, FakeTypeOK
      <4>2. heard[p] + 1 \in Nat
        BY <4>1
      <4> QED
        BY <4>1, <4>2
    <3>2. pc' \in [Procs -> Labels]
      BY <2>9 DEF Forward, FakeTypeOK, Labels
    <3> QED
      BY <1>6, <2>9, <3>1, <3>2 DEF Forward, FakeTypeOK, CallInv
  <2> QED
    BY <1>6, <2>1, <2>2, <2>3, <2>4, <2>5, <2>6, <2>7, <2>8, <2>9 DEF ListenStep
<1>7. CASE WriteStatus(p) /\ call[p] \in NotifyCalls
  <2>1. call[p].status \in Status
    BY <1>7 DEF NotifyCalls
  <2> QED
    BY <1>7, <2>1 DEF WriteStatus, WithLock, FakeTypeOK, CallInv, Labels
<1>8. CASE WriteEvent(p)
  BY <1>8 DEF WriteEvent, WithLock, FakeTypeOK, CallInv, Labels, dataVars
<1>9. CASE RangeListeners(p) /\ kind(p) \in Kinds
  <2>1. queue' \in [Procs -> Seq(Procs)] /\ readers' \subseteq Procs
    BY <1>9 DEF RangeListeners, FakeTypeOK
  <2> QED
    BY <1>9, <2>1 DEF RangeListeners, FakeTypeOK, CallInv, Labels, dataVars
<1>10. CASE SendEvent(p)
  <2>1. Receiver(p) \in Procs /\ Tail(queue[p]) \in Seq(Procs)
    BY <1>10, HeadAndTail DEF SendEvent
  <2>2. pc' \in [Procs -> Labels] /\ queue' \in [Procs -> Seq(Procs)]
    BY <1>10, <2>1 DEF SendEvent, Sending, FakeTypeOK, Labels
  <2> QED
    BY <1>10, <2>1, <2>2 DEF SendEvent, Sending, FakeTypeOK, CallInv, dataVars, lockVars
<1>11. CASE SendSignal(p)
  BY <1>11, HeadAndTail DEF SendSignal, Sending, FakeTypeOK, CallInv, dataVars, lockVars, Labels, Writing
<1>12. CASE SendPanics(p)
  BY <1>12, HeadAndTail DEF SendPanics, Sending, FakeTypeOK, CallInv, dataVars, lockVars, Labels
<1>13. CASE SendDone(p)
  BY <1>13 DEF SendDone, FakeTypeOK, CallInv, dataVars, Labels
<1>14. "events" \in Kinds
  BY DEF Kinds
<1> QED
  BY <1>1, <1>2, <1>3, <1>4, <1>5, <1>6, <1>7, <1>8, <1>9, <1>10, <1>11, <1>12, <1>13, <1>14,
     FakeCases DEF AddEventStep, SetAndSignal

\* So does the entry of a call,
LEMMA BeginTypes ==
  ASSUME FakeTypeOK, CallInv, NEW p \in Procs, NEW c \in Calls, Begin(p, c)
  PROVE  FakeTypeOK' /\ CallInv'
  BY FirstSteps DEF Begin, Goto, FakeTypeOK, CallInv, dataVars, listenVars, lockVars, userVars

\* The calls in free use are calls.
LEMMA FreeTyped ==
  \A i \in DOMAIN FreeCalls : FreeCalls[i] \in Calls
<1>1. Cancelling \in Calls /\ Start \in Calls /\ Complete("Success") \in Calls
  BY TestCalls DEF Cancelling, Start, Complete, Kinds, Status
<1>2. Listen("events") \in Calls /\ Listen("cxl") \in Calls /\ Listen("run") \in Calls /\ Listen("done") \in Calls
  BY TestCalls DEF Kinds
<1>3. Event \in Calls /\ Op("DeleteBuild") \in Calls
  BY TestCalls DEF Ops
<1> QED
  BY <1>1, <1>2, <1>3 DEF FreeCalls

\* The steps of a test that call nothing
LookStep == CallListBuilds \/ SleepEnds \/ LookAt \/ Collect \/ Timeout

\* They leave the fake alone, except that the listener may end, and go on to the
\* next step.
OthersSame == UNCHANGED <<dataVars, listenVars, lockVars, call, res, queue, userVars, test>>
ListenerEnds(l) == pc[Listener] = "returned" /\ pc' = [pc EXCEPT ![Listener] = l]
LEMMA Looking ==
  ASSUME TypeOK, LookStep
  PROVE  /\ OthersSame /\ at' = at + 1
         /\ UNCHANGED pc \/ ListenerEnds("idle")
         /\ ~Ended /\ ~Step("call") /\ ~Step("go")
         /\ failed' \in BOOLEAN
<1> USE DEF OthersSame, ListenerEnds
<1>1. CASE CallListBuilds
  <2>1. failed' \in BOOLEAN
    BY <1>1, Zenon DEF CallListBuilds, Require
  <2> QED
    BY <1>1, <2>1 DEF CallListBuilds, Advance, Step, fakeVars
<1>2. CASE SleepEnds
  BY <1>2 DEF SleepEnds, Advance, Step, TypeOK, fakeVars
<1>3. CASE LookAt
  <2>1. CASE UNCHANGED fakeVars
    BY <1>3, <2>1 DEF LookAt, Advance, Step, Require, TypeOK, fakeVars
  <2>2. CASE Receive
    BY <1>3, <2>2 DEF LookAt, Receive, Goto, Advance, Step, Require, TypeOK, fakeVars
  <2> QED
    BY <1>3, <2>1, <2>2 DEF LookAt
<1>4. CASE Collect
  <2>1. failed' \in BOOLEAN
    BY <1>4, Zenon DEF Collect, Require, TypeOK
  <2>2. OthersSame /\ (UNCHANGED pc \/ ListenerEnds("idle"))
    <3>1. CASE UNCHANGED fakeVars
      BY <1>4, <3>1 DEF Collect, Advance, fakeVars
    <3>2. CASE Receive
      BY <1>4, <3>2 DEF Collect, Advance, Receive, Goto
    <3> QED
      BY <1>4, <3>1, <3>2 DEF Collect
  <2> QED
    BY <1>4, <2>1, <2>2 DEF Collect, Advance, Step
<1>5. CASE Timeout
  BY <1>5 DEF Timeout, Advance, Step, Require, TypeOK, fakeVars
<1> QED
  BY <1>1, <1>2, <1>3, <1>4, <1>5 DEF LookStep

\* The end of the listener keeps the types of the fake.
LEMMA EndTypes ==
  ASSUME FakeTypeOK, CallInv, OthersSame,
         UNCHANGED pc \/ ListenerEnds("idle") \/ ListenerEnds("crash")
  PROVE  FakeTypeOK' /\ CallInv'
<1>1. pc' \in [Procs -> Labels]
  BY TestAssumption DEF ListenerEnds, FakeTypeOK, Labels
<1>2. \A q \in Procs : pc'[q] \in {"idle", "crash"} \/ pc'[q] = pc[q]
  BY TestAssumption DEF ListenerEnds, FakeTypeOK
<1> QED
  BY <1>1, <1>2 DEF OthersSame, FakeTypeOK, CallInv, dataVars, listenVars, lockVars, userVars

\* A step of a test function keeps the types,
LEMMA MainTypes ==
  ASSUME TypeOK, CallInv, MainStep
  PROVE  TypeOK' /\ CallInv'
<1> USE TestAssumption DEF Advance, Require
<1>1. CASE CallFake
  BY <1>1, CallTyped, BeginTypes DEF CallFake, TypeOK
<1>2. CASE CallReturns
  <2>1. pc' \in [Procs -> Labels] /\ pc' = [pc EXCEPT ![Main] = "idle"]
    BY <1>2 DEF CallReturns, Goto, TypeOK, FakeTypeOK, Labels
  <2>2. FakeTypeOK' /\ CallInv'
    BY <1>2, <2>1 DEF CallReturns, TypeOK, FakeTypeOK, CallInv, dataVars, listenVars, lockVars, userVars
  <2>3. Len(script) \in Nat
    BY <1>2, ScriptSteps DEF CallReturns, Step
  <2>4. at' \in Nat \ {0} /\ failed' \in BOOLEAN
    BY <1>2, <2>3 DEF CallReturns, TypeOK
  <2> QED
    BY <1>2, <2>2, <2>4 DEF CallReturns, TypeOK
<1>3. CASE LookStep
  <2>1. FakeTypeOK' /\ CallInv'
    BY <1>3, Looking, EndTypes DEF TypeOK
  <2> QED
    BY <1>3, <2>1, Looking DEF TypeOK, OthersSame
<1>4. CASE StartGoroutine
  <2>1. FakeTypeOK' /\ CallInv'
    BY <1>4, CallTyped, GoTyped, BeginTypes DEF StartGoroutine, TypeOK
  <2> QED
    BY <1>4, <2>1 DEF StartGoroutine, TypeOK
<1>5. CASE CancelContext
  BY <1>5 DEF CancelContext, TypeOK, FakeTypeOK, CallInv, dataVars, listenVars, lockVars
<1> QED
  BY <1>1, <1>2, <1>3, <1>4, <1>5 DEF MainStep, LookStep

\* and so does every step.
LEMMA SuiteTypes ==
  ASSUME TypeOK, CallInv, [Next]_vars
  PROVE  TypeOK' /\ CallInv'
<1>1. CASE MainStep
  BY <1>1, MainTypes
<1>2. ASSUME NEW p \in Procs, GoStep(p)
      PROVE  TypeOK' /\ CallInv'
  BY <1>2, FakeTypes DEF GoStep, TypeOK
<1>3. ASSUME NEW p \in Procs, FreeCall(p)
      PROVE  TypeOK' /\ CallInv'
  BY <1>3, FreeTyped, BeginTypes DEF FreeCall, TypeOK
<1>4. ASSUME NEW p \in Procs, FreeCancel(p) \/ FreeStop(p)
      PROVE  TypeOK' /\ CallInv'
  BY <1>4 DEF FreeCancel, FreeStop, TypeOK, FakeTypeOK, CallInv, dataVars, listenVars, lockVars
<1>5. CASE UNCHANGED vars
  BY <1>5 DEF vars, fakeVars, dataVars, listenVars, lockVars, userVars, TypeOK, FakeTypeOK, CallInv
<1>6. CASE SendOnClosed
  <2>1. OthersSame /\ ListenerEnds("crash") /\ UNCHANGED <<at, failed>>
    BY <1>6 DEF SendOnClosed, OthersSame, ListenerEnds, Goto
  <2> QED
    BY <2>1, EndTypes DEF TypeOK, OthersSame
<1> QED
  BY <1>1, <1>2, <1>3, <1>4, <1>5, <1>6 DEF Next

\* The types hold at the start.
LEMMA SuiteInit ==
  ASSUME Init
  PROVE  TypeOK /\ CallInv
<1>1. regs \in [Kinds -> Seq(Procs)] /\ queue \in [Procs -> Seq(Procs)] /\ heard \in [Procs -> Nat]
  BY DEF Init, FakeInit
<1>2. pc \in [Procs -> Labels] /\ call \in [Procs -> Calls \union {NoCall}]
  BY DEF Init, FakeInit, Labels
<1>3. status \in Status \union {NoRow} /\ deleted \in Status \union {NoRow}
  BY DEF Init, FakeInit, Status
<1>4. CallInv
  BY DEF Init, FakeInit, CallInv
<1>5. /\ completed = FALSE /\ apikey = FALSE /\ closed = {} /\ readers = {} /\ writers = {}
      /\ ctxDone = {} /\ stopped = {} /\ missed = {}
  BY DEF Init, FakeInit
<1>6. test \in RunTests \union {NoTest} /\ at \in Nat \ {0}
  BY DEF Init
<1>8. failed \in BOOLEAN
  BY Zenon DEF Init
<1>7. FakeTypeOK
  BY <1>1, <1>2, <1>3, <1>5 DEF FakeTypeOK
<1> QED
  BY <1>4, <1>6, <1>7, <1>8 DEF TypeOK

\* Every variable of the fake and of the tests keeps its type, whatever calls
\* FakeDataLayer gets: no list of listeners is ever cut below zero, no notifier
\* signals anything but a goroutine, and a status that is written is a status.
THEOREM SuiteTypeCorrect == Spec => []TypeOK
<1>1. Init => TypeOK /\ CallInv
  BY SuiteInit
<1>2. TypeOK /\ CallInv /\ [Next]_vars => (TypeOK /\ CallInv)'
  BY SuiteTypes
<1> QED
  BY <1>1, <1>2, PTL DEF Spec

-----------------------------------------------------------------------------
(* The registered channels *)

\* Finitely many wait.
LEMMA WaitingFinite ==
  ASSUME NEW k
  PROVE  IsFiniteSet(Waiting(k)) /\ Cardinality(Waiting(k)) \in Nat
<1>1. Waiting(k) \in SUBSET Procs
  BY DEF Waiting
<1>2. IsFiniteSet(Waiting(k))
  BY <1>1, FS_Subset, TestAssumption
<1> QED
  BY <1>2, FS_CardinalityType

\* Those who wait for k called the method that listens for k.
LEMMA WaitersListen ==
  ASSUME FakeTypeOK, CallInv, NEW k, NEW p \in Waiting(k)
  PROVE  p \in Procs /\ call[p] = Listen(k) /\ k \in Kinds /\ kind(p) = k
<1>1. p \in Procs /\ call[p] \in ListenCalls /\ call[p].kind = k
  BY DEF Waiting, CallInv, kind
<1> QED
  BY <1>1 DEF ListenCalls, Listen, kind

\* Nothing changes for the registered if nobody registers or leaves.
Unregistered ==
  /\ regs' = regs
  /\ \A q \in Procs :
       /\ pc'[q] \in {"wait", "forward", "leave"} <=> pc[q] \in {"wait", "forward", "leave"}
       /\ pc[q] \in {"wait", "forward", "leave"} => call'[q] = call[q]

\* Then the count stays right.
LEMMA UnregisteredCount ==
  ASSUME RegistryCount, Unregistered
  PROVE  RegistryCount'
<1>1. \A k \in Kinds : Waiting(k)' = Waiting(k)
  BY DEF Unregistered, Waiting, kind
<1> QED
  BY <1>1 DEF RegistryCount, Unregistered

\* A listener that registers adds one channel and one waiter; one that leaves
\* finds a channel to remove, since it is counted itself.
LEMMA FakeCount ==
  ASSUME FakeTypeOK, CallInv, RegistryCount, NEW p \in Procs, FakeStep(p)
  PROVE  RegistryCount'
<1> USE DEF FakeTypeOK, Goto, Return, listenVars
<1>1. CASE BlockOnLock(p) \/ CreateBuild(p) \/ UpdateBuild(p) \/ GetBuildByID(p) \/ UseAPIKey(p)
  <2>1. Unregistered
    BY <1>1 DEF BlockOnLock, CreateBuild, UpdateBuild, GetBuildByID, UseAPIKey, Unregistered
  <2> QED
    BY <2>1, UnregisteredCount
<1>2. CASE Check(p) \/ CheckExists(p) \/ ReadStatus(p) \/ ContextCancelled(p) \/ Close(p) \/ Forward(p)
  <2>1. Unregistered
    BY <1>2 DEF Check, CheckExists, ReadStatus, Decide, ContextCancelled, Close, Forward, Unregistered
  <2> QED
    BY <2>1, UnregisteredCount
<1>3. CASE AddEventStep(p) \/ SetAndSignal(p)
  <2>1. Unregistered
    <3>1. CASE SendEvent(p) \/ SendSignal(p) \/ SendPanics(p)
      BY <3>1, HeadAndTail DEF SendEvent, SendSignal, SendPanics, Sending, Unregistered
    <3>2. CASE WriteEvent(p) \/ WriteStatus(p) \/ RangeListeners(p) \/ SendDone(p)
      BY <3>2 DEF WriteEvent, WriteStatus, RangeListeners, SendDone, Unregistered
    <3> QED
      BY <1>3, <3>1, <3>2 DEF AddEventStep, SetAndSignal
  <2> QED
    BY <2>1, UnregisteredCount
<1>4. CASE kind(p) \in Kinds /\ Register(p)
  <2>1. /\ pc[p] = "register" /\ call' = call
        /\ pc' = [pc EXCEPT ![p] = "wait"]
        /\ regs' = [regs EXCEPT ![kind(p)] = Append(@, p)]
    BY <1>4 DEF Register
  <2>2. ASSUME NEW k \in Kinds
        PROVE  Len(regs'[k]) = Cardinality(Waiting(k)')
    <3>1. CASE k = kind(p)
      <4>1. Waiting(k)' = Waiting(k) \union {p} /\ p \notin Waiting(k)
        BY <2>1, <3>1 DEF Waiting, kind
      <4>2. Cardinality(Waiting(k)') = Cardinality(Waiting(k)) + 1
        BY <4>1, WaitingFinite, FS_AddElement
      <4>3. Len(regs'[k]) = Len(regs[k]) + 1
        BY <2>1, <3>1
      <4> QED
        BY <4>2, <4>3 DEF RegistryCount
    <3>2. CASE k # kind(p)
      <4>1. Waiting(k)' = Waiting(k)
        BY <2>1, <3>2 DEF Waiting, kind
      <4> QED
        BY <2>1, <3>2, <4>1 DEF RegistryCount
    <3> QED
      BY <3>1, <3>2
  <2> QED
    BY <2>2 DEF RegistryCount
<1>5. CASE kind(p) \in Kinds /\ (Leave(p) \/ (kind(p) = "events" /\ LeaveEvents(p)))
  <2>1. /\ pc[p] = "leave" /\ call' = call /\ RemoveLast(kind(p))
        /\ \E l \in {"close", "returned"} : pc' = [pc EXCEPT ![p] = l]
    BY <1>5 DEF Leave, LeaveEvents
  <2>2. ASSUME NEW k \in Kinds
        PROVE  Len(regs'[k]) = Cardinality(Waiting(k)')
    <3>1. CASE k = kind(p)
      <4>1. Waiting(k)' = Waiting(k) \ {p} /\ p \in Waiting(k)
        BY <2>1, <3>1 DEF Waiting, kind
      <4>2. Cardinality(Waiting(k)') = Cardinality(Waiting(k)) - 1
        BY <4>1, WaitingFinite, FS_RemoveElement
      <4>3. Cardinality(Waiting(k)) # 0
        BY <4>1, WaitingFinite, FS_EmptySet
      <4>4. regs[k] # <<>>
        BY <4>3 DEF RegistryCount
      <4>5. Len(regs'[k]) = Len(regs[k]) - 1
        BY <2>1, <3>1, <4>4, Shortened
      <4> QED
        BY <4>2, <4>5 DEF RegistryCount
    <3>2. CASE k # kind(p)
      <4>1. Waiting(k)' = Waiting(k)
        BY <2>1, <3>2 DEF Waiting, kind
      <4>2. regs'[k] = regs[k]
        BY <1>5, <2>1, <3>2, Shortened
      <4> QED
        BY <4>1, <4>2 DEF RegistryCount
    <3> QED
      BY <3>1, <3>2
  <2> QED
    BY <2>2 DEF RegistryCount
<1> HIDE DEF FakeTypeOK, Goto, Return, listenVars
<1>6. CASE kind(p) \in Kinds /\ ListenStep(p)
  BY <1>2, <1>4, <1>5, <1>6 DEF ListenStep
<1> QED
  BY <1>1, <1>3, <1>6, FakeCases

\* The entry of a call registers nothing.
LEMMA BeginCount ==
  ASSUME FakeTypeOK, RegistryCount, NEW p \in Procs, NEW c \in Calls, Begin(p, c)
  PROVE  RegistryCount'
<1>1. Unregistered
  BY FirstSteps DEF FakeTypeOK, Begin, Goto, listenVars, Unregistered
<1> QED
  BY <1>1, UnregisteredCount

\* Nor does the end of the listener.
LEMMA EndCount ==
  ASSUME FakeTypeOK, RegistryCount, OthersSame,
         UNCHANGED pc \/ ListenerEnds("idle") \/ ListenerEnds("crash")
  PROVE  RegistryCount'
<1>1. Unregistered
  BY TestAssumption DEF FakeTypeOK, OthersSame, ListenerEnds, listenVars, Unregistered
<1> QED
  BY <1>1, UnregisteredCount

\* Every step keeps the count.
LEMMA SuiteCount ==
  ASSUME TypeOK, CallInv, RegistryCount, [Next]_vars
  PROVE  RegistryCount'
<1> USE TestAssumption
<1>1. CASE CallFake \/ StartGoroutine
  BY <1>1, CallTyped, GoTyped, BeginCount DEF CallFake, StartGoroutine, TypeOK
<1>2. CASE CallReturns \/ LookStep \/ CancelContext \/ UNCHANGED vars
  <2>1. CASE CallReturns
    BY <2>1, UnregisteredCount DEF CallReturns, Goto, TypeOK, FakeTypeOK, listenVars, Unregistered
  <2>2. CASE CancelContext \/ UNCHANGED vars
    BY <2>2, UnregisteredCount DEF CancelContext, vars, fakeVars, listenVars, Unregistered
  <2>3. CASE LookStep
    BY <2>3, Looking, EndCount DEF TypeOK
  <2> QED
    BY <1>2, <2>1, <2>2, <2>3
<1>3. ASSUME NEW p \in Procs, GoStep(p)
      PROVE  RegistryCount'
  BY <1>3, FakeCount DEF GoStep, TypeOK
<1>4. ASSUME NEW p \in Procs, FreeCall(p)
      PROVE  RegistryCount'
  BY <1>4, FreeTyped, BeginCount DEF FreeCall, TypeOK
<1>5. ASSUME NEW p \in Procs, FreeCancel(p) \/ FreeStop(p)
      PROVE  RegistryCount'
  BY <1>5, UnregisteredCount DEF FreeCancel, FreeStop, listenVars, Unregistered
<1>6. CASE SendOnClosed
  BY <1>6, EndCount DEF SendOnClosed, OthersSame, ListenerEnds, Goto, TypeOK
<1> QED
  BY <1>1, <1>2, <1>3, <1>4, <1>5, <1>6 DEF Next, MainStep, LookStep

\* At the start nobody waits.
LEMMA InitCount ==
  ASSUME Init
  PROVE  RegistryCount
<1>1. \A k : Waiting(k) = {}
  BY DEF Init, FakeInit, Waiting
<1> QED
  BY <1>1, FS_EmptySet DEF Init, FakeInit, RegistryCount

\* There are as many channels registered for an event as there are listeners
\* that wait for it, although each removes the last channel and not its own
\* (the deferred functions of the Listen methods of fake.go), for any number
\* of goroutines.
THEOREM RegistryCounted == Spec => []RegistryCount
<1>1. Init => TypeOK /\ CallInv /\ RegistryCount
  BY SuiteInit, InitCount
<1>2. TypeOK /\ CallInv /\ RegistryCount /\ [Next]_vars => (TypeOK /\ CallInv /\ RegistryCount)'
  BY SuiteTypes, SuiteCount
<1> QED
  BY <1>1, <1>2, PTL DEF Spec

-----------------------------------------------------------------------------
(* Closed channels *)

\* What a step of the fake does to the goroutines: those that do nothing go
\* on doing nothing, and only the close of a listener that was not alone leads
\* to a closed channel or a panic.
LEMMA FakeFrame ==
  ASSUME FakeTypeOK, CallInv, RegistryCount, NEW p \in Procs, FakeStep(p)
  PROVE  /\ call' = call
         /\ \A q \in Procs : pc'[q] = "idle" <=> pc[q] = "idle"
         /\ closed' # {} => closed # {} \/ pc[p] = "close"
         /\ \A q \in Procs : pc'[q] = "close" => pc[q] = "close" \/ TwoListeners
         /\ \A q \in Procs : pc'[q] = "panic" => pc[q] = "panic" \/ closed # {}
<1> USE DEF FakeTypeOK, Goto, Return, listenVars
<1>1. CASE BlockOnLock(p) \/ CreateBuild(p) \/ UpdateBuild(p) \/ GetBuildByID(p) \/ UseAPIKey(p)
  BY <1>1 DEF BlockOnLock, CreateBuild, UpdateBuild, GetBuildByID, UseAPIKey, Writing
<1>2. CASE Check(p) \/ CheckExists(p) \/ ReadStatus(p) \/ ContextCancelled(p) \/ Close(p)
           \/ Register(p) \/ LeaveEvents(p) \/ Forward(p)
  BY <1>2 DEF Check, CheckExists, ReadStatus, Decide, ContextCancelled, Close, Register, LeaveEvents,
              Forward
<1>3. CASE kind(p) \in Kinds /\ Leave(p)
  <2>1. ASSUME Len(regs[kind(p)]) > 1
        PROVE  TwoListeners
    <3> DEFINE k == kind(p)
    <3>1. p \in Waiting(k)
      BY <1>3 DEF Leave, Waiting
    <3>2. Cardinality(Waiting(k)) > 1
      BY <1>3, <2>1 DEF RegistryCount
    <3>3. Cardinality(Waiting(k) \ {p}) = Cardinality(Waiting(k)) - 1 /\ IsFiniteSet(Waiting(k) \ {p})
      BY <3>1, WaitingFinite, FS_RemoveElement
    <3>4. Waiting(k) \ {p} # {}
      <4>1. Cardinality(Waiting(k)) \in Nat
        BY WaitingFinite
      <4>2. Cardinality(Waiting(k) \ {p}) # 0
        BY <3>2, <3>3, <4>1
      <4> QED
        BY <4>2, FS_EmptySet
    <3>5. PICK q \in Waiting(k) : q # p
      BY <3>4
    <3>6. call[p] = Listen(k) /\ call[q] = Listen(k) /\ q \in Procs
      BY <3>1, <3>5, WaitersListen
    <3>7. call[p].op = "listen"
      BY <3>6 DEF Listen
    <3> QED
      BY <3>5, <3>6, <3>7 DEF TwoListeners
  <2> QED
    BY <1>3, <2>1 DEF Leave
<1>4. CASE AddEventStep(p) \/ SetAndSignal(p)
  <2>1. CASE SendEvent(p) \/ SendSignal(p) \/ SendPanics(p)
    BY <2>1, HeadAndTail DEF SendEvent, SendSignal, SendPanics, Sending
  <2>2. CASE WriteEvent(p) \/ WriteStatus(p) \/ RangeListeners(p) \/ SendDone(p)
    BY <2>2 DEF WriteEvent, WriteStatus, RangeListeners, SendDone
  <2> QED
    BY <1>4, <2>1, <2>2 DEF AddEventStep, SetAndSignal
<1> HIDE DEF FakeTypeOK, Goto, Return, listenVars
<1>5. CASE kind(p) \in Kinds /\ ListenStep(p)
  BY <1>2, <1>3, <1>5 DEF ListenStep
<1> QED
  BY <1>1, <1>4, <1>5, FakeCases

\* The test functions never have two goroutines that listen.
LEMMA OneListener ==
  ASSUME ScriptInv, test # NoTest
  PROVE  ~TwoListeners
  BY TestAssumption DEF ScriptInv, TwoListeners

\* The inductive invariant
PanicInv == TypeOK /\ CallInv /\ RegistryCount /\ ClosedInv /\ ScriptInv

\* A step of the fake keeps it,
LEMMA GoClosed ==
  ASSUME PanicInv, NEW p \in Procs, GoStep(p)
  PROVE  ClosedInv' /\ ScriptInv'
<1>1. /\ call' = call
      /\ \A q \in Procs : pc'[q] = "idle" <=> pc[q] = "idle"
      /\ closed' # {} => closed # {} \/ pc[p] = "close"
      /\ \A q \in Procs : pc'[q] = "close" => pc[q] = "close" \/ TwoListeners
      /\ \A q \in Procs : pc'[q] = "panic" => pc[q] = "panic" \/ closed # {}
  BY FakeFrame DEF PanicInv, TypeOK, GoStep
<1>2. TwoListeners' <=> TwoListeners
  BY <1>1 DEF TwoListeners
<1>3. ClosedInv'
  BY <1>1, <1>2 DEF PanicInv, ClosedInv, GoStep
<1>4. ScriptInv'
  BY <1>1, TestAssumption DEF PanicInv, ScriptInv, Step, Ended, ListensAt, script, GoStep
<1> QED
  BY <1>3, <1>4

\* and so do the entry and the cancellation of a call and the end of its reader
\* in free use: only a goroutine that has not called anything starts a call.
LEMMA FreeClosed ==
  ASSUME PanicInv, NEW p \in Procs, FreeCall(p) \/ FreeCancel(p) \/ FreeStop(p)
  PROVE  ClosedInv' /\ ScriptInv'
<1>1. test = NoTest /\ test' = NoTest /\ ScriptInv' /\ closed' = closed
  BY DEF FreeCall, FreeCancel, FreeStop, ScriptInv, Begin, listenVars
<1>2. CASE FreeCancel(p) \/ FreeStop(p)
  BY <1>1, <1>2 DEF FreeCancel, FreeStop, PanicInv, ClosedInv, TwoListeners
<1>3. CASE FreeCall(p)
  <2>1. PICK c \in Calls : Begin(p, c)
    BY <1>3, FreeTyped DEF FreeCall
  <2>2. /\ pc[p] = "idle" /\ call[p] = NoCall
        /\ call' = [call EXCEPT ![p] = c] /\ pc' = [pc EXCEPT ![p] = FirstStep(c)]
        /\ FirstStep(c) \notin {"idle", "close", "panic"}
    BY <1>1, <1>3, <2>1, FirstSteps DEF FreeCall, Begin, Goto, PanicInv, ClosedInv
  <2>3. TwoListeners => TwoListeners'
    <3>1. ASSUME NEW q \in Procs, NEW r \in Procs, q # r, call[q].op = "listen", call[r] = call[q]
          PROVE  TwoListeners'
      <4>1. q # p /\ r # p
        BY <2>2, <3>1 DEF NoCall
      <4>2. call'[q] = call[q] /\ call'[r] = call[r]
        BY <2>2, <4>1 DEF PanicInv, TypeOK, FakeTypeOK
      <4> QED
        BY <3>1, <4>2 DEF TwoListeners
    <3> QED
      BY <3>1 DEF TwoListeners
  <2> QED
    BY <1>1, <2>2, <2>3 DEF PanicInv, ClosedInv, TypeOK, FakeTypeOK
<1> QED
  BY <1>2, <1>3

\* A step of a test function starts nothing but calls, so no channel is closed.
LEMMA MainClosed ==
  ASSUME PanicInv, test # NoTest, UNCHANGED <<test, closed>>,
         \A q \in Procs : pc'[q] \in {"close", "panic"} => pc'[q] = pc[q]
  PROVE  ClosedInv'
<1>1. closed = {} /\ \A q \in Procs : pc[q] \notin {"close", "panic"}
  BY OneListener DEF PanicInv, ClosedInv
<1> QED
  BY <1>1 DEF ClosedInv

\* The script of a test is the same all the time.
LEMMA SameScript ==
  ASSUME UNCHANGED test
  PROVE  /\ script' = script
         /\ \A i : ListensAt(i)' <=> ListensAt(i)
  BY DEF script, ListensAt

\* The steps of a test function keep ScriptInv: a call of its own,
LEMMA CallFakeScript ==
  ASSUME PanicInv, CallFake
  PROVE  ClosedInv' /\ ScriptInv'
<1> DEFINE c == script[at].call
<1>1. test \in RunTests /\ test # NoTest /\ at \in 1..Len(script) /\ Step("call") /\ c \in Calls
  BY ScriptSteps, CallTyped, NoTestAssumption DEF CallFake, Step, PanicInv
<1>2. /\ call' = [call EXCEPT ![Main] = c] /\ pc' = [pc EXCEPT ![Main] = FirstStep(c)]
      /\ UNCHANGED <<test, at, closed>> /\ FirstStep(c) \notin {"idle", "close", "panic"}
  BY <1>1, FirstSteps DEF CallFake, Begin, Goto, listenVars
<1> HIDE DEF c
<1>3. /\ call'[Main] = c /\ \A q \in Procs \ {Main} : call'[q] = call[q]
      /\ pc'[Main] = FirstStep(c) /\ \A q \in Procs \ {Main} : pc'[q] = pc[q]
  BY <1>2, TestAssumption DEF PanicInv, TypeOK, FakeTypeOK
<1>4. ClosedInv'
  BY <1>1, <1>2, <1>3, MainClosed
<1>5. Step("call")' /\ ~Step("go")'
  BY <1>1, <1>2, SameScript DEF Step, Ended
<1>6. call[Listener].op = "listen" => c.op # "listen"
  BY <1>1 DEF PanicInv, ScriptInv, ListensAt, Step, c
<1> QED
  BY <1>1, <1>2, <1>3, <1>4, <1>5, <1>6, SameScript, TestAssumption DEF PanicInv, ScriptInv, c

\* its return,
LEMMA CallReturnsScript ==
  ASSUME PanicInv, CallReturns
  PROVE  ClosedInv' /\ ScriptInv'
<1>1. /\ test # NoTest /\ at \in 1..Len(script) /\ Len(script) \in Nat /\ Step("call")
      /\ GoodScript(script)
  BY ScriptSteps, NoTestAssumption DEF CallReturns, Step, PanicInv
<1>2. /\ pc' = [pc EXCEPT ![Main] = "idle"] /\ UNCHANGED <<test, call, closed>>
      /\ at' \in {at + 1, Len(script) + 1} /\ pc[Main] = "returned"
  BY DEF CallReturns, Goto, listenVars
<1>3. pc'[Main] = "idle" /\ \A q \in Procs \ {Main} : pc'[q] = pc[q]
  BY <1>2, TestAssumption DEF PanicInv, TypeOK, FakeTypeOK
<1>4. ClosedInv'
  BY <1>1, <1>2, <1>3, MainClosed
<1>5. call[Main] = script[at].call
  BY <1>1, <1>2 DEF PanicInv, ScriptInv
<1>6. ASSUME Step("go")', ListensAt(at)'
      PROVE  call[Main].op # "listen"
  <2>1. at' \in 1..Len(script) /\ script[at'].do = "go" /\ script[at'].call.op = "listen"
    BY <1>1, <1>2, <1>6, SameScript DEF Step, Ended, ListensAt
  <2>2. at' = at + 1
    BY <1>1, <1>2, <2>1
  <2>3. script[at' - 1].call.op # "listen"
    BY <1>1, <2>1 DEF GoodScript
  <2> QED
    BY <1>1, <1>5, <2>2, <2>3
<1>7. (at')..Len(script) \subseteq at..Len(script)
  BY <1>1, <1>2
<1> QED
  BY <1>1, <1>2, <1>3, <1>4, <1>6, <1>7, SameScript DEF PanicInv, ScriptInv

\* a look at what became of the others,
LEMMA LookScript ==
  ASSUME PanicInv, LookStep
  PROVE  ClosedInv' /\ ScriptInv'
<1>1. /\ test # NoTest /\ at \in 1..Len(script) /\ Len(script) \in Nat /\ GoodScript(script)
      /\ ~Step("call") /\ ~Step("go") /\ at' = at + 1 /\ script[at].do # "call"
  BY Looking, ScriptSteps, NoTestAssumption DEF PanicInv, Step
<1>2. /\ UNCHANGED <<test, call, closed>> /\ pc'[Main] = pc[Main]
      /\ \A q \in Procs : pc'[q] = pc[q] \/ pc'[q] = "idle"
  BY Looking, TestAssumption DEF OthersSame, ListenerEnds, listenVars, PanicInv, TypeOK, FakeTypeOK
<1>3. ClosedInv'
  BY <1>1, <1>2, MainClosed
<1>4. ~(Step("go")' /\ ListensAt(at)')
  BY <1>1, <1>2, SameScript DEF Step, Ended, ListensAt, GoodScript
<1>5. (at')..Len(script) \subseteq at..Len(script)
  BY <1>1
<1> QED
  BY <1>1, <1>2, <1>3, <1>4, <1>5, SameScript DEF PanicInv, ScriptInv

\* the start of a goroutine,
LEMMA StartScript ==
  ASSUME PanicInv, StartGoroutine
  PROVE  ClosedInv' /\ ScriptInv'
<1> DEFINE c == script[at].call
           p == script[at].proc
<1>1. /\ test # NoTest /\ at \in 1..Len(script) /\ Len(script) \in Nat /\ GoodScript(script)
      /\ Step("go") /\ script[at].do = "go" /\ c \in Calls /\ p \in {Listener, Setter}
  BY ScriptSteps, CallTyped, GoTyped, NoTestAssumption DEF StartGoroutine, Step, PanicInv
<1>2. /\ call' = [call EXCEPT ![p] = c] /\ pc' = [pc EXCEPT ![p] = FirstStep(c)]
      /\ UNCHANGED <<test, closed>> /\ at' = at + 1
      /\ FirstStep(c) \notin {"idle", "close", "panic"}
  BY <1>1, FirstSteps DEF StartGoroutine, Advance, Begin, Goto, listenVars
<1>3. /\ c.op = "listen" => p = Listener /\ \A j \in (at + 1)..Len(script) : ~ListensAt(j)
      /\ ~(Step("go")' /\ ListensAt(at)')
  BY <1>1, <1>2, SameScript DEF GoodScript, ListensAt, LooksFor, Step, Ended
<1>4. /\ c.op = "listen" => call[Main].op # "listen"
      /\ pc[Main] = "idle"
  BY <1>1 DEF PanicInv, ScriptInv, ListensAt, Step
<1> HIDE DEF c, p
<1>5. /\ call'[p] = c /\ \A q \in Procs \ {p} : call'[q] = call[q]
      /\ pc'[p] = FirstStep(c) /\ \A q \in Procs \ {p} : pc'[q] = pc[q]
      /\ p \in Procs /\ p # Main
  BY <1>1, <1>2, TestAssumption DEF PanicInv, TypeOK, FakeTypeOK
<1>6. ClosedInv'
  BY <1>1, <1>2, <1>5, MainClosed
<1>7. (at')..Len(script) \subseteq at..Len(script)
  BY <1>1, <1>2
<1> QED
  BY <1>1, <1>2, <1>3, <1>4, <1>5, <1>6, <1>7, SameScript, TestAssumption DEF PanicInv, ScriptInv

\* and the cancellation at the end.
LEMMA CancelScript ==
  ASSUME PanicInv, CancelContext
  PROVE  ClosedInv' /\ ScriptInv'
<1>1. test # NoTest /\ UNCHANGED <<test, at, call, closed, pc>>
  BY DEF CancelContext, listenVars
<1> QED
  BY <1>1, MainClosed, SameScript DEF PanicInv, ScriptInv, Step, Ended

\* The panic of the test's own goroutine is not one of a notifier.
LEMMA CrashScript ==
  ASSUME PanicInv, SendOnClosed
  PROVE  ClosedInv' /\ ScriptInv'
<1>1. test # NoTest
  BY NoTestAssumption DEF SendOnClosed, RunTests, Racing
<1>2. /\ UNCHANGED <<test, at, call, closed>> /\ pc'[Main] = pc[Main]
      /\ \A q \in Procs : pc'[q] = pc[q] \/ pc'[q] = "crash"
  BY TestAssumption DEF SendOnClosed, Goto, listenVars, PanicInv, TypeOK, FakeTypeOK
<1> QED
  BY <1>1, <1>2, MainClosed, SameScript DEF PanicInv, ScriptInv, Step, Ended

\* Every step keeps PanicInv.
LEMMA SuitePanic ==
  ASSUME PanicInv, [Next]_vars
  PROVE  PanicInv'
<1>1. TypeOK' /\ CallInv' /\ RegistryCount'
  BY SuiteTypes, SuiteCount DEF PanicInv
<1>2. CASE MainStep
  BY <1>1, <1>2, CallFakeScript, CallReturnsScript, LookScript, StartScript, CancelScript
     DEF MainStep, LookStep, PanicInv
<1>3. CASE \E p \in Procs : GoStep(p) \/ FreeCall(p) \/ FreeCancel(p) \/ FreeStop(p)
  BY <1>1, <1>3, GoClosed, FreeClosed DEF PanicInv
<1>4. CASE UNCHANGED vars
  <2>1. UNCHANGED <<test, at, call, closed, pc>>
    BY <1>4 DEF vars, fakeVars, listenVars
  <2>2. ClosedInv' /\ ScriptInv'
    BY <2>1, SameScript DEF PanicInv, ClosedInv, TwoListeners, ScriptInv, Step, Ended
  <2> QED
    BY <1>1, <2>2 DEF PanicInv
<1>5. CASE SendOnClosed
  BY <1>1, <1>5, CrashScript DEF PanicInv
<1> QED
  BY <1>2, <1>3, <1>4, <1>5 DEF Next

\* PanicInv holds at the start.
LEMMA InitPanic ==
  ASSUME Init
  PROVE  PanicInv
<1>1. TypeOK /\ CallInv /\ RegistryCount
  BY SuiteInit, InitCount
<1>2. \A q \in Procs : pc[q] = "idle" /\ call[q] = NoCall
  BY DEF Init, FakeInit
<1>3. ClosedInv
  BY <1>2 DEF Init, FakeInit, ClosedInv
<1>4. ScriptInv
  <2>1. ASSUME test # NoTest
        PROVE  ~(Step("go") /\ ListensAt(at))
    BY <1>1, <2>1, ScriptSteps DEF Init, Step, ListensAt, GoodScript
  <2> QED
    BY <1>2, <2>1, TestAssumption DEF ScriptInv, NoCall
<1> QED
  BY <1>1, <1>3, <1>4 DEF PanicInv

\* A notifier sends on a closed channel (CancelBuild, SetBuildAsRunning and
\* SetBuildAsCompleted of fake.go) only if two goroutines listened for the
\* same, for any number of goroutines in free use.
THEOREM PanicByTwo == Spec => []PanicNeedsTwoListeners
<1>1. Init => PanicInv
  BY InitPanic
<1>2. PanicInv /\ [Next]_vars => PanicInv'
  BY SuitePanic
<1>3. PanicInv => PanicNeedsTwoListeners
  BY DEF PanicInv, ClosedInv, PanicNeedsTwoListeners
<1> QED
  BY <1>1, <1>2, <1>3, PTL DEF Spec

\* No test of the suite makes a notifier of the fake panic: its function has
\* done with listening itself when it starts the one goroutine that listens.
THEOREM SuiteNeverPanics == Spec => [](test # NoTest => \A p \in Procs : pc[p] # "panic")
<1>1. Init => PanicInv
  BY InitPanic
<1>2. PanicInv /\ [Next]_vars => PanicInv'
  BY SuitePanic
<1>3. PanicInv => (test # NoTest => \A p \in Procs : pc[p] # "panic")
  BY OneListener DEF PanicInv, ClosedInv
<1> QED
  BY <1>1, <1>2, <1>3, PTL DEF Spec

-----------------------------------------------------------------------------
(* ListBuilds *)

\* All options there can be, with any names of repos, refs and images
AnyOptions(Names) ==
  [repo : Names, ref : Names, image : Names, status : Status,
   completedAfter : Int, startedAfter : Int, completedBefore : Int, startedBefore : Int,
   limit : Nat]

Fields == {"repo", "ref", "image", "status",
           "completedAfter", "startedAfter", "completedBefore", "startedBefore"}

\* The options that are set are the conditionals.
LEMMA OptionsSet ==
  ASSUME NEW Names, NEW opts \in AnyOptions(Names)
  PROVE  /\ Conditionals(opts) \subseteq Fields
         /\ "repo" \in Conditionals(opts) <=> opts.repo # ""
         /\ "ref" \in Conditionals(opts) <=> opts.ref # ""
         /\ "image" \in Conditionals(opts) <=> opts.image # ""
         /\ "status" \in Conditionals(opts) <=> opts.status # "Unknown"
         /\ "completedAfter" \in Conditionals(opts) <=> opts.completedAfter # 0
         /\ "startedAfter" \in Conditionals(opts) <=> opts.startedAfter # 0
         /\ "completedBefore" \in Conditionals(opts) <=> opts.completedBefore # 0
         /\ "startedBefore" \in Conditionals(opts) <=> opts.startedBefore # 0
<1>1. DOMAIN opts = Fields \union {"limit"}
  BY DEF AnyOptions, Fields
<1>2. opts["repo"] = opts.repo /\ Zero["repo"] = ""
  BY DEF AnyOptions, Zero
<1>3. opts["ref"] = opts.ref /\ Zero["ref"] = ""
  BY DEF AnyOptions, Zero
<1>4. opts["image"] = opts.image /\ Zero["image"] = ""
  BY DEF AnyOptions, Zero
<1>5. opts["status"] = opts.status /\ Zero["status"] = "Unknown"
  BY DEF AnyOptions, Zero
<1>6. opts["completedAfter"] = opts.completedAfter /\ Zero["completedAfter"] = 0
  BY DEF AnyOptions, Zero
<1>7. opts["startedAfter"] = opts.startedAfter /\ Zero["startedAfter"] = 0
  BY DEF AnyOptions, Zero
<1>8. opts["completedBefore"] = opts.completedBefore /\ Zero["completedBefore"] = 0
  BY DEF AnyOptions, Zero
<1>9. opts["startedBefore"] = opts.startedBefore /\ Zero["startedBefore"] = 0
  BY DEF AnyOptions, Zero
<1> QED
  BY <1>1, <1>2, <1>3, <1>4, <1>5, <1>6, <1>7, <1>8, <1>9 DEF Conditionals, Fields

\* What each conditional asks for
LEMMA HoldsMeans ==
  ASSUME NEW opts, NEW b
  PROVE  /\ Holds("repo", opts, b) <=> b.repo = opts.repo
         /\ Holds("ref", opts, b) <=> b.ref = opts.ref
         /\ Holds("image", opts, b) <=> opts.image \in b.images
         /\ Holds("status", opts, b) <=> b.status = opts.status
         /\ Holds("completedAfter", opts, b) <=> AtLeast(b.completed, opts.completedAfter)
         /\ Holds("startedAfter", opts, b) <=> AtLeast(b.created, opts.startedAfter)
         /\ Holds("completedBefore", opts, b) <=> Below(b.completed, opts.completedBefore)
         /\ Holds("startedBefore", opts, b) <=> Below(b.created, opts.startedBefore)
<1>1. Holds("repo", opts, b) <=> b.repo = opts.repo
  BY Zenon DEF Holds
<1>2. Holds("ref", opts, b) <=> b.ref = opts.ref
  BY Zenon DEF Holds
<1>3. Holds("image", opts, b) <=> opts.image \in b.images
  BY Zenon DEF Holds
<1>4. Holds("status", opts, b) <=> b.status = opts.status
  BY Zenon DEF Holds
<1>5. Holds("completedAfter", opts, b) <=> AtLeast(b.completed, opts.completedAfter)
  BY Zenon DEF Holds
<1>6. Holds("startedAfter", opts, b) <=> AtLeast(b.created, opts.startedAfter)
  BY Zenon DEF Holds
<1>7. Holds("completedBefore", opts, b) <=> Below(b.completed, opts.completedBefore)
  BY Zenon DEF Holds
<1>8. Holds("startedBefore", opts, b) <=> Below(b.created, opts.startedBefore)
  BY Zenon DEF Holds
<1> QED
  BY <1>1, <1>2, <1>3, <1>4, <1>5, <1>6, <1>7, <1>8

\* The filters of the fake keep what satisfies the conditionals: to compare
\* with a NULL, which holds for no time, is to compare with the zero time unless
\* a time before it is asked for.
LEMMA KeptAlike ==
  ASSUME NEW Names, NEW opts \in AnyOptions(Names), ~(opts.completedAfter < 0),
         NEW b, b.created \in Nat \ {0}, b.completed \in Nat
  PROVE  FakeKeeps(opts, b) <=> \A cond \in Conditionals(opts) : Holds(cond, opts, b)
<1>1. /\ opts.completedAfter \in Int /\ opts.startedAfter \in Int
      /\ opts.completedBefore \in Int /\ opts.startedBefore \in Int
  BY DEF AnyOptions
<1>2. /\ opts.completedAfter # 0 =>
           (AtLeast(b.completed, opts.completedAfter) <=> b.completed >= opts.completedAfter)
      /\ opts.startedAfter # 0 =>
           (AtLeast(b.created, opts.startedAfter) <=> b.created >= opts.startedAfter)
      /\ Below(b.completed, opts.completedBefore) <=>
           b.completed # 0 /\ b.completed < opts.completedBefore
      /\ Below(b.created, opts.startedBefore) <=>
           b.created # 0 /\ b.created < opts.startedBefore
  BY <1>1 DEF AtLeast, Below, Null
<1>3. (\A cond \in Conditionals(opts) : Holds(cond, opts, b)) <=>
        \A cond \in Fields : cond \in Conditionals(opts) => Holds(cond, opts, b)
  BY OptionsSet
<1>4. /\ "repo" \in Conditionals(opts) <=> opts.repo # ""
      /\ "ref" \in Conditionals(opts) <=> opts.ref # ""
      /\ "image" \in Conditionals(opts) <=> opts.image # ""
      /\ "status" \in Conditionals(opts) <=> opts.status # "Unknown"
      /\ "completedAfter" \in Conditionals(opts) <=> opts.completedAfter # 0
      /\ "startedAfter" \in Conditionals(opts) <=> opts.startedAfter # 0
      /\ "completedBefore" \in Conditionals(opts) <=> opts.completedBefore # 0
      /\ "startedBefore" \in Conditionals(opts) <=> opts.startedBefore # 0
  BY OptionsSet
<1>5. /\ Holds("repo", opts, b) <=> b.repo = opts.repo
      /\ Holds("ref", opts, b) <=> b.ref = opts.ref
      /\ Holds("image", opts, b) <=> opts.image \in b.images
      /\ Holds("status", opts, b) <=> b.status = opts.status
      /\ Holds("completedAfter", opts, b) <=> AtLeast(b.completed, opts.completedAfter)
      /\ Holds("startedAfter", opts, b) <=> AtLeast(b.created, opts.startedAfter)
      /\ Holds("completedBefore", opts, b) <=> Below(b.completed, opts.completedBefore)
      /\ Holds("startedBefore", opts, b) <=> Below(b.created, opts.startedBefore)
  BY HoldsMeans
<1>6. (\A cond \in Fields : cond \in Conditionals(opts) => Holds(cond, opts, b)) <=>
        /\ opts.repo # "" => b.repo = opts.repo
        /\ opts.ref # "" => b.ref = opts.ref
        /\ opts.image # "" => opts.image \in b.images
        /\ opts.status # "Unknown" => b.status = opts.status
        /\ opts.completedAfter # 0 => AtLeast(b.completed, opts.completedAfter)
        /\ opts.startedAfter # 0 => AtLeast(b.created, opts.startedAfter)
        /\ opts.completedBefore # 0 => Below(b.completed, opts.completedBefore)
        /\ opts.startedBefore # 0 => Below(b.created, opts.startedBefore)
  BY <1>4, <1>5, Zenon DEF Fields
<1> QED
  BY <1>2, <1>3, <1>6 DEF FakeKeeps

\* All requests there can be: any names, any state and any timestamps
Timestamps == {Nil} \union {At(t) : t \in Int}
AnyRequest(Names, States) ==
  [repo : Names, ref : Names, image : Names, state : States,
   completedAfter : Timestamps, startedAfter : Timestamps,
   completedBefore : Timestamps, startedBefore : Timestamps, limit : Nat]

\* A timestamp that is there, and not the zero time, is converted to an option
\* that is set.
LEMMA TimeConverted ==
  ASSUME NEW ts \in Timestamps
  PROVE  /\ TimeOf(ts) \in Int
         /\ TimeOf(ts) = 0 => ts = Nil \/ ts = At(0)
<1>1. CASE ts = Nil
  BY <1>1 DEF TimeOf
<1>2. CASE ts # Nil
  <2>1. PICK t \in Int : ts = {t}
    BY <1>2 DEF Timestamps, At
  <2>2. TimeOf(ts) = t
    BY <1>2, <2>1 DEF TimeOf, TimeFromRPCTimestamp
  <2> QED
    BY <2>1, <2>2 DEF At
<1> QED
  BY <1>1, <1>2

\* Requests are converted to options.
LEMMA Converted ==
  ASSUME NEW Names, NEW States, NEW req \in AnyRequest(Names, States)
  PROVE  datalayerListBuildsOptions(req) \in AnyOptions(Names)
<1>1. BuildStatusFromState(req.state) \in Status
  BY DEF BuildStatusFromState, Status
<1>2. /\ TimeOf(req.completedAfter) \in Int /\ TimeOf(req.startedAfter) \in Int
      /\ TimeOf(req.completedBefore) \in Int /\ TimeOf(req.startedBefore) \in Int
  BY TimeConverted DEF AnyRequest
<1>3. req.repo \in Names /\ req.ref \in Names /\ req.image \in Names /\ req.limit \in Nat
  BY DEF AnyRequest
<1> QED
  BY <1>1, <1>2, <1>3 DEF datalayerListBuildsOptions, AnyOptions

\* Where nothing vanishes in the conversion, what the gRPC method lets through
\* has a conditional.
LEMMA SomeConditional ==
  ASSUME NEW Names, NEW States, NEW req \in AnyRequest(Names, States),
         Accepted(req), ~Vanishes(req)
  PROVE  Conditionals(datalayerListBuildsOptions(req)) # {}
<1> DEFINE opts == datalayerListBuildsOptions(req)
<1>1. SUFFICES ASSUME Conditionals(opts) = {}
               PROVE  FALSE
  OBVIOUS
<1>2. opts \in AnyOptions(Names)
  BY Converted
<1>3. /\ opts.repo = req.repo /\ opts.ref = req.ref /\ opts.image = req.image
      /\ opts.status = BuildStatusFromState(req.state)
      /\ opts.completedAfter = TimeOf(req.completedAfter)
      /\ opts.startedAfter = TimeOf(req.startedAfter)
      /\ opts.completedBefore = TimeOf(req.completedBefore)
      /\ opts.startedBefore = TimeOf(req.startedBefore)
  BY DEF datalayerListBuildsOptions
<1> HIDE DEF opts
<1>4. /\ opts.repo = "" /\ opts.ref = "" /\ opts.image = "" /\ opts.status = "Unknown"
      /\ opts.completedAfter = 0 /\ opts.startedAfter = 0
      /\ opts.completedBefore = 0 /\ opts.startedBefore = 0
  BY <1>1, <1>2, OptionsSet
<1>5. req.state = "Unknown"
  BY <1>3, <1>4 DEF Vanishes, BuildStatusFromState
<1>6. /\ req.completedAfter # At(0) /\ req.startedAfter # At(0)
      /\ req.completedBefore # At(0) /\ req.startedBefore # At(0)
  BY DEF Vanishes, TimeFields, AnyRequest
<1>7. /\ req.completedAfter = Nil /\ req.startedAfter = Nil
      /\ req.completedBefore = Nil /\ req.startedBefore = Nil
  BY <1>3, <1>4, <1>6, TimeConverted DEF AnyRequest
<1>8. [req EXCEPT !.limit = 0] =
        [repo |-> req.repo, ref |-> req.ref, image |-> req.image, state |-> req.state,
         completedAfter |-> req.completedAfter, startedAfter |-> req.startedAfter,
         completedBefore |-> req.completedBefore, startedBefore |-> req.startedBefore,
         limit |-> 0]
  BY DEF AnyRequest
<1> QED
  BY <1>3, <1>4, <1>5, <1>7, <1>8 DEF Accepted, ZeroRequest

\* For any builds and any request that the gRPC method lets through, the fake
\* lists what Postgres lists, except where only a limit is left of the request
\* after its conversion or CompletedAfter is before the zero time.
THEOREM ListsAlike ==
  ASSUME NEW Names, NEW States, NEW req \in AnyRequest(Names, States), Accepted(req),
         NEW d, \A b \in d : b.created \in Nat \ {0} /\ b.completed \in Nat
  PROVE  ListedAlike(d, req)
<1> DEFINE opts == datalayerListBuildsOptions(req)
<1>1. opts \in AnyOptions(Names)
  BY Converted
<1>2. Vanishes(req) \/ Conditionals(opts) # {}
  BY SomeConditional
<1> HIDE DEF opts
<1>3. CASE opts.completedAfter < 0
  BY <1>3 DEF ListedAlike, opts
<1>4. CASE ~(opts.completedAfter < 0)
  <2>1. {b \in d : FakeKeeps(opts, b)} =
          {b \in d : \A cond \in Conditionals(opts) : Holds(cond, opts, b)}
    BY <1>1, <1>4, KeptAlike
  <2>2. CASE Conditionals(opts) # {}
    BY <2>1, <2>2 DEF ListedAlike, FakeListBuilds, PgListBuilds, opts
  <2>3. CASE Conditionals(opts) = {} /\ opts = Zero
    BY <2>3 DEF ListedAlike, FakeListBuilds, PgListBuilds, BadOptions, opts
  <2>4. CASE Conditionals(opts) = {} /\ opts # Zero
    BY <1>2, <2>4 DEF ListedAlike, LimitOnly, opts
  <2> QED
    BY <2>2, <2>3, <2>4
<1> QED
  BY <1>3, <1>4

\* In particular for the builds of testDBListBuilds and requests for them.
THEOREM SuiteListsAlike == Spec => []FakeListsLikePostgres
<1> DEFINE Names == {"", "foo/bar2", "asdf", "1234", "def"}
           States == {"Unknown", "Failure", "Running", "no state"}
<1>1. ASSUME NEW req \in Requests
      PROVE  req \in AnyRequest(Names, States)
  <2>1. /\ {"", "foo/bar2"} \subseteq Names /\ {"", "asdf", "1234"} \subseteq Names
        /\ {"", "def"} \subseteq Names
    OBVIOUS
  <2>2. /\ {Nil, At(-1), At(0), At(4)} \subseteq Timestamps
        /\ {Nil, At(0), At(5), At(9)} \subseteq Timestamps
        /\ {Nil, At(0), At(2)} \subseteq Timestamps /\ {Nil, At(5), At(9)} \subseteq Timestamps
    BY DEF Timestamps
  <2>3. {0, 2} \subseteq Nat
    OBVIOUS
  <2> HIDE DEF Names, States
  <2>4. /\ req.repo \in Names /\ req.ref \in Names /\ req.image \in Names
        /\ req.limit \in Nat
    BY <2>1, <2>3 DEF Requests
  <2>5. req.state \in States
    BY DEF Requests, States
  <2>6. /\ req.completedAfter \in Timestamps /\ req.startedAfter \in Timestamps
        /\ req.completedBefore \in Timestamps /\ req.startedBefore \in Timestamps
    BY <2>2 DEF Requests
  <2>7. req = [repo |-> req.repo, ref |-> req.ref, image |-> req.image, state |-> req.state,
               completedAfter |-> req.completedAfter, startedAfter |-> req.startedAfter,
               completedBefore |-> req.completedBefore, startedBefore |-> req.startedBefore,
               limit |-> req.limit]
    BY DEF Requests
  <2> QED
    BY <2>4, <2>5, <2>6, <2>7 DEF AnyRequest
<1>2. ASSUME NEW b \in Listed(7)
      PROVE  b.created \in Nat \ {0} /\ b.completed \in Nat
  <2>1. b \in NewBuilds
    BY DEF Listed
  <2>2. \E i, repo, ref, images, s : \E c \in {0, 1, 5} : b = NewBuild(i, repo, ref, images, s, c)
    BY <2>1, Zenon DEF NewBuilds
  <2>3. PICK i, repo, ref, images, s, c : c \in {0, 1, 5} /\ b = NewBuild(i, repo, ref, images, s, c)
    BY <2>2
  <2>4. b.created = 6 /\ b.completed = c
    BY <2>3 DEF NewBuild
  <2> QED
    BY <2>3, <2>4
<1> HIDE DEF Names, States
<1>3. FakeListsLikePostgres
  BY <1>1, <1>2, ListsAlike DEF FakeListsLikePostgres
<1> QED
  BY <1>3, PTL
=============================================================================
