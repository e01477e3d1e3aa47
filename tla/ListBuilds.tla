----------------------------- MODULE ListBuilds ------------------------------
(***************************************************************************)
(* ListBuilds three times: the gRPC method (pkg/grpc), which lets only     *)
(* some requests through and converts them, and the method of the data     *)
(* layer, as SQL (pkg/datalayer/datalayer.go) and as filters over a map    *)
(* (fake.go).                                                              *)
(*                                                                         *)
(* A build and options are records; a field that is not set is "" or 0.    *)
(* Times are integers: 0 is the zero time, which begins the year 1.        *)
(***************************************************************************)
EXTENDS BuildStatus, Integers, FiniteSets

\* ListBuildsOptions{}
Zero == [repo |-> "", ref |-> "", image |-> "", status |-> "Unknown",
         completedAfter |-> 0, startedAfter |-> 0, completedBefore |-> 0, startedBefore |-> 0,
         limit |-> 0]

-----------------------------------------------------------------------------
(* Requests *)

\* A pointer to a timestamp: nil, or one that points to t
Nil == {}
At(t) == {t}

TimeFields == {"completedAfter", "startedAfter", "completedBefore", "startedBefore"}

\* ListBuildsRequest{}; its state is a status, or a number that stands for none.
ZeroRequest == [repo |-> "", ref |-> "", image |-> "", state |-> "Unknown",
                completedAfter |-> Nil, startedAfter |-> Nil,
                completedBefore |-> Nil, startedBefore |-> Nil, limit |-> 0]

\* Server.ListBuilds asks for one field of the request besides the limit,
Accepted(req) == [req EXCEPT !.limit = 0] # ZeroRequest

\* whatever it is converted to.
BuildStatusFromState(s) == IF s \in Status THEN s ELSE "Unknown"

TimeFromRPCTimestamp(ts) == CHOOSE t \in ts : TRUE
TimeOf(ts) == IF ts = Nil THEN 0 ELSE TimeFromRPCTimestamp(ts)

datalayerListBuildsOptions(req) ==
  [repo |-> req.repo, ref |-> req.ref, image |-> req.image,
   status |-> BuildStatusFromState(req.state),
   completedAfter |-> TimeOf(req.completedAfter), startedAfter |-> TimeOf(req.startedAfter),
   completedBefore |-> TimeOf(req.completedBefore), startedBefore |-> TimeOf(req.startedBefore),
   limit |-> req.limit]

-----------------------------------------------------------------------------
(* The data layers *)

\* Both refuse these options.
BadOptions(opts) ==
  \/ opts = Zero
  \/ opts.completedBefore # 0 /\ opts.completedBefore = opts.completedAfter
  \/ opts.startedBefore # 0 /\ opts.startedBefore = opts.startedAfter

\* completed is NULL until the build is completed, and no comparison with NULL
\* holds.
Null == 0
AtLeast(col, t) == col # Null /\ col >= t
Below(col, t) == col # Null /\ col < t

\* One conditional for every option that is set.
Conditionals(opts) == {f \in DOMAIN opts \ {"limit"} : opts[f] # Zero[f]}

Holds(cond, opts, b) ==
  CASE cond = "repo" -> b.repo = opts.repo
    [] cond = "ref" -> b.ref = opts.ref
    [] cond = "image" -> opts.image \in b.images
    [] cond = "status" -> b.status = opts.status
    [] cond = "completedAfter" -> AtLeast(b.completed, opts.completedAfter)
    [] cond = "startedAfter" -> AtLeast(b.created, opts.startedAfter)
    [] cond = "completedBefore" -> Below(b.completed, opts.completedBefore)
    [] cond = "startedBefore" -> Below(b.created, opts.startedBefore)

Refused == [err |-> TRUE, from |-> {}, count |-> 0]

\* A result: the builds it comes from, and how many of them it has
Result(found, limit) ==
  [err |-> FALSE, from |-> found,
   count |-> IF limit > 0 /\ Cardinality(found) > limit THEN limit ELSE Cardinality(found)]

\* SELECT ... WHERE ... LIMIT; a WHERE without conditionals is a syntax error.
PgListBuilds(d, opts) ==
  IF BadOptions(opts) \/ Conditionals(opts) = {} THEN Refused
  ELSE Result({b \in d : \A cond \in Conditionals(opts) : Holds(cond, opts, b)}, opts.limit)

\* Mutation: a build that is not completed counts as completed long ago.
FakeKeeps_Zero(opts, b) ==
  /\ opts.repo # "" => b.repo = opts.repo
  /\ opts.ref # "" => b.ref = opts.ref
  /\ opts.image # "" => opts.image \in b.images
  /\ opts.status # "Unknown" => b.status = opts.status
  /\ opts.completedAfter # 0 => b.completed >= opts.completedAfter
  /\ opts.startedAfter # 0 => b.created >= opts.startedAfter
  /\ opts.completedBefore # 0 => b.completed < opts.completedBefore
  /\ opts.startedBefore # 0 => b.created # 0 /\ b.created < opts.startedBefore

\* The filters of the fake, where a build that is not completed has the zero
\* time, which is compared like any other.
FakeKeeps(opts, b) ==
  /\ opts.repo # "" => b.repo = opts.repo
  /\ opts.ref # "" => b.ref = opts.ref
  /\ opts.image # "" => opts.image \in b.images
  /\ opts.status # "Unknown" => b.status = opts.status
  /\ opts.completedAfter # 0 => b.completed >= opts.completedAfter
  /\ opts.startedAfter # 0 => b.created >= opts.startedAfter
  /\ opts.completedBefore # 0 => b.completed # 0 /\ b.completed < opts.completedBefore
  /\ opts.startedBefore # 0 => b.created # 0 /\ b.created < opts.startedBefore

FakeListBuilds(d, opts) ==
  IF BadOptions(opts) THEN Refused ELSE Result({b \in d : FakeKeeps(opts, b)}, opts.limit)
==============================================================================
