-------------------------- MODULE BuildRequestProofs --------------------------
(***************************************************************************)
(* Theorems about BuildRequest, for any builds, requests, registries and   *)
(* number of commits.                                                      *)
(***************************************************************************)
EXTENDS BuildRequest, TLAPS

-----------------------------------------------------------------------------
(* Requests and names *)

\* A function to subsets of P stays one when one value is replaced by another.
LEMMA SubsetUpdate ==
  ASSUME NEW D, NEW P, NEW f \in [D -> SUBSET P], NEW d \in D, NEW v, v \subseteq P
  PROVE  [f EXCEPT ![d] = v] \in [D -> SUBSET P]
<1> DEFINE Q == SUBSET P
<1>1. v \in Q /\ f \in [D -> Q]
  OBVIOUS
<1> HIDE DEF Q
<1>2. [f EXCEPT ![d] = v] \in [D -> Q]
  BY <1>1
<1> QED BY <1>2 DEF Q

\* The tags of a request are no commits; with the commit of the build they are
\* tags that a registry may have, and its image names are names there.
LEMMA NamesType ==
  ASSUME TypeOK, NEW b \in Builds, NEW c \in Commits
  PROVE  /\ req[b].repos \in Seq(Repos)
         /\ TagsOf(b, c) \subseteq Tags
         /\ TagsOf(b, c) \intersect Commits \subseteq {c}
         /\ imageNames(req[b].repos, TagsOf(b, c)) \subseteq Repos \X Tags
<1>1. req[b] \in Requests
  BY DEF TypeOK
<1>2. req[b].repos \in Seq(Repos) /\ req[b].tags \intersect 0..MaxCommits = {}
  BY <1>1, RequestAssumption
<1>3. TagsOf(b, c) \subseteq Tags
  BY <1>1 DEF TagsOf, Tags
<1>4. TagsOf(b, c) \intersect Commits \subseteq {c}
  BY <1>2, RequestAssumption DEF TagsOf, Commits
<1>5. ToSet(req[b].repos) \subseteq Repos
  BY <1>2 DEF ToSet
<1> QED BY <1>2, <1>3, <1>4, <1>5 DEF imageNames

-----------------------------------------------------------------------------
(* Types *)

\* The steps of build b
Step(b) ==
  \/ StartBuild(b) \/ CreateJob(b) \/ GetCommitSHA(b)
  \/ CheckECR(b) \/ CheckQuay(b) \/ CheckGCR(b) \/ RepoChecked(b)
  \/ Fetch(b) \/ Push(b) \/ Succeed(b)
  \/ \E l \in {"sha", "check", "fetch", "push"} : Fail(b, l)

\* One question to a registry, whichever it is
LEMMA AskedSomething ==
  ASSUME NEW b \in Builds, CheckECR(b) \/ CheckQuay(b) \/ CheckGCR(b)
  PROVE  /\ pc[b] = "check"
         /\ \E t \in todo[b] : \E found :
              /\ Asked(b, t, found)
              /\ \A u \in found : There(RepoOf(b), u)
<1>1. CASE CheckECR(b)
  <2>1. PICK t \in todo[b] :
          \/ Asked(b, t, {})
          \/ /\ There(RepoOf(b), t)
             /\ \E others \in SUBSET {u \in Tags :
                                   registry[<<RepoOf(b), u>>] = registry[<<RepoOf(b), t>>]} :
                  Asked(b, t, {t} \union others)
    BY <1>1 DEF CheckECR
  <2>2. CASE Asked(b, t, {})
    BY <1>1, <2>2 DEF CheckECR
  <2>3. ASSUME There(RepoOf(b), t),
               NEW others, Asked(b, t, {t} \union others),
               \A u \in others : registry[<<RepoOf(b), u>>] = registry[<<RepoOf(b), t>>]
        PROVE  \E found : Asked(b, t, found) /\ \A u \in found : There(RepoOf(b), u)
    <3>1. \A u \in {t} \union others : There(RepoOf(b), u)
      BY <2>3 DEF There
    <3> QED BY <2>3, <3>1
  <2> QED BY <1>1, <2>1, <2>2, <2>3 DEF CheckECR
<1>2. CASE CheckQuay(b)
  <2>1. PICK t \in todo[b] : Asked(b, t, IF There(RepoOf(b), t) THEN {t} ELSE {})
    BY <1>2 DEF CheckQuay
  <2>2. \A u \in (IF There(RepoOf(b), t) THEN {t} ELSE {}) : There(RepoOf(b), u)
    OBVIOUS
  <2> QED BY <1>2, <2>1, <2>2 DEF CheckQuay
<1>3. CASE CheckGCR(b)
  BY <1>3 DEF CheckGCR
<1> QED BY <1>1, <1>2, <1>3

\* Every step keeps the types, and the order of resolving and fetching the ref.
LEMMA RequestType ==
  TypeOK /\ ResolvedInv /\ [Next]_vars => TypeOK' /\ ResolvedInv'
<1> SUFFICES ASSUME TypeOK, ResolvedInv, [Next]_vars PROVE TypeOK' /\ ResolvedInv'
  OBVIOUS
<1> DEFINE Good == TypeOK' /\ ResolvedInv'
<1>0. /\ ref \in Commits /\ ref \in Nat /\ MaxCommits \in Nat /\ Commits = 1..MaxCommits
      /\ sha \in [Builds -> Commits \union {0}] /\ source \in [Builds -> Commits \union {0}]
      /\ \A c \in Commits : c \in Nat /\ c # 0
  <2>1. MaxCommits \in Nat /\ Commits = 1..MaxCommits
    BY RequestAssumption DEF Commits
  <2>2. \A c \in Commits : c \in Nat /\ c # 0
    BY <2>1
  <2> QED BY <2>1, <2>2 DEF TypeOK
<1>1. CASE UNCHANGED vars
  BY <1>1 DEF vars, checkVars, TypeOK, ResolvedInv, Resolved
<1>2. CASE RefMoves
  <2>1. /\ ref' \in Commits /\ moved \subseteq moved' /\ moved' \subseteq Builds
        /\ \A b \in Builds : pc[b] \in {"check", "fetch"} => b \in moved'
    BY <1>2 DEF RefMoves, TypeOK
  <2>2. TypeOK'
    BY <1>2, <2>1 DEF RefMoves, TypeOK, checkVars
  <2>3. ResolvedInv'
    BY <1>2, <2>1 DEF RefMoves, ResolvedInv, Resolved
  <2> QED BY <2>2, <2>3
<1>3. ASSUME NEW b \in Builds,
             \/ StartBuild(b) \/ CreateJob(b) \/ Succeed(b)
             \/ \E l \in {"sha", "check", "fetch", "push"} : Fail(b, l)
      PROVE  Good
  <2>1. TypeOK'
    BY <1>3 DEF StartBuild, CreateJob, Succeed, Fail, Goto, TypeOK, checkVars
  <2>2. ResolvedInv'
    BY <1>3 DEF StartBuild, CreateJob, Succeed, Fail, Goto, TypeOK, ResolvedInv, Resolved
  <2> QED BY <2>1, <2>2
<1>4. ASSUME NEW b \in Builds, GetCommitSHA(b) PROVE Good
  <2>1. TagsOf(b, ref) \subseteq Tags
    BY <1>0, NamesType
  <2>2. todo' \in [Builds -> SUBSET Tags]
    <3>1. [todo EXCEPT ![b] = TagsOf(b, ref)] \in [Builds -> SUBSET Tags]
      BY <2>1, SubsetUpdate DEF TypeOK
    <3> QED BY <1>4, <3>1 DEF GetCommitSHA, TypeOK
  <2>3. sha' \in [Builds -> Commits \union {0}]
    BY <1>0, <1>4 DEF GetCommitSHA
  <2>4. pc' \in {[pc EXCEPT ![b] = "check"], [pc EXCEPT ![b] = "fetch"]}
    BY <1>4 DEF GetCommitSHA, Goto
  <2>5. TypeOK'
    BY <1>4, <2>2, <2>3, <2>4 DEF GetCommitSHA, TypeOK
  <2>6. ASSUME NEW q \in Builds PROVE Resolved(q)'
    <3>1. CASE q = b
      <4>1. sha'[b] = ref /\ source'[b] = 0 /\ pc'[b] \in {"check", "fetch"} /\ ref' = ref
        BY <1>0, <1>4, <2>4 DEF GetCommitSHA, TypeOK, ResolvedInv, Resolved
      <4> QED BY <1>0, <3>1, <4>1 DEF Resolved
    <3>2. CASE q # b
      BY <1>4, <2>4, <3>2 DEF GetCommitSHA, TypeOK, ResolvedInv, Resolved
    <3> QED BY <3>1, <3>2
  <2> QED BY <2>5, <2>6 DEF ResolvedInv
<1>5. ASSUME NEW b \in Builds, CheckECR(b) \/ CheckQuay(b) \/ CheckGCR(b) PROVE Good
  <2>1. PICK t \in todo[b] : \E found : Asked(b, t, found)
    BY <1>5, AskedSomething
  <2>2. PICK found : Asked(b, t, found)
    BY <2>1
  <2>3. todo[b] \ {t} \subseteq Tags /\ (missing[b] \union {t}) \ found \subseteq Tags
    BY DEF TypeOK
  <2>4. todo' \in [Builds -> SUBSET Tags] /\ missing' \in [Builds -> SUBSET Tags]
    BY <2>2, <2>3, SubsetUpdate DEF Asked, TypeOK
  <2>5. TypeOK'
    BY <2>2, <2>4 DEF Asked, TypeOK
  <2>6. ResolvedInv'
    BY <2>2 DEF Asked, ResolvedInv, Resolved
  <2> QED BY <2>5, <2>6
<1>6. ASSUME NEW b \in Builds, RepoChecked(b) PROVE Good
  <2>1. sha[b] \in Commits
    BY <1>0, <1>6 DEF RepoChecked, ResolvedInv, Resolved
  <2>2. todo' \in [Builds -> SUBSET Tags]
    <3>1. TagsOf(b, sha[b]) \subseteq Tags
      BY <2>1, NamesType
    <3>2. [todo EXCEPT ![b] = TagsOf(b, sha[b])] \in [Builds -> SUBSET Tags]
      BY <3>1, SubsetUpdate DEF TypeOK
    <3> QED BY <1>6, <3>2 DEF RepoChecked, checkVars, TypeOK
  <2>3. at' \in [Builds -> Nat \ {0}]
    <3>0. at \in [Builds -> Nat \ {0}]
      BY DEF TypeOK
    <3>1. at[b] + 1 \in Nat \ {0}
      BY <3>0
    <3>2. at' \in {at, [at EXCEPT ![b] = at[b] + 1]}
      BY <1>6 DEF RepoChecked, checkVars
    <3> QED BY <3>0, <3>1, <3>2
  <2>4. missing' = missing
    BY <1>6 DEF RepoChecked, checkVars
  <2>5. TypeOK'
    BY <1>6, <2>2, <2>3, <2>4 DEF RepoChecked, Goto, TypeOK
  <2>6. ResolvedInv'
    BY <1>6 DEF RepoChecked, Goto, TypeOK, ResolvedInv, Resolved
  <2> QED BY <2>5, <2>6
<1>7. ASSUME NEW b \in Builds, Fetch(b) PROVE Good
  <2>1. sha[b] \in Commits /\ (sha[b] = ref \/ b \in moved)
    BY <1>7 DEF Fetch, ResolvedInv, Resolved
  <2>2. unpushed' \in [Builds -> SUBSET (Repos \X Tags)]
    <3>1. imageNames(req[b].repos, TagsOf(b, sha[b])) \subseteq Repos \X Tags
      BY <2>1, NamesType
    <3> QED BY <1>7, <3>1, SubsetUpdate DEF Fetch, TypeOK
  <2>3. source' \in [Builds -> Commits \union {0}]
    BY <1>0, <1>7 DEF Fetch
  <2>4. TypeOK'
    BY <1>7, <2>2, <2>3 DEF Fetch, Goto, TypeOK, checkVars
  <2>5. ASSUME NEW q \in Builds PROVE Resolved(q)'
    <3>1. CASE q = b
      <4>1. sha'[b] = sha[b] /\ source'[b] = ref /\ pc'[b] = "push" /\ moved' = moved
        BY <1>0, <1>7 DEF Fetch, Goto, TypeOK
      <4> QED BY <1>0, <2>1, <3>1, <4>1 DEF Resolved
    <3>2. CASE q # b
      BY <1>7, <3>2 DEF Fetch, Goto, TypeOK, ResolvedInv, Resolved
    <3> QED BY <3>1, <3>2
  <2> QED BY <2>4, <2>5 DEF ResolvedInv
<1>8. ASSUME NEW b \in Builds, Push(b) PROVE Good
  <2>1. PICK n \in unpushed[b] : /\ registry' = [registry EXCEPT ![n] = source[b]]
                                /\ unpushed' = [unpushed EXCEPT ![b] = @ \ {n}]
    BY <1>8 DEF Push
  <2>2. unpushed' \in [Builds -> SUBSET (Repos \X Tags)]
    <3>1. unpushed[b] \ {n} \subseteq Repos \X Tags
      BY DEF TypeOK
    <3> QED BY <2>1, <3>1, SubsetUpdate DEF TypeOK
  <2>3. registry' \in [Repos \X Tags -> Commits \union {NoImage}]
    <3> DEFINE N == Repos \X Tags
    <3>1. registry \in [N -> Commits \union {NoImage}] /\ source[b] \in Commits \union {NoImage}
      BY <1>0 DEF TypeOK, NoImage
    <3> HIDE DEF N
    <3>2. registry' \in [N -> Commits \union {NoImage}]
      BY <2>1, <3>1
    <3> QED BY <3>2 DEF N
  <2>4. TypeOK'
    BY <1>8, <2>2, <2>3 DEF Push, TypeOK, checkVars
  <2>5. ResolvedInv'
    BY <1>8 DEF Push, ResolvedInv, Resolved
  <2> QED BY <2>4, <2>5
<1> QED BY <1>1, <1>2, <1>3, <1>4, <1>5, <1>6, <1>7, <1>8 DEF Next

\* The types, and the order of resolving and fetching, hold in every reachable
\* state.
LEMMA RequestInvariant == Spec => [](TypeOK /\ ResolvedInv)
<1>1. Init => TypeOK /\ ResolvedInv
  BY RequestAssumption DEF Init, TypeOK, ResolvedInv, Resolved, Commits, NoImage
<1> QED BY <1>1, RequestType, PTL DEF Spec

\* Every variable has its type: no build is labelled, and no image tagged, with
\* anything but a commit of the ref or a tag of the request.
THEOREM RequestTypeCorrect == Spec => []TypeOK
BY RequestInvariant, PTL

-----------------------------------------------------------------------------
(* Admission *)

\* The flags of the server name whole cores and bytes, as their defaults do.
WholeMaxima == \A f \in Resources : MaxResources[f] % 1000 = 0

\* Then the comparison of rounded values is the comparison of the quantities.
LEMMA RoundedCompare ==
  ASSUME NEW q \in Int, NEW m \in Nat, m % 1000 = 0, Value(q) <= Value(m)
  PROVE  q <= m
<1>1. CASE q < 0
  BY <1>1
<1>2. CASE q >= 0
  <2> DEFINE k == m \div 1000
  <2>1. k \in Nat /\ m = 1000 * k
    OBVIOUS
  <2>2. (m + 999) \div 1000 = k
    BY <2>1
  <2>3. (q + 999) \div 1000 <= k
    BY <1>2, <2>2 DEF Value
  <2>4. q + 999 < 1000 * (k + 1)
    BY <1>2, <2>1, <2>3
  <2> QED BY <2>1, <2>4
<1> QED BY <1>1, <1>2

\* StartBuild gives no build to a client without full rights, nor more than a
\* maximum, where the maxima are whole.
THEOREM OnlyAllowedAccepted ==
  ASSUME WholeMaxima
  PROVE  Spec => []AcceptedIsAllowed
<1>1. Init => AcceptedIsAllowed
  BY DEF Init, AcceptedIsAllowed, Accepted
<1>2. TypeOK /\ AcceptedIsAllowed /\ [Next]_vars => AcceptedIsAllowed'
  <2> SUFFICES ASSUME TypeOK, AcceptedIsAllowed, [Next]_vars
               PROVE  AcceptedIsAllowed'
    OBVIOUS
  <2> DEFINE Allowed(q) ==
        /\ req[q].key = "full"
        /\ \A f \in Resources :
             req[q].resources[f] # NotSet =>
               req[q].resources[f] # Invalid /\ req[q].resources[f] <= MaxResources[f]
  <2>0. req' = req /\ DOMAIN pc = Builds
    BY DEF Next, vars, RefMoves, StartBuild, CreateJob, GetCommitSHA, CheckECR, CheckQuay,
       CheckGCR, Asked, RepoChecked, Fetch, Push, Succeed, Fail, TypeOK
  <2>1. \A q \in Builds : Accepted(q)' => Accepted(q) \/ StartBuild(q)
    <3>1. ASSUME NEW b \in Builds, Step(b), pc' # pc
          PROVE  (StartBuild(b) \/ Accepted(b)) /\ \A q \in Builds \ {b} : pc'[q] = pc[q]
      BY <2>0, <3>1 DEF Step, StartBuild, CreateJob, GetCommitSHA, CheckECR, CheckQuay,
         CheckGCR, Asked, RepoChecked, Fetch, Push, Succeed, Fail, Goto, Accepted
    <3>2. pc' = pc \/ \E b \in Builds : Step(b)
      BY DEF Next, vars, RefMoves, Step
    <3> QED BY <3>1, <3>2 DEF Accepted
  <2>2. ASSUME NEW b \in Builds, StartBuild(b), Accepted(b)' PROVE Allowed(b)
    <3>1. apiKeyAuth("StartBuild", req[b].key) /\ WithinLimits(req[b].resources)
      BY <2>0, <2>2 DEF StartBuild, Goto, Accepted
    <3>2. req[b].key = "full"
      BY <3>1 DEF apiKeyAuth, ReadOnly
    <3>3. ASSUME NEW f \in Resources, req[b].resources[f] # NotSet
          PROVE  req[b].resources[f] # Invalid /\ req[b].resources[f] <= MaxResources[f]
      <4>1. req[b].resources[f] \in Int /\ Value(req[b].resources[f]) <= Value(MaxResources[f])
        BY <3>1, <3>3, RequestAssumption DEF WithinLimits, TypeOK
      <4> QED BY <4>1, RoundedCompare, RequestAssumption DEF WholeMaxima
    <3> QED BY <3>2, <3>3
  <2>3. ASSUME NEW b \in Builds, Accepted(b)' PROVE Allowed(b)
    BY <2>1, <2>2, <2>3 DEF AcceptedIsAllowed
  <2> QED BY <2>0, <2>3 DEF AcceptedIsAllowed
<1> QED BY <1>1, <1>2, RequestTypeCorrect, PTL DEF Spec

\* The Job's own limits are not below its requests, nor below what a client may
\* request: so with the defaults of the flags.
DefaultsFit ==
  \A p \in RequestAndLimit :
    /\ DefaultResources[p[1]] <= DefaultResources[p[2]]
    /\ MaxResources[p[1]] <= DefaultResources[p[2]]

\* Then replacing the lists of requests and limits one by one makes no clash,
\* unless the limits alone are replaced.
LEMMA ListsFit ==
  ASSUME DefaultsFit, NEW r, Admits(r),
         \A f \in Resources : r[f] # NotSet => r[f] \in Int /\ r[f] <= MaxResources[f],
         \/ \E f \in {"cpuReq", "memReq"} : r[f] # NotSet
         \/ \A f \in {"cpuLim", "memLim"} : r[f] = NotSet
  PROVE  Admits(JobResources(r))
<1> DEFINE reqs == {"cpuReq", "memReq"}
           lims == {"cpuLim", "memLim"}
           none(list) == \A f \in list : r[f] = NotSet
<1>1. PICK j : j = JobResources(r)
  OBVIOUS
<1>2. /\ \A f \in reqs : j[f] = IF none(reqs) THEN DefaultResources[f] ELSE r[f]
      /\ \A f \in lims : j[f] = IF none(lims) THEN DefaultResources[f] ELSE r[f]
  BY <1>1 DEF JobResources, Resources
<1>3. ASSUME NEW f \in Resources, j[f] # NotSet PROVE j[f] >= 0
  <2>1. j[f] \in {DefaultResources[f], r[f]}
    BY <1>2 DEF Resources
  <2>2. DefaultResources[f] >= 0 /\ (r[f] # NotSet => r[f] >= 0)
    BY RequestAssumption DEF Admits
  <2> QED BY <1>3, <2>1, <2>2
<1>4. ASSUME NEW p \in RequestAndLimit, j[p[1]] # NotSet, j[p[2]] # NotSet
      PROVE  j[p[1]] <= j[p[2]]
  <2>1. p[1] \in reqs /\ p[2] \in lims /\ p[1] \in Resources /\ p[2] \in Resources
    BY DEF RequestAndLimit, Resources
  <2>2. /\ DefaultResources[p[1]] <= DefaultResources[p[2]]
        /\ MaxResources[p[1]] <= DefaultResources[p[2]]
        /\ MaxResources[p[1]] \in Nat /\ DefaultResources[p[2]] \in Nat
    BY <2>1, RequestAssumption DEF DefaultsFit
  <2>3. CASE none(reqs)
    <3>1. j[p[1]] = DefaultResources[p[1]] /\ j[p[2]] = DefaultResources[p[2]]
      BY <1>2, <2>1, <2>3
    <3> QED BY <2>2, <3>1
  <2>4. CASE ~none(reqs) /\ none(lims)
    <3>1. j[p[1]] = r[p[1]] /\ j[p[2]] = DefaultResources[p[2]]
      BY <1>2, <2>1, <2>4
    <3>2. r[p[1]] \in Int /\ r[p[1]] <= MaxResources[p[1]]
      BY <1>4, <2>1, <3>1
    <3> QED BY <2>2, <3>1, <3>2
  <2>5. CASE ~none(reqs) /\ ~none(lims)
    <3>1. j[p[1]] = r[p[1]] /\ j[p[2]] = r[p[2]]
      BY <1>2, <2>1, <2>5
    <3> QED BY <1>4, <3>1 DEF Admits
  <2> QED BY <2>3, <2>4, <2>5
<1> QED BY <1>1, <1>3, <1>4 DEF Admits

\* Then Kubernetes refuses the resources of an accepted request only if they
\* contradict each other, or set limits and leave the requests to the Job.
THEOREM OtherwiseAdmitted ==
  ASSUME WholeMaxima, DefaultsFit
  PROVE  Spec => []AdmittedUnlessLimitOnly
<1>1. TypeOK /\ AcceptedIsAllowed => AdmittedUnlessLimitOnly
  <2> SUFFICES ASSUME TypeOK, AcceptedIsAllowed, NEW b \in Builds, Accepted(b),
                      Admits(req[b].resources),
                      \/ \E f \in {"cpuReq", "memReq"} : req[b].resources[f] # NotSet
                      \/ \A f \in {"cpuLim", "memLim"} : req[b].resources[f] = NotSet
               PROVE  Admits(JobResources(req[b].resources))
    BY DEF AdmittedUnlessLimitOnly
  <2>1. \A f \in Resources : req[b].resources[f] # NotSet =>
          req[b].resources[f] \in Int /\ req[b].resources[f] <= MaxResources[f]
    BY RequestAssumption DEF TypeOK, AcceptedIsAllowed
  <2> QED BY <2>1, ListsFit
<1> QED BY <1>1, OnlyAllowedAccepted, RequestTypeCorrect, PTL

-----------------------------------------------------------------------------
(* Steps and registries *)

\* A step of one build leaves the others where they are.
LEMMA OthersKept ==
  ASSUME TypeOK, NEW b \in Builds, Step(b), NEW q \in Builds \ {b}
  PROVE  /\ pc'[q] = pc[q] /\ sha'[q] = sha[q] /\ source'[q] = source[q]
         /\ at'[q] = at[q] /\ todo'[q] = todo[q] /\ missing'[q] = missing[q]
         /\ unpushed'[q] = unpushed[q]
<1>1. CASE CheckECR(b) \/ CheckQuay(b) \/ CheckGCR(b)
  <2>1. PICK t, found : Asked(b, t, found)
    BY <1>1, AskedSomething
  <2> QED BY <2>1 DEF Asked, TypeOK
<1>2. CASE ~(CheckECR(b) \/ CheckQuay(b) \/ CheckGCR(b))
  BY <1>2 DEF Step, StartBuild, CreateJob, GetCommitSHA, RepoChecked, Fetch, Push, Succeed,
     Fail, Goto, checkVars, TypeOK
<1> QED BY <1>1, <1>2

\* Requests never change.
LEMMA RequestsKept ==
  ASSUME [Next]_vars
  PROVE  req' = req
BY DEF Next, vars, RefMoves, StartBuild, CreateJob, GetCommitSHA, CheckECR, CheckQuay,
   CheckGCR, Asked, RepoChecked, Fetch, Push, Succeed, Fail

\* A build that pushes has fetched a commit.
LEMMA CommitFetched ==
  ASSUME ResolvedInv, NEW b \in Builds, pc[b] \in {"push", "success"}
  PROVE  source[b] # NoImage
<1>1. source[b] \in 1..MaxCommits
  BY DEF ResolvedInv, Resolved, Commits
<1> QED BY <1>1, RequestAssumption DEF NoImage

\* An image stays in a registry until another one replaces it.
LEMMA ImagesKept ==
  ASSUME TypeOK, ResolvedInv, [Next]_vars, NEW n \in Repos \X Tags, registry[n] # NoImage
  PROVE  registry'[n] # NoImage
<1>1. ASSUME NEW b \in Builds, Push(b) PROVE registry'[n] # NoImage
  <2>1. PICK m \in unpushed[b] : registry' = [registry EXCEPT ![m] = source[b]]
    BY <1>1 DEF Push
  <2>2. source[b] # NoImage
    BY <1>1, CommitFetched DEF Push
  <2>3. DOMAIN registry = Repos \X Tags
    BY DEF TypeOK
  <2> QED BY <2>1, <2>2, <2>3
<1>2. CASE UNCHANGED registry
  BY <1>2
<1> QED BY <1>1, <1>2
     DEF Next, vars, RefMoves, StartBuild, CreateJob, GetCommitSHA, CheckECR, CheckQuay,
         CheckGCR, Asked, RepoChecked, Fetch, Succeed, Fail

-----------------------------------------------------------------------------
(* Skipped builds *)

\* A build that resolved the ref has a commit.
LEMMA CommitResolved ==
  ASSUME TypeOK, ResolvedInv, NEW b \in Builds,
         pc[b] \in {"check", "fetch", "push", "success", "skipped"}
  PROVE  sha[b] \in Commits
BY DEF ResolvedInv, Resolved

\* The repos that the tag check has dealt with, and the one it is at
LEMMA CheckedNames ==
  ASSUME TypeOK, ResolvedInv, CheckInv, NEW b \in Builds, pc[b] = "check"
  PROVE  /\ sha[b] \in Commits
         /\ \A i \in 1..at[b], t \in TagsOf(b, sha[b]) :
              <<req[b].repos[i], t>> \in Repos \X Tags
<1>1. sha[b] \in Commits
  BY CommitResolved
<1>2. req[b].repos \in Seq(Repos) /\ TagsOf(b, sha[b]) \subseteq Tags
  BY <1>1, NamesType
<1>3. at[b] \in 1..Len(req[b].repos)
  BY DEF CheckInv, Checked
<1>4. \A i \in 1..at[b] : req[b].repos[i] \in Repos
  BY <1>2, <1>3
<1> QED BY <1>1, <1>2, <1>4

\* A step that is not the build's own leaves its tag check as it is.
LEMMA CheckedKept ==
  ASSUME TypeOK, ResolvedInv, CheckInv, [Next]_vars, NEW q \in Builds,
         pc'[q] = pc[q], sha'[q] = sha[q], at'[q] = at[q], todo'[q] = todo[q],
         missing'[q] = missing[q]
  PROVE  Checked(q)'
<1>1. Checked(q) /\ req' = req
  BY RequestsKept DEF CheckInv
<1>2. TagsOf(q, sha[q])' = TagsOf(q, sha[q]) /\ RepoOf(q)' = RepoOf(q)
  BY <1>1 DEF TagsOf, RepoOf
<1>3. CASE pc[q] = "check"
  <2>1. at[q] \in Nat \ {0}
    BY DEF TypeOK
  <2>2. \A i \in 1..at[q], t \in TagsOf(q, sha[q]) :
          There(req[q].repos[i], t) => There(req[q].repos[i], t)'
    <3> SUFFICES ASSUME NEW i \in 1..at[q], NEW t \in TagsOf(q, sha[q]),
                        There(req[q].repos[i], t)
                 PROVE  There(req[q].repos[i], t)'
      OBVIOUS
    <3> DEFINE n == <<req[q].repos[i], t>>
    <3>1. n \in Repos \X Tags
      BY <1>3, CheckedNames
    <3>2. registry[n] # NoImage
      BY DEF There
    <3> HIDE DEF n
    <3>3. registry'[n] # NoImage
      BY <3>1, <3>2, ImagesKept
    <3> QED BY <1>1, <3>3 DEF There, n
  <2>3. \A i \in 1..(at[q] - 1), t \in TagsOf(q, sha[q]) : There(req[q].repos[i], t)'
    BY <1>1, <1>3, <2>1, <2>2 DEF Checked
  <2>4. \A t \in TagsOf(q, sha[q]) \ (todo[q] \union missing[q]) : There(RepoOf(q), t)'
    BY <1>1, <1>3, <2>1, <2>2 DEF Checked, RepoOf
  <2>5. at[q] \in 1..Len(req[q].repos)
    BY <1>1, <1>3 DEF Checked
  <2> HIDE DEF There
  <2> QED BY <1>1, <1>2, <1>3, <2>3, <2>4, <2>5 DEF Checked
<1>4. CASE pc[q] = "skipped"
  <2>1. sha[q] \in Commits
    BY <1>4, CommitResolved
  <2>2. Names(q) \subseteq Repos \X Tags
    BY <2>1, NamesType DEF Names
  <2>3. \A n \in Names(q) : registry'[n] # NoImage
    BY <1>1, <1>4, <2>2, ImagesKept DEF Checked
  <2>4. Names(q)' = Names(q)
    BY <1>1 DEF Names, TagsOf
  <2> QED BY <1>4, <2>3, <2>4 DEF Checked
<1>5. CASE pc[q] \notin {"check", "skipped"}
  BY <1>1, <1>5 DEF Checked
<1> QED BY <1>3, <1>4, <1>5

\* Once a repo lacks none of the tags, all of them are there in it and in those
\* before it.
LEMMA RepoComplete ==
  ASSUME TypeOK, CheckInv, NEW b \in Builds, pc[b] = "check", todo[b] = {}, missing[b] = {}
  PROVE  \A i \in 1..at[b], t \in TagsOf(b, sha[b]) : There(req[b].repos[i], t)
<1>1. Checked(b) /\ at[b] \in Nat \ {0}
  BY DEF CheckInv, TypeOK
<1>2. \A t \in TagsOf(b, sha[b]) : There(req[b].repos[at[b]], t)
  BY <1>1 DEF Checked, RepoOf
<1>3. \A i \in 1..at[b] : i \in 1..(at[b] - 1) \/ i = at[b]
  BY <1>1
<1> QED BY <1>1, <1>2, <1>3 DEF Checked

\* A step of the build itself keeps what its tag check found.
LEMMA CheckedStep ==
  ASSUME TypeOK, ResolvedInv, CheckInv, [Next]_vars, NEW b \in Builds, Step(b)
  PROVE  Checked(b)'
<1>0. /\ Checked(b) /\ req' = req
      /\ DOMAIN pc = Builds /\ DOMAIN at = Builds /\ DOMAIN todo = Builds
      /\ DOMAIN missing = Builds /\ DOMAIN sha = Builds /\ at[b] \in Nat \ {0}
  BY RequestsKept DEF CheckInv, TypeOK
<1>1. CASE StartBuild(b) \/ CreateJob(b)
  <2>1. req[b].repos \in Seq(Repos)
    BY RequestAssumption DEF TypeOK
  <2>2. req[b].repos # <<>> => Len(req[b].repos) \in Nat \ {0}
    BY <2>1
  <2>3. CASE StartBuild(b)
    BY <1>0, <2>2, <2>3 DEF StartBuild, Goto, checkVars, Checked
  <2>4. CASE CreateJob(b)
    BY <1>0, <2>4 DEF CreateJob, Goto, checkVars, Checked
  <2> QED BY <1>1, <2>3, <2>4
<1>2. CASE GetCommitSHA(b)
  <2>1. CASE pc'[b] = "fetch"
    BY <2>1 DEF Checked
  <2>2. CASE pc'[b] # "fetch"
    <3>1. /\ pc'[b] = "check" /\ at' = at /\ at[b] = 1 /\ at[b] \in 1..Len(req[b].repos)
          /\ sha'[b] = ref /\ todo'[b] = TagsOf(b, ref)
      BY <1>0, <1>2, <2>2 DEF GetCommitSHA, Goto, Checked
    <3>2. TagsOf(b, sha[b])' = todo'[b]
      BY <1>0, <3>1 DEF TagsOf
    <3>3. 1..(at[b] - 1) = {}
      BY <3>1
    <3> QED BY <1>0, <3>1, <3>2, <3>3 DEF Checked
  <2> QED BY <2>1, <2>2
<1>3. CASE CheckECR(b) \/ CheckQuay(b) \/ CheckGCR(b)
  <2>1. PICK t \in todo[b] : \E found : /\ Asked(b, t, found)
                                       /\ \A u \in found : There(RepoOf(b), u)
    BY <1>3, AskedSomething
  <2>2. PICK found : Asked(b, t, found) /\ \A u \in found : There(RepoOf(b), u)
    BY <2>1
  <2>3. /\ pc[b] = "check" /\ UNCHANGED <<pc, at, sha, registry>>
        /\ todo'[b] = todo[b] \ {t} /\ missing'[b] = (missing[b] \union {t}) \ found
    BY <1>0, <1>3, <2>2, AskedSomething DEF Asked
  <2>4. TagsOf(b, sha[b])' = TagsOf(b, sha[b]) /\ RepoOf(b)' = RepoOf(b)
    BY <1>0, <2>3 DEF TagsOf, RepoOf
  <2>5. \A u \in TagsOf(b, sha[b]) \ (todo'[b] \union missing'[b]) : There(RepoOf(b), u)
    BY <1>0, <2>2, <2>3 DEF Checked
  <2> QED BY <1>0, <2>3, <2>4, <2>5 DEF Checked, There
<1>4. CASE RepoChecked(b)
  <2>1. /\ pc[b] = "check" /\ UNCHANGED <<sha, registry>> /\ todo[b] = {}
        /\ TagsOf(b, sha[b])' = TagsOf(b, sha[b])
    BY <1>0, <1>4 DEF RepoChecked, TagsOf
  <2>2. CASE missing[b] # {}
    <3>1. pc'[b] = "fetch"
      BY <1>0, <1>4, <2>2 DEF RepoChecked, Goto
    <3> QED BY <3>1 DEF Checked
  <2>3. CASE missing[b] = {} /\ pc'[b] = "skipped"
    <3>1. at[b] = Len(req[b].repos)
      BY <1>4, <2>1, <2>3 DEF RepoChecked
    <3>2. \A i \in 1..Len(req[b].repos), t \in TagsOf(b, sha[b]) : There(req[b].repos[i], t)
      BY <2>1, <2>3, <3>1, RepoComplete
    <3>3. req[b].repos \in Seq(Repos)
      BY RequestAssumption DEF TypeOK
    <3>4. \A r \in ToSet(req[b].repos), t \in TagsOf(b, sha[b]) : There(r, t)
      BY <3>2, <3>3 DEF ToSet
    <3>5. \A n \in Names(b) : registry[n] # NoImage
      BY <3>4 DEF Names, imageNames, There
    <3>6. Names(b)' = Names(b)
      BY <1>0, <2>1 DEF Names
    <3> QED BY <2>1, <2>3, <3>5, <3>6 DEF Checked
  <2>4. CASE missing[b] = {} /\ pc'[b] # "skipped"
    <3>1. /\ at[b] < Len(req[b].repos) /\ at'[b] = at[b] + 1 /\ pc'[b] = "check"
          /\ todo'[b] = TagsOf(b, sha[b])
      BY <1>0, <1>4, <2>1, <2>4 DEF RepoChecked, Goto
    <3>2. \A i \in 1..at[b], t \in TagsOf(b, sha[b]) : There(req[b].repos[i], t)'
      BY <1>0, <2>1, <2>4, RepoComplete DEF There
    <3>3. at'[b] - 1 = at[b] /\ at'[b] \in 1..Len(req[b].repos)
      <4>1. req[b].repos \in Seq(Repos)
        BY RequestAssumption DEF TypeOK
      <4>2. Len(req[b].repos) \in Nat
        BY <4>1
      <4> QED BY <1>0, <3>1, <4>2
    <3> QED BY <1>0, <2>1, <3>1, <3>2, <3>3 DEF Checked
  <2> QED BY <2>2, <2>3, <2>4
<1>5. CASE \/ Fetch(b) \/ Push(b) \/ Succeed(b)
           \/ \E l \in {"sha", "check", "fetch", "push"} : Fail(b, l)
  BY <1>0, <1>5 DEF Fetch, Push, Succeed, Fail, Goto, Checked
<1> QED BY <1>1, <1>2, <1>3, <1>4, <1>5 DEF Step

\* CheckInv is an invariant.
LEMMA CheckInvariant == Spec => []CheckInv
<1>1. Init => CheckInv
  BY DEF Init, CheckInv, Checked
<1>2. TypeOK /\ ResolvedInv /\ CheckInv /\ [Next]_vars => CheckInv'
  <2> SUFFICES ASSUME TypeOK, ResolvedInv, CheckInv, [Next]_vars, NEW q \in Builds
               PROVE  Checked(q)'
    BY DEF CheckInv
  <2>1. CASE RefMoves \/ UNCHANGED vars
    BY <2>1, CheckedKept DEF RefMoves, vars, checkVars
  <2>2. ASSUME NEW b \in Builds, Step(b) PROVE Checked(q)'
    BY <2>2, OthersKept, CheckedKept, CheckedStep
  <2> QED BY <2>1, <2>2 DEF Next, Step
<1> QED BY <1>1, <1>2, RequestInvariant, PTL DEF Spec

\* A build is skipped only if all its tags are in all its repos, whatever other
\* builds push between the questions and whatever the registries answer at once.
THEOREM SkippedOnlyIfThere == Spec => []SkippedIsThere
<1>1. CheckInv => SkippedIsThere
  BY DEF CheckInv, Checked, SkippedIsThere
<1> QED BY <1>1, CheckInvariant, PTL

-----------------------------------------------------------------------------
(* Pushed images *)

\* What a build can push to, the tag check can look up.
LEMMA PushableIsCheckable ==
  ASSUME NEW repo, Credentials(HostOf[repo]) = "token"
  PROVE  CanCheck(repo)
BY DEF Credentials, CanCheck

\* A step keeps what a build has pushed.
LEMMA PushedStep ==
  ASSUME TypeOK, ResolvedInv, PushInv, [Next]_vars, NEW b \in Builds, Step(b)
  PROVE  Pushed(b)'
<1>0. /\ Pushed(b) /\ req' = req
      /\ DOMAIN pc = Builds /\ DOMAIN sha = Builds /\ DOMAIN unpushed = Builds
      /\ DOMAIN registry = Repos \X Tags
  BY RequestsKept DEF PushInv, TypeOK
<1>1. CASE Fetch(b)
  <2>1. unpushed'[b] = Names(b) /\ Names(b)' = Names(b) /\ pc'[b] = "push"
    BY <1>0, <1>1 DEF Fetch, Goto, Names, TagsOf
  <2> QED BY <2>1 DEF Pushed
<1>2. CASE Push(b)
  <2>1. PICK n \in unpushed[b] : /\ Credentials(HostOf[n[1]]) = "token"
                                /\ registry' = [registry EXCEPT ![n] = source[b]]
                                /\ unpushed' = [unpushed EXCEPT ![b] = @ \ {n}]
    BY <1>2 DEF Push
  <2>2. pc[b] = "push" /\ pc' = pc /\ unpushed'[b] = unpushed[b] \ {n} /\ Names(b)' = Names(b)
    BY <1>0, <1>2, <2>1 DEF Push, Names, TagsOf
  <2>3. Names(b) \subseteq Repos \X Tags
    BY <2>2, CommitResolved, NamesType DEF Names
  <2>4. CanCheck(n[1])
    BY <2>1, PushableIsCheckable
  <2>5. registry'[n] # NoImage
    <3>1. source[b] # NoImage
      BY <2>2, CommitFetched
    <3>2. n \in Repos \X Tags
      BY DEF TypeOK
    <3> QED BY <1>0, <2>1, <3>1, <3>2
  <2>6. \A m \in Names(b) \ unpushed'[b] : registry'[m] # NoImage /\ CanCheck(m[1])
    BY <1>0, <2>2, <2>3, <2>4, <2>5, ImagesKept DEF Pushed
  <2> QED BY <1>0, <2>2, <2>6 DEF Pushed
<1>3. CASE Succeed(b)
  <2>1. /\ pc[b] = "push" /\ pc'[b] = "success" /\ UNCHANGED <<unpushed, registry>>
        /\ unpushed[b] = {} /\ Names(b)' = Names(b)
    BY <1>0, <1>3 DEF Succeed, Goto, Names, TagsOf
  <2> QED BY <1>0, <2>1 DEF Pushed
<1>4. CASE ~(Fetch(b) \/ Push(b) \/ Succeed(b))
  <2>1. pc'[b] \notin {"push", "success"}
    <3>1. CASE CheckECR(b) \/ CheckQuay(b) \/ CheckGCR(b)
      BY <3>1, AskedSomething DEF Asked
    <3>2. CASE ~(CheckECR(b) \/ CheckQuay(b) \/ CheckGCR(b))
      BY <1>0, <1>4, <3>2 DEF Step, StartBuild, CreateJob, GetCommitSHA, RepoChecked, Fail, Goto
    <3> QED BY <3>1, <3>2
  <2> QED BY <2>1 DEF Pushed
<1> QED BY <1>1, <1>2, <1>3, <1>4

\* So does a step of another build.
LEMMA PushedKept ==
  ASSUME TypeOK, ResolvedInv, PushInv, [Next]_vars, NEW q \in Builds,
         pc'[q] = pc[q], sha'[q] = sha[q], unpushed'[q] = unpushed[q]
  PROVE  Pushed(q)'
<1>1. Pushed(q) /\ Names(q)' = Names(q)
  BY RequestsKept DEF PushInv, Names, TagsOf
<1>2. CASE pc[q] \in {"push", "success"}
  <2>1. Names(q) \subseteq Repos \X Tags
    BY <1>2, CommitResolved, NamesType DEF Names
  <2>2. \A n \in Names(q) \ unpushed[q] : registry'[n] # NoImage /\ CanCheck(n[1])
    BY <1>1, <1>2, <2>1, ImagesKept DEF Pushed
  <2> QED BY <1>1, <1>2, <2>2 DEF Pushed
<1>3. CASE pc[q] \notin {"push", "success"}
  BY <1>3 DEF Pushed
<1> QED BY <1>2, <1>3

\* A step keeps the builds that the tags of commits come from.
LEMMA ShaTagStep ==
  ASSUME TypeOK, ResolvedInv, PushInv, [Next]_vars
  PROVE  ShaTagUnlessMoved'
<1> SUFFICES ASSUME NEW r \in Repos, NEW c \in Commits, registry'[<<r, c>>] # NoImage
             PROVE  \E b \in Builds :
                      /\ sha'[b] = c /\ source'[b] = registry'[<<r, c>>]
                      /\ source'[b] # c => b \in moved'
  BY DEF ShaTagUnlessMoved
<1>0. /\ DOMAIN registry = Repos \X Tags /\ <<r, c>> \in Repos \X Tags
      /\ ShaTagUnlessMoved
  BY DEF TypeOK, PushInv, Tags
<1>1. moved \subseteq moved'
  BY DEF Next, vars, RefMoves, StartBuild, CreateJob, GetCommitSHA, CheckECR, CheckQuay,
     CheckGCR, Asked, RepoChecked, Fetch, Push, Succeed, Fail
<1>2. ASSUME NEW b \in Builds, sha[b] = c, source[b] # NoImage
      PROVE  sha'[b] = c /\ source'[b] = source[b]
  <2>1. pc[b] \in {"push", "success", "failed"}
    BY <1>2 DEF ResolvedInv, Resolved, NoImage
  <2>2. CASE RefMoves \/ UNCHANGED vars
    BY <1>2, <2>2 DEF RefMoves, vars
  <2>3. ASSUME NEW q \in Builds, Step(q) PROVE sha'[b] = sha[b] /\ source'[b] = source[b]
    <3>1. CASE q = b
      BY <2>1, <2>3, <3>1
      DEF Step, StartBuild, CreateJob, GetCommitSHA, CheckECR, CheckQuay, CheckGCR,
          RepoChecked, Fetch, Push, Succeed, Fail
    <3>2. CASE q # b
      BY <2>3, <3>2, OthersKept
    <3> QED BY <3>1, <3>2
  <2> QED BY <1>2, <2>2, <2>3 DEF Next, Step
<1>3. CASE registry'[<<r, c>>] = registry[<<r, c>>]
  BY <1>0, <1>1, <1>2, <1>3 DEF ShaTagUnlessMoved
<1>4. CASE registry'[<<r, c>>] # registry[<<r, c>>]
  <2>1. PICK b \in Builds : Push(b)
    BY <1>4 DEF Next, vars, RefMoves, StartBuild, CreateJob, GetCommitSHA, CheckECR,
       CheckQuay, CheckGCR, Asked, RepoChecked, Fetch, Succeed, Fail
  <2>2. PICK n \in unpushed[b] : registry' = [registry EXCEPT ![n] = source[b]]
    BY <2>1 DEF Push
  <2>3. n = <<r, c>> /\ registry'[<<r, c>>] = source[b]
    BY <1>0, <1>4, <2>2
  <2>4. n \in Names(b) /\ pc[b] = "push"
    BY <2>1, <2>2 DEF Push, PushInv, Pushed
  <2>5. c \in TagsOf(b, sha[b])
    BY <2>3, <2>4 DEF Names, imageNames
  <2>6. c = sha[b]
    BY <2>4, <2>5, CommitResolved, NamesType
  <2>7. source[b] = sha[b] \/ b \in moved
    BY <2>4 DEF ResolvedInv, Resolved
  <2>8. sha' = sha /\ source' = source
    BY <2>1 DEF Push
  <2> QED BY <1>1, <2>3, <2>6, <2>7, <2>8
<1> QED BY <1>3, <1>4

\* PushInv is an invariant.
LEMMA PushInvariant == Spec => []PushInv
<1>1. Init => PushInv
  BY DEF Init, PushInv, Pushed, ShaTagUnlessMoved, Tags
<1>2. TypeOK /\ ResolvedInv /\ PushInv /\ [Next]_vars => PushInv'
  <2> SUFFICES ASSUME TypeOK, ResolvedInv, PushInv, [Next]_vars PROVE PushInv'
    OBVIOUS
  <2>1. ASSUME NEW q \in Builds PROVE Pushed(q)'
    <3>1. CASE RefMoves \/ UNCHANGED vars
      BY <3>1, PushedKept DEF RefMoves, vars
    <3>2. ASSUME NEW b \in Builds, Step(b) PROVE Pushed(q)'
      BY <3>2, OthersKept, PushedKept, PushedStep
    <3> QED BY <3>1, <3>2 DEF Next, Step
  <2> QED BY <2>1, ShaTagStep DEF PushInv
<1> QED BY <1>1, <1>2, RequestInvariant, PTL DEF Spec

\* A build that succeeds has put all its tags in all its repos, in registries
\* where the tag check of the next build can find them.
THEOREM SuccessPushed == Spec => []SuccessIsThere
<1>1. PushInv => SuccessIsThere
  BY DEF PushInv, Pushed, SuccessIsThere
<1> QED BY <1>1, PushInvariant, PTL

\* An image tagged with a commit comes from a build that resolved the ref to
\* that commit, and shows that commit unless the ref moved, forward or back,
\* between that build's GetCommitSHA and its Fetch.
THEOREM ShaTagOfBuild == Spec => []ShaTagUnlessMoved
<1>1. PushInv => ShaTagUnlessMoved
  BY DEF PushInv
<1> QED BY <1>1, PushInvariant, PTL
==============================================================================
