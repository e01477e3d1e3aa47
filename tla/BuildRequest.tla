---------------------------- MODULE BuildRequest -----------------------------
(***************************************************************************)
(* What becomes of build requests: StartBuild checks the API key and the   *)
(* resources, the Job gets them, and the run resolves the ref, looks       *)
(* whether the tags exist already, fetches the ref and pushes the image.   *)
(* Meanwhile the ref moves and other builds push to the same registries.   *)
(*                                                                         *)
(* Every call to GitHub, a registry or Kubernetes may fail, for reasons of *)
(* its own; quantities are in thousandths.                                 *)
(***************************************************************************)
EXTENDS Integers, Sequences, SequencesExt

CONSTANTS Builds,
          Requests,    \* the requests that clients may send
          HostOf,      \* per image repo, the kind of registry that has it
          MaxCommits,  \* bound on the commits that the ref may name
          MaxResources, DefaultResources, \* --max-... flags, and the Job's own
          NotSet, Invalid \* in place of a quantity: left empty, or no quantity

Resources == {"cpuReq", "memReq", "cpuLim", "memLim"}
NoImage == 0

Repos == DOMAIN HostOf
Commits == 1..MaxCommits

\* A tag is a number: a commit stands for its SHA, the others are names.
Tags == Commits \union UNION {r.tags : r \in Requests}

ASSUME RequestAssumption ==
  /\ MaxCommits \in Nat \ {0}
  /\ \A r \in Requests : r.repos \in Seq(Repos) /\ r.tags \subseteq Nat
                           /\ r.tags \intersect 0..MaxCommits = {}
  /\ NotSet \notin Int /\ Invalid \notin Int /\ NotSet # Invalid
  /\ \A r \in Requests, f \in Resources : r.resources[f] \in Int \union {NotSet, Invalid}
  /\ \A f \in Resources : MaxResources[f] \in Nat /\ DefaultResources[f] \in Nat

VARIABLES ref,       \* the commit that the ref names
          moved,     \* the builds that the ref moved under: after they
                     \* resolved it and before they fetched it
          req, pc,   \* per build: its request, how far it has come
          sha,       \* per build, the commit it resolved the ref to
          source,    \* per build, the commit whose archive it fetched
          at, todo, missing, \* per build, the tag check: the repo, the tags to
                             \* check there, the tags missing there
          unpushed,  \* per build, the names it has still to push
          registry   \* per repo and tag, the commit of its image or NoImage

checkVars == <<at, todo, missing>>
vars == <<ref, moved, req, pc, sha, source, checkVars, unpushed, registry>>

Init ==
  /\ ref = 1
  /\ moved = {}
  /\ req \in [Builds -> Requests]
  /\ pc = [b \in Builds |-> "request"]
  /\ sha = [b \in Builds |-> 0]
  /\ source = [b \in Builds |-> 0]
  /\ at = [b \in Builds |-> 1]
  /\ todo = [b \in Builds |-> {}]
  /\ missing = [b \in Builds |-> {}]
  /\ unpushed = [b \in Builds |-> {}]
  /\ registry = [n \in Repos \X Tags |-> NoImage]

Goto(b, l) == pc' = [pc EXCEPT ![b] = l]

\* (External.) Somebody pushes a commit, or makes the ref name an earlier one
\* or one of another branch: a ref need not go forward.
RefMoves ==
  /\ ref' \in Commits \ {ref}
  /\ moved' = moved \union {b \in Builds : pc[b] \in {"check", "fetch"}}
  /\ UNCHANGED <<req, pc, sha, source, checkVars, unpushed, registry>>

-----------------------------------------------------------------------------
(* The server *)

\* the read_only options of the methods
ReadOnly(method) == method \notin {"StartBuild", "CancelBuild"}

\* apiKeyAuth: exactly one key, of the right form, that is in the database
apiKeyAuth(method, key) ==
  key \in {"read-only", "full"} /\ (key = "read-only" => ReadOnly(method))

\* Quantity.Value rounds to an integer, away from zero.
Value(q) == IF q >= 0 THEN (q + 999) \div 1000 ELSE -((999 - q) \div 1000)

\* Mutation: the quantities are cut off.
WithinLimits_Floor(resources) ==
  \A f \in Resources :
    resources[f] # NotSet =>
      resources[f] # Invalid /\ resources[f] \div 1000 <= MaxResources[f] \div 1000

WithinLimits(resources) ==
  \A f \in Resources :
    resources[f] # NotSet =>
      resources[f] # Invalid /\ Value(resources[f]) <= Value(MaxResources[f])

\* StartBuild; its other checks are about the form of the request.
StartBuild(b) ==
  /\ pc[b] = "request"
  /\ \/ /\ apiKeyAuth("StartBuild", req[b].key)
        /\ req[b].repos # <<>> /\ WithinLimits(req[b].resources)
        /\ Goto(b, "accepted")
     \/ Goto(b, "rejected")
  /\ UNCHANGED <<ref, moved, req, sha, source, checkVars, unpushed, registry>>

\* Mutation: the Job's own values fill in for each one that is not set.
JobResources_Merged(resources) ==
  [f \in Resources |-> IF resources[f] = NotSet THEN DefaultResources[f] ELSE resources[f]]

\* resources() and FuranJobFunc: the requests as a whole replace those of the
\* Job if one of them is set, and so do the limits.
JobResources(resources) ==
  [f \in Resources |->
     LET list == IF f \in {"cpuReq", "memReq"} THEN {"cpuReq", "memReq"} ELSE {"cpuLim", "memLim"}
     IN IF \A g \in list : resources[g] = NotSet THEN DefaultResources[f] ELSE resources[f]]

\* (External.) Kubernetes refuses a negative quantity and a request above the
\* limit; a request that is not set is the limit.
RequestAndLimit == {<<"cpuReq", "cpuLim">>, <<"memReq", "memLim">>}
Admits(resources) ==
  /\ \A f \in Resources : resources[f] # NotSet => resources[f] >= 0
  /\ \A p \in RequestAndLimit :
       resources[p[1]] # NotSet /\ resources[p[2]] # NotSet =>
         resources[p[1]] <= resources[p[2]]

CreateJob(b) ==
  /\ pc[b] = "accepted"
  /\ \/ Admits(JobResources(req[b].resources)) /\ Goto(b, "sha")
     \/ Goto(b, "no job")
  /\ UNCHANGED <<ref, moved, req, sha, source, checkVars, unpushed, registry>>

-----------------------------------------------------------------------------
(* The run *)

Fail(b, from) ==
  /\ pc[b] = from
  /\ Goto(b, "failed")
  /\ UNCHANGED <<ref, moved, req, sha, source, checkVars, unpushed, registry>>

\* Manager.Run and genSolveOpt add the commit to the tags of the request.
TagsOf(b, commit) == req[b].tags \union (IF req[b].shaTag THEN {commit} ELSE {})

imageNames(repos, tags) == ToSet(repos) \X tags

GetCommitSHA(b) ==
  /\ pc[b] = "sha"
  /\ sha' = [sha EXCEPT ![b] = ref]
  /\ IF req[b].skip
       THEN Goto(b, "check") /\ todo' = [todo EXCEPT ![b] = TagsOf(b, ref)]
       ELSE Goto(b, "fetch") /\ UNCHANGED todo
  /\ UNCHANGED <<ref, moved, req, source, at, missing, unpushed, registry>>

IsECR(host) == host = "ecr"
IsQuay(host) == host = "quay.io"
IsGCR(host) == host = "pkg.dev"

\* Checker.AllTagsExist: other registries are an error.
CanCheck(repo) == IsECR(HostOf[repo]) \/ IsQuay(HostOf[repo]) \/ IsGCR(HostOf[repo])

\* AllTagsExist of the registry asks for one tag after the other.
RepoOf(b) == req[b].repos[at[b]]
There(repo, t) == registry[<<repo, t>>] # NoImage

Asked(b, t, found) ==
  /\ todo' = [todo EXCEPT ![b] = @ \ {t}]
  /\ missing' = [missing EXCEPT ![b] = (@ \union {t}) \ found]
  /\ UNCHANGED <<ref, moved, req, pc, sha, source, at, unpushed, registry>>

\* ECR describes the image of the tag: its other tags are there as well.
\* Images of one commit may or may not be the same.
CheckECR(b) ==
  /\ pc[b] = "check" /\ IsECR(HostOf[RepoOf(b)])
  /\ \E t \in todo[b] :
       \/ ~There(RepoOf(b), t) /\ Asked(b, t, {})
       \/ /\ There(RepoOf(b), t)
          /\ \E others \in SUBSET {u \in Tags :
                               registry[<<RepoOf(b), u>>] = registry[<<RepoOf(b), t>>]} :
               Asked(b, t, {t} \union others)

CheckQuay(b) ==
  /\ pc[b] = "check" /\ IsQuay(HostOf[RepoOf(b)])
  /\ \E t \in todo[b] : Asked(b, t, IF There(RepoOf(b), t) THEN {t} ELSE {})

\* The list of all tags is asked for once per tag.
CheckGCR(b) ==
  /\ pc[b] = "check" /\ IsGCR(HostOf[RepoOf(b)])
  /\ \E t \in todo[b] : Asked(b, t, {t} \intersect {u \in Tags : There(RepoOf(b), u)})

\* Mutation: the loop starts with what the last repo said.
RepoChecked_Last(b) ==
  /\ pc[b] = "check" /\ todo[b] = {} /\ CanCheck(RepoOf(b))
  /\ \/ /\ at[b] < Len(req[b].repos)
        /\ at' = [at EXCEPT ![b] = @ + 1]
        /\ todo' = [todo EXCEPT ![b] = TagsOf(b, sha[b])]
        /\ missing' = [missing EXCEPT ![b] = {}]
        /\ UNCHANGED pc
     \/ /\ at[b] = Len(req[b].repos)
        /\ Goto(b, IF missing[b] = {} THEN "skipped" ELSE "fetch") /\ UNCHANGED checkVars
  /\ UNCHANGED <<ref, moved, req, sha, source, unpushed, registry>>

\* The build goes on at the first repo that lacks a tag, and is skipped if
\* none does.
RepoChecked(b) ==
  /\ pc[b] = "check" /\ todo[b] = {} /\ CanCheck(RepoOf(b))
  /\ \/ missing[b] # {} /\ Goto(b, "fetch") /\ UNCHANGED checkVars
     \/ /\ missing[b] = {} /\ at[b] < Len(req[b].repos)
        /\ at' = [at EXCEPT ![b] = @ + 1]
        /\ todo' = [todo EXCEPT ![b] = TagsOf(b, sha[b])]
        /\ UNCHANGED <<pc, missing>>
     \/ /\ missing[b] = {} /\ at[b] = Len(req[b].repos)
        /\ Goto(b, "skipped") /\ UNCHANGED checkVars
  /\ UNCHANGED <<ref, moved, req, sha, source, unpushed, registry>>

\* Mutation: an archive that another build has fetched is used again.
Fetch_Reused(b) ==
  /\ pc[b] = "fetch"
  /\ \E c \in Builds :
       source' = [source EXCEPT ![b] = IF source[c] # 0 THEN source[c] ELSE ref]
  /\ unpushed' = [unpushed EXCEPT ![b] = imageNames(req[b].repos, TagsOf(b, sha[b]))]
  /\ Goto(b, "push")
  /\ UNCHANGED <<ref, moved, req, sha, checkVars, registry>>

\* Fetch gets the archive of the ref, not of the commit resolved before.
Fetch(b) ==
  /\ pc[b] = "fetch"
  /\ source' = [source EXCEPT ![b] = ref]
  /\ unpushed' = [unpushed EXCEPT ![b] = imageNames(req[b].repos, TagsOf(b, sha[b]))]
  /\ Goto(b, "push")
  /\ UNCHANGED <<ref, moved, req, sha, checkVars, registry>>

\* Mutation: Docker Hub gets the credentials of quay.io.
Credentials_Hub(host) ==
  IF IsECR(host) \/ IsQuay(host) \/ IsGCR(host) \/ host = "docker.io" THEN "token" ELSE "error"

\* Provider.Credentials: Docker Hub is for pulls only.
Credentials(host) ==
  CASE IsECR(host) \/ IsQuay(host) \/ IsGCR(host) -> "token"
    [] host = "docker.io" -> "anonymous"
    [] OTHER -> "error"

\* (External.) buildkitd pushes one name after the other.
Push(b) ==
  /\ pc[b] = "push"
  /\ \E n \in unpushed[b] :
       /\ Credentials(HostOf[n[1]]) = "token"
       /\ registry' = [registry EXCEPT ![n] = source[b]]
       /\ unpushed' = [unpushed EXCEPT ![b] = @ \ {n}]
  /\ UNCHANGED <<ref, moved, req, pc, sha, source, checkVars>>

Succeed(b) ==
  /\ pc[b] = "push" /\ unpushed[b] = {}
  /\ Goto(b, "success")
  /\ UNCHANGED <<ref, moved, req, sha, source, checkVars, unpushed, registry>>

Next ==
  \/ RefMoves
  \/ \E b \in Builds :
       \/ StartBuild(b) \/ CreateJob(b) \/ GetCommitSHA(b)
       \/ CheckECR(b) \/ CheckQuay(b) \/ CheckGCR(b) \/ RepoChecked(b)
       \/ Fetch(b) \/ Push(b) \/ Succeed(b)
       \/ \E l \in {"sha", "check", "fetch", "push"} : Fail(b, l)

Spec == Init /\ [][Next]_vars

-----------------------------------------------------------------------------
TypeOK ==
  /\ ref \in Commits /\ moved \subseteq Builds
  /\ req \in [Builds -> Requests]
  /\ pc \in [Builds -> {"request", "accepted", "rejected", "no job", "sha", "check", "fetch",
                        "push", "success", "skipped", "failed"}]
  /\ sha \in [Builds -> Commits \union {0}] /\ source \in [Builds -> Commits \union {0}]
  /\ at \in [Builds -> Nat \ {0}]
  /\ todo \in [Builds -> SUBSET Tags] /\ missing \in [Builds -> SUBSET Tags]
  /\ unpushed \in [Builds -> SUBSET (Repos \X Tags)]
  /\ registry \in [Repos \X Tags -> Commits \union {NoImage}]

Accepted(b) == pc[b] \notin {"request", "rejected"}

\* StartBuild accepts no request of a client without full rights and none
\* that asks for more than a maximum, although it compares rounded values:
\* the maxima are whole.
AcceptedIsAllowed ==
  \A b \in Builds : Accepted(b) =>
    /\ req[b].key = "full"
    /\ \A f \in Resources :
         LET q == req[b].resources[f]
         IN q # NotSet => q # Invalid /\ q <= MaxResources[f]

\* A Job that the server accepted resources for is refused by Kubernetes only
\* if the client contradicts itself, or sets limits and leaves the requests to
\* the Job: the overriding by whole lists (FuranJobFunc) makes no other clash.
AdmittedUnlessLimitOnly ==
  \A b \in Builds :
    LET r == req[b].resources IN
    /\ Accepted(b)
    /\ \/ \E f \in {"cpuReq", "memReq"} : r[f] # NotSet
       \/ \A f \in {"cpuLim", "memLim"} : r[f] = NotSet
    /\ Admits(r)
    => Admits(JobResources(r))

Names(b) == imageNames(req[b].repos, TagsOf(b, sha[b]))

\* A build is skipped only if all its tags are in all its repos, although they
\* are looked up one by one while others push.
SkippedIsThere ==
  \A b \in Builds : pc[b] = "skipped" => \A n \in Names(b) : registry[n] # NoImage

\* A build that succeeds has put all its tags in all its repos, and in
\* registries that the tag check knows: what pkg/auth can push to, pkg/tagcheck
\* can look up, so that the next build of that commit can be skipped.
SuccessIsThere ==
  \A b \in Builds : pc[b] = "success" =>
    \A n \in Names(b) : registry[n] # NoImage /\ CanCheck(n[1])

\* An image that is tagged with a commit was pushed by a build that resolved
\* the ref to that commit.  It shows another commit only if the ref moved under
\* that very build, between GetCommitSHA and Fetch: no other build, and no move
\* before or after, puts a wrong commit under the tag.
ShaTagUnlessMoved ==
  \A r \in Repos, c \in Commits : registry[<<r, c>>] # NoImage =>
    \E b \in Builds :
      /\ sha[b] = c /\ source[b] = registry[<<r, c>>]
      /\ source[b] # c => b \in moved

-----------------------------------------------------------------------------
(* Inductive strengthenings *)

\* Why the tag of a commit shows it unless the ref moved: a build that fetches
\* the ref has resolved it, and nothing but a move comes between.
Resolved(b) ==
  /\ pc[b] \in {"check", "fetch", "push", "success", "skipped"} => sha[b] \in Commits
  /\ pc[b] \in {"check", "fetch"} => sha[b] = ref \/ b \in moved
  /\ pc[b] \in {"push", "success"} =>
       source[b] \in Commits /\ (source[b] = sha[b] \/ b \in moved)
  /\ pc[b] \notin {"push", "success", "failed"} => source[b] = 0
ResolvedInv == \A b \in Builds : Resolved(b)

\* Why SkippedIsThere holds: the tags found so far stay where they were found.
Checked(b) ==
  /\ pc[b] \in {"accepted", "sha", "check"} => at[b] \in 1..Len(req[b].repos)
  /\ pc[b] \in {"request", "accepted", "sha"} => at[b] = 1
  /\ pc[b] = "check" =>
       /\ \A i \in 1..(at[b] - 1), t \in TagsOf(b, sha[b]) : There(req[b].repos[i], t)
       /\ \A t \in TagsOf(b, sha[b]) \ (todo[b] \union missing[b]) : There(RepoOf(b), t)
  /\ pc[b] = "skipped" => \A n \in Names(b) : registry[n] # NoImage
CheckInv == \A b \in Builds : Checked(b)

\* Why SuccessIsThere and ShaTagUnlessMoved hold: a build has pushed what it has
\* no longer to push, and pushes nothing but its names.
Pushed(b) ==
  /\ pc[b] \in {"push", "success"} =>
       /\ unpushed[b] \subseteq Names(b)
       /\ \A n \in Names(b) \ unpushed[b] : registry[n] # NoImage /\ CanCheck(n[1])
  /\ pc[b] = "success" => unpushed[b] = {}
PushInv == (\A b \in Builds : Pushed(b)) /\ ShaTagUnlessMoved
==============================================================================
