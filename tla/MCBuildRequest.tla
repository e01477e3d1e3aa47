--------------------------- MODULE MCBuildRequest ----------------------------
(***************************************************************************)
(* Instance of BuildRequest.  Requests differ in their images, or in what  *)
(* they ask of the server; the latter come alone.                          *)
(***************************************************************************)
EXTENDS BuildRequest

CONSTANTS ECR, Quay, GCR, Hub, Other

MCHostOf ==
  (ECR :> "ecr") @@ (Quay :> "quay.io") @@ (GCR :> "pkg.dev")
    @@ (Hub :> "docker.io") @@ (Other :> "ghcr.io")

NoResources == [f \in Resources |-> NotSet]

ImageRequests ==
  [key : {"full"}, resources : {NoResources},
   repos : {<<ECR>>, <<ECR, GCR>>, <<Quay, Hub>>, <<Other>>},
   tags : {{}, {11}}, shaTag : BOOLEAN, skip : BOOLEAN]

\* The limits of the flags and of the Job, in cores and G, and values next to them
ServerRequests ==
  [key : {"none", "read-only", "full"},
   resources : [cpuReq : {NotSet, Invalid, -500, 1500, 2000, 2001},
                memReq : {NotSet, 8000, 16000, 16001},
                cpuLim : {NotSet, 0, 1500, 4000, 4001},
                memLim : {NotSet, 8000, 24000, 64000, 65000}],
   repos : {<<>>, <<ECR>>}, tags : {{}}, shaTag : {FALSE}, skip : {FALSE}]

MCRequests == ImageRequests \union ServerRequests
MCMaxResources == [cpuReq |-> 2000, memReq |-> 16000, cpuLim |-> 4000, memLim |-> 64000]
MCDefaultResources == [cpuReq |-> 2000, memReq |-> 24000, cpuLim |-> 3000, memLim |-> 24000]

\* Either all builds have one of the former, or one has one of the latter.
Rejected == CHOOSE r \in ServerRequests : r.key = "none" /\ r.repos = <<>>
Assignments ==
  [Builds -> ImageRequests]
    \union UNION {{[b \in Builds |-> IF b = c THEN r ELSE Rejected] : r \in ServerRequests}
                  : c \in Builds}

MCInit == req \in Assignments /\ Init
MCSpec == MCInit /\ [][Next]_vars

BuildSymmetry == Permutations(Builds)
==============================================================================
