SPECIFICATION Spec
CONSTANTS
  Replicas = {r1}
  NumBuilds = 2
  RootArgCounts = {11}
  RepoLengths = {20}
  CommonPrefix = 3
  MaxApiErrors = 0
INVARIANT JobRunsItsBuild
CHECK_DEADLOCK FALSE
