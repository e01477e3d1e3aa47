SPECIFICATION FairSpec
CONSTANTS
  Replicas = {r1, r2}
  NumBuilds = 2
  RootArgCounts = {4, 11, 12}
  RepoLengths = {20, 25}
  CommonPrefix = 3
  MaxApiErrors = 2
INVARIANTS TypeOK JobArgsFromOverlap
PROPERTIES CleanupSparesBuilds OldJobsDeleted
CHECK_DEADLOCK FALSE
