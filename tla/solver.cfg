SPECIFICATION FairSpec
CONSTANTS
  Builds = {b1, b2}
  CacheTypes = {"s3", "inline"}
INVARIANTS TypeOK NothingLeftBehind DirectoriesKept ResultIsTheSolves CacheFromSuccess
PROPERTY CancelEndsBuild
CHECK_DEADLOCK FALSE
