SPECIFICATION FairSpec
CONSTANTS
  Builds = {b1}
  Calls = {m1}
  PoolConns = {k1, k2}
  NoOne = NoOne
  MaxEvents = 2
INVARIANTS TypeOK NoEventLost
PROPERTIES CallFreesPool CompletionEndsCall
CHECK_DEADLOCK FALSE
