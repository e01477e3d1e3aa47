SPECIFICATION Spec
CONSTANTS
  Builds = {b1, b2}
  Calls = {m1}
  PoolConns = {k1, k2}
  NoOne = NoOne
  MaxEvents = 1
SYMMETRY Symmetric
INVARIANT StreamsItsBuild
CHECK_DEADLOCK FALSE
