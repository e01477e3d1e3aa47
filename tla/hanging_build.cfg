SPECIFICATION HangingSpec
CONSTANTS
  Server = srv
  Pods = {p1}
  Conns = {srv, p1}
  Clients = {c1}
  PodsOverlap = FALSE
  MaxFaults = 0
  MaxDisruptions = 0
  MaxCrashes = 1
PROPERTIES HandoffReturns CancelReachesRunner
CHECK_DEADLOCK FALSE
