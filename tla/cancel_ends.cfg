SPECIFICATION FairSpec
CONSTANTS
  Server = srv
  Pods = {p1}
  Conns = {srv, p1}
  Clients = {c1}
  PodsOverlap = FALSE
  MaxFaults = 0
  MaxDisruptions = 0
  MaxCrashes = 0
PROPERTY CancelRequestEnds
CHECK_DEADLOCK FALSE
