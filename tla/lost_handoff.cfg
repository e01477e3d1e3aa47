SPECIFICATION Spec
CONSTANTS
  Server = srv
  Pods = {p1}
  Conns = {srv, p1}
  Clients = {}
  PodsOverlap = FALSE
  MaxFaults = 0
  MaxDisruptions = 1
  MaxCrashes = 0
INVARIANT HandoffMeansRunning
CHECK_DEADLOCK FALSE
