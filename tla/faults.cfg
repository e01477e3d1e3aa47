SPECIFICATION Spec
CONSTANTS
  Server = srv
  Pods = {p1, p2}
  Conns = {srv, p1, p2}
  Clients = {c1}
  PodsOverlap = FALSE
  MaxFaults = 1
  MaxDisruptions = 0
  MaxCrashes = 0
SYMMETRY PodSymmetry
INVARIANTS TypeOK AtMostOneAttempt OutcomeHonest CancelledOnlyIfRequested MarkedWhenDone
PROPERTIES RunsOnce KeepsContract
CHECK_DEADLOCK FALSE
