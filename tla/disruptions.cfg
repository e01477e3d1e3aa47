SPECIFICATION WriterFairSpec
CONSTANTS
  Server = srv
  Pods = {p1, p2}
  Conns = {srv, p1, p2}
  Clients = {}
  PodsOverlap = FALSE
  MaxFaults = 0
  MaxDisruptions = 1
  MaxCrashes = 0
INVARIANTS  StrandedOnlyByTimeout 
 
CHECK_DEADLOCK FALSE
