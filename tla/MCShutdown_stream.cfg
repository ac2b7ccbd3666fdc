SPECIFICATION FairSpec
CONSTANTS
  Workers = {w1}
  Requests = {}
  Streams = {s1}
  StartFails = FALSE
  ListenFails = FALSE
CHECK_DEADLOCK FALSE
INVARIANT
  ShutdownStopsWorkers
