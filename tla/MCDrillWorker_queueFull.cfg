SPECIFICATION FairSpec
CONSTANTS
  TicksPerSecond = 1
  Drills = {d1, d2}
  Workers = {w1}
  NoWorker = NoWorker
  NoDrill = NoDrill
  QueueCap = 1
  Inputs = {"full"}
  FaultSets = {{}}
PROPERTY
  AcceptedDrillEnds
