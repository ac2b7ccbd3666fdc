SPECIFICATION FairSpec
CONSTANTS
  TicksPerSecond = 1
  Drills = {d1}
  Workers = {w1}
  NoWorker = NoWorker
  NoDrill = NoDrill
  QueueCap = 1
  Inputs = {"full"}
  FaultSets = {{"deadline"}}
PROPERTY
  TakenDrillEnds
