SPECIFICATION FairSpec
CONSTANTS
  TicksPerSecond = 1
  Drills = {d1, d2}
  Workers = {w1}
  NoWorker = NoWorker
  NoDrill = NoDrill
  QueueCap = 2
  Inputs = {"limited"}
  FaultSets = {{"docker", "storage"}, {"deadline", "shutdown", "client"}}
PROPERTIES
  AcceptedDrillEnds
  SandboxReclaimed
