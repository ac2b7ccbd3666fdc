SPECIFICATION Spec
CONSTANTS
  TicksPerSecond = 1
  Drills = {d1, d2}
  Workers = {w1, w2}
  NoWorker = NoWorker
  NoDrill = NoDrill
  QueueCap = 1
  Inputs = {"corrupt", "unchecked"}
  FaultSets = {{"db", "shutdown"}, {"lostReply", "docker", "storage"}, {"restart", "foreign"}}
SYMMETRY Symmetry
INVARIANTS
  TypeOK
  OnePlace
  VerdictEarned
  SuccessLeavesNoSandbox
  SuccessAnnouncedLast
  EvidenceStored
  NothingLeftBehind
  DestroyedMeansGone
PROPERTY
  RefinesLifecycle
