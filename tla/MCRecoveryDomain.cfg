SPECIFICATION Spec
CONSTANTS
  TicksPerSecond = 2
  MaxInstant = 9
  MaxTarget = 2
  MaxResults = 3
  maxFileBytes = 2
CHECK_DEADLOCK FALSE
INVARIANTS
  ObjectivesExact
  VerifiedMeansAllPassed
  EngineTruthful
PROPERTIES
  OutcomesNeverUpgrade
