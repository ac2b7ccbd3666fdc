SPECIFICATION Spec
CONSTANT FaultSets = {{"command", "lost", "boot", "cancel"},
                      {"command", "remove", "lost", "lostNetwork", "boot", "cancel"}}
INVARIANTS
  ReadyMeansServing
  RestoredMeansWhole
  FailedCreateCleansUp
  DestroyedMeansEmpty
PROPERTIES
  DestroySucceeds
  CreateReturns
