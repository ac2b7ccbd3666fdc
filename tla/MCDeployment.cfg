SPECIFICATION DeploymentSpec
CONSTANTS
  Workers = {w1}
  Requests = {r1}
  Streams = {s1}
  StartFails = TRUE
  ListenFails = TRUE
  Instances = {i1, i2}
  S3Instances = {i1, i2}
  Self = i1
  None = None
  MaxFiles = 2
  MaxRestarts = 1
CHECK_DEADLOCK FALSE
INVARIANTS
  CleanReturn
  SchemaInOrder
  SomeoneComesUp
  OneDemoPolicy
PROPERTY
  ShutdownReturns
