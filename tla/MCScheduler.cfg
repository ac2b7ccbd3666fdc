SPECIFICATION FairSpec
CONSTANTS
  i1 = i1
  i2 = i2
  a1 = a1
  a2 = a2
  b1 = b1
  b2 = b2
  j1 = j1
  j2 = j2
  Instances = {i1, i2}
  Conns = {a1, a2, b1, b2}
  Owner <- TwoPools
  Jobs = {j1, j2}
  Due <- EarlyAndLate
  LeaseTime = 2
  MaxTime = 6
  MaxHeld = 2
CHECK_DEADLOCK FALSE
INVARIANT
  OneLeaser
PROPERTIES
  LeaseRespected
  DueJobLeased
