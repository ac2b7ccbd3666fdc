SPECIFICATION Spec
CONSTANTS
  Keys = {k1}
  UnsafeKeys = {u1}
  Puts = {p1, p2}
  Readers = {r1}
  None = None
  maxBytes = 2
CHECK_DEADLOCK FALSE
INVARIANT
  NoTempLeft
PROPERTY
  RefinesObjectStore
