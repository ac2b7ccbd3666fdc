SPECIFICATION MCSpec
CONSTANTS
  Drills = {d1, d2, d3}
  Runnable = {d1, d2}
  Streams = {s1, s2}
  Watching = s1
  Followed = d1
  ChanCap = 2
  MaxEvents = 3
  MaxLimit = 2
  DefaultLimit = 1
  Limits = {0, 3}
  MaxClock = 3
CHECK_DEADLOCK FALSE
INVARIANTS
  NoPanic
  InOrder
  NothingMissed
  NotFoundMeansOld
  NoRowSkipped
PROPERTY
  ClosedStreamEnds
