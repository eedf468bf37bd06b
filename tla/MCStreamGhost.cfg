\* SSE_SLOW_TICKS=1: a stream may be dropped by the tick of its own catch-up.
SPECIFICATION Spec
CONSTANTS
  s1 = s1
  s2 = s2
  s3 = s3
  k1 = k1
  k2 = k2
  Streams <- MCStreams
  Keys = {k1, k2}
  Selections <- MCSelections
  MaxPollers = 1
  SlowTicks = 1
  LastVersion = 2
CHECK_DEADLOCK FALSE
INVARIANT
  NothingLeft
