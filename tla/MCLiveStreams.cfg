\* One poller at most, so that the cap bites.  Deadlock is not checked: a
\* process whose streams are closed is done.
SPECIFICATION Spec
CONSTANTS
  s1 = s1
  s2 = s2
  s3 = s3
  k1 = k1
  k2 = k2
  Streams <- MCStreams
  Keys = {k1, k2}
  Selections <- MCSelections
  MaxPollers = 1
  SlowTicks = 2
  LastVersion = 2
CHECK_DEADLOCK FALSE
INVARIANTS
  
  NothingLeft
  PollersAccounted
  SharesItsPoller
PROPERTIES
  OthersCarryOn
  DeletedStopsRunning
