CONSTANTS
  Panels = {p}
  Ranges = {2}
  Gaps = {2}
  Points = 2
  Lag = 1
  MaxTime = 4
  LastVersion = 2
  InFlight = 2
  Losses = 1
  Changes = 1
  None = None
  Error = Error
SPECIFICATION Spec
INVARIANTS HeldIsFresh AwayIsStale
PROPERTIES CatchesUp
CHECK_DEADLOCK FALSE
