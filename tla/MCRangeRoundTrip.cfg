CONSTANTS
  Panels = {p}
  Ranges = {2, 3}
  Gaps = {}
  Points = 2
  Lag = 0
  MaxTime = 2
  LastVersion = 1
  InFlight = 1
  Losses = 0
  Changes = 2
  None = None
  Error = Error
SPECIFICATION Spec
INVARIANTS HeldIsFresh
CHECK_DEADLOCK FALSE
