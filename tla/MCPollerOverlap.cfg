\* Two slots, so that two executions can run at once, and a third panel whose
\* execution and retry can wait for them.
SPECIFICATION Spec
CONSTANTS
  src = src
  Panels = {fast, slow, slower}
  CadenceOf <- MCCadence
  PanelSource <- MCSource
  Viewers = {v1}
  Retries = {retry}
  Threshold = 1
  Sources = {src}
  Gates = {g1, g2}
  NoGate = NoGate
  Capacity = 2
CHECK_DEADLOCK FALSE
INVARIANT
  NoOverlap
