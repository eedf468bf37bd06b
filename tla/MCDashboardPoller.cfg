\* One slot, two viewers, a threshold of two failures.  Deadlock is not
\* checked: a stopped poller has nothing left to do.
SPECIFICATION FairSpec
CONSTANTS
  src = src
  Panels = {fast, slow}
  CadenceOf <- MCCadence
  PanelSource <- MCSource
  Viewers = {v1, v2}
  Retries = {retry}
  Threshold = 2
  Sources = {src}
  Gates = {g1, g2}
  NoGate = NoGate
  Capacity = 1
CHECK_DEADLOCK FALSE
INVARIANTS
  NeverSilent
  DegradedIsTruthful
  NoSlotLeaked
PROPERTIES
  NextCycleComes
  StoppedPollerDrains
