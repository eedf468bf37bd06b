\* One slot: the second panel's execution waits for it when the poller stops.
SPECIFICATION FairSpec
CONSTANTS
  src = src
  Panels = {fast, slow}
  CadenceOf <- MCCadence
  PanelSource <- MCSource
  Viewers = {v1}
  Retries = {retry}
  Threshold = 1
  Sources = {src}
  Gates = {g1, g2}
  NoGate = NoGate
  Capacity = 1
CHECK_DEADLOCK FALSE
PROPERTY
  StopMeansNoNewQueries
