\* Four executions contend for two slots, so two can wait at once and a
\* timeout can leave from either end of the queue; three gate objects, so a
\* source's second gate need not be its first.
SPECIFICATION FairSlotsSpec
CONSTANTS
  c1 = c1
  c2 = c2
  c3 = c3
  c4 = c4
  c5 = c5
  s1 = s1
  s2 = s2
  Sources = {s1, s2}
  Clients <- MCClients
  SourceOf <- MCSourceOf
  Gates = {g1, g2, g3}
  NoGate = NoGate
  Capacity = 2
INVARIANTS
  
  CapPerSource
  NoLostWakeup
  OneGatePerSource
  NoIdleGate
PROPERTIES
  FifoGrants
  KeepsPromise
  WaiterServed
