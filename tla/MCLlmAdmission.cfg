\* Time for a reservation to expire under a turn of several requests, and for the
\* day to change under a call; a turn that is repaired may use more than it
\* reserved. Deadlock is not checked: every call ends and the clock stops.
SPECIFICATION Spec
CONSTANTS
  c1 = c1
  c2 = c2
  c3 = c3
  w1 = w1
  w2 = w2
  u1 = u1
  u2 = u2
  Allowance = 1
  Tokens = 1
  Calls <- MCCalls
  Workspaces = {w1, w2}
  Users = {u1, u2}
  WorkspaceOf <- MCWorkspaceOf
  UserOf <- MCUserOf
  PerMinute <- MCPerMinute
  Budget <- MCBudget
  MaxInFlight = 2
  Reserve = 1
  MaxUsage = 1
  Turns = {c1, c2}
  MaxRequests = 3
  Deadline = 1
  Slack = 1
  Minute = 1
  Day = 2
  MaxClock = 3
SYMMETRY SameCaller
CHECK_DEADLOCK FALSE
INVARIANTS
  ReservedBounded
  ReservedForItsTime
PROPERTY
  BusyMeansBusy
