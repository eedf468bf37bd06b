\* A chat turn of two requests and a repair, and the gate of another call.
SPECIFICATION Spec
CONSTANTS
  c1 = c1
  c2 = c2
  c3 = c3
  w1 = w1
  w2 = w2
  u1 = u1
  u2 = u2
  Allowance = 0
  Tokens = 0
  Calls <- MCCalls
  Workspaces = {w1, w2}
  Users = {u1, u2}
  WorkspaceOf <- MCWorkspaceOf
  UserOf <- MCUserOf
  PerMinute <- MCPerMinute
  Budget <- MCBudget
  MaxInFlight = 1
  Reserve = 2
  MaxUsage = 0
  Turns = {c1}
  MaxRequests = 3
  Deadline = 1
  Slack = 1
  Minute = 1
  Day = 4
  MaxClock = 2
CHECK_DEADLOCK FALSE
INVARIANT
  RunningIsReserved
