\* No rate limit and no budget: only the cap.
SPECIFICATION Spec
CONSTANTS
  c1 = c1
  c2 = c2
  c3 = c3
  w1 = w1
  w2 = w2
  u1 = u1
  u2 = u2
  Allowance = 0
  Tokens = 0
  Calls <- MCCalls
  Workspaces = {w1, w2}
  Users = {u1, u2}
  WorkspaceOf <- MCWorkspaceOf
  UserOf <- MCUserOf
  PerMinute <- MCPerMinute
  Budget <- MCBudget
  MaxInFlight = 2
  Reserve = 2
  MaxUsage = 0
  Turns = {}
  MaxRequests = 2
  Deadline = 1
  Slack = 1
  Minute = 1
  Day = 4
  MaxClock = 0
CHECK_DEADLOCK FALSE
INVARIANT
  InFlightCapped
