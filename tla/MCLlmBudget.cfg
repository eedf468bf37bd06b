\* One day, no cap, and no call uses more than it reserved.
SPECIFICATION Spec
CONSTANTS
  c1 = c1
  c2 = c2
  c3 = c3
  w1 = w1
  w2 = w2
  u1 = u1
  u2 = u2
  Allowance = 0
  Tokens = 3
  Calls <- MCCalls
  Workspaces = {w1, w2}
  Users = {u1, u2}
  WorkspaceOf <- MCOneWorkspace
  UserOf <- MCOneUser
  PerMinute <- MCPerMinute
  Budget <- MCBudget
  MaxInFlight = 0
  Reserve = 2
  MaxUsage = 2
  Turns = {}
  MaxRequests = 2
  Deadline = 1
  Slack = 1
  Minute = 1
  Day = 4
  MaxClock = 1
CHECK_DEADLOCK FALSE
INVARIANT
  SpendingBounded
