SPECIFICATION Spec
CONSTANTS
  None = None
  Users = {u1, u2}
  Subjects = {u1}
  Requests = {r1, r2}
  MaxTime = 1
  MaxSessions = 2
  MaxRequests = 4
  MaxFailures = 1
  LockTTL = 1
  CookieTTL = 0
  IdleTTL = 1
  AbsoluteTTL = 1
SYMMETRY Symmetry
INVARIANT TempPasswordOpensNothing
CHECK_DEADLOCK FALSE
