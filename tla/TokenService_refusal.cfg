SPECIFICATION FairSpec
CONSTANTS
  None = None
  Users = {u1}
  Clients = {c1, c2}
  Codes = {k1}
  Requests = {r1, r2}
  MaxPairs = 3
  MaxTime = 0
  CodeTTL = 1
  AccessTTL = 1
  RefreshTTL = 1
  AbsoluteTTL = 1
CHECK_DEADLOCK FALSE
INVARIANT RefusalKeepsToken
