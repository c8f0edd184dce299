SPECIFICATION LoginsSpec
CONSTANTS
  None = None
  Users = {u1, u2}
  Grants = {g1}
  Requests = {r1, r2}
  MaxTime = 2
  MaxInterval = 2
  DeviceTTL = 1
  PollStep = 1
  NoOne = NoOne
  People = {p1, p2}
  Revocations = {j1}
  Roles = {ro1}
  MaxSession <- OneTick
  MaxClock = 3
  MaxSts = 1
  Faults = {"revoke", "put", "sweep"}
SYMMETRY Symmetry
CHECK_DEADLOCK FALSE
INVARIANTS DeviceSingleUse ApproverBound DeniedIssuesNothing DeliveredWasJournalled RevocationHolds
PROPERTIES DecisionIsFinal
