SPECIFICATION AwsSpec
CONSTANTS
  NoOne = NoOne
  People = {u1, u2}
  Revocations = {j1}
  Roles = {ro1}
  MaxSession <- OneTick
  MaxClock = 3
  MaxSts = 1
  Faults = {"put"}
CHECK_DEADLOCK FALSE
PROPERTY SweepRetries
