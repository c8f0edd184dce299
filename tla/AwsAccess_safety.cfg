SPECIFICATION Spec
CONSTANTS
  Users = {u1}
  Accounts = {a1, a2}
  Roles = {ro1, ro2}
  None = None
  Groups = {1, 2}
  Regions = {"near", "far"}
  Malformed = Malformed
  AccountOf <- MCAccountOf
  Sensitive = {ro1}
  Settings <- MCSettings
  Earlier <- MCEarlier
  Assigned = {2}
  Unused = {a2, ro2}
  StepUpTTL = 0
  MaxRequests = 1
  MaxChanges = 2
  MaxTime = 1
  MaxFaults = 1
CHECK_DEADLOCK FALSE
INVARIANTS EntitledInRequest TeamAuthorized RegionOffered StepUpFresh ConfigJournalled
