SPECIFICATION FairSpec
CONSTANTS
  Users = {u1}
  Clients = {c1, c2}
  None = None
  Portal = Portal
  Known = {c1}
  Forms <- MCForms
  MaxStarts = 2
  MaxLogins = 2
  MaxFaults = 1
CHECK_DEADLOCK FALSE
INVARIANTS NoSilentSurvivor SecretsRecorded EditTakesHold
PROPERTY SignOutSettles
