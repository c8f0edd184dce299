SPECIFICATION Spec
CONSTANTS
  Users = {u1}
  Clients = {c1}
  None = None
  Portal = Portal
  Known = {c1}
  Forms <- MCForms
  MaxStarts = 1
  MaxLogins = 1
  MaxFaults = 0
CHECK_DEADLOCK FALSE
INVARIANT TimeOutsReported
