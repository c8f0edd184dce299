SPECIFICATION Spec
CONSTANTS
  Users = {u1, u2}
  Groups = {g}
  Jobs = {j1, j2}
  None = None
  Forms <- MCForms
  Kinds <- MCAllKinds
  MaxStarts = 3
  MaxRecords = 2
  MaxFaults = 1
SYMMETRY Symmetric
CHECK_DEADLOCK FALSE
INVARIANTS JournalCovers OneBootstrapAdmin UsersAgree GroupsAgree
