SPECIFICATION IssuerSpec
CONSTANTS
  None = None
  Users = {u1}
  Clients = {c1, c2}
  Codes = {k1}
  Requests = {r1, r2}
  MaxPairs = 3
  MaxTime = 1
  CodeTTL = 0
  AccessTTL = 0
  RefreshTTL = 1
  AbsoluteTTL = 1
  Replicas = {p1, p2}
  Names = {vault}
  Jobs = {h1, h2}
  Nothing = Nothing
  Legacy = vault
  HasCert = FALSE
  HasAws = TRUE
  Forms <- MCForms
  MaxBoots = 2
  MaxTicks = 1
  MaxChanges = 2
  MaxFaults = 1
SYMMETRY Symmetry
CHECK_DEADLOCK FALSE
INVARIANTS TypeOK CodeSingleUse RefreshSingleUse LineageComplete ReplacedPairRefused ExpiryWithinCap HandedWasJournalled SignerIsPublished RegistryFollowsTable
PROPERTIES DeadStaysDead ImplementsContract
