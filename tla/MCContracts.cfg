SPECIFICATION ContractsSpec
CONSTANTS
  n1 = n1
  k1 = k1
  k2 = k2
  c1 = c1
  m1 = m1
  m2 = m2
  m3 = m3
  s1 = s1
  u1 = u1
  g1 = g1
  g2 = g2
  None = None
  AName = n1
  ACommunity = c1
  MaxTime = 4
  ContractNames = {n1}
  ContractAddresses = {k1, k2}
  Admins = {g1, g2}
  UpgradeDelays = {0, 2}
  MaxVersion = 2
  CommunityIds = {c1}
  Members = {m1, m2, m3}
  Roles = {"none", "moderator", "admin", "owner"}
  RoleExpiries = {0, 3}
  TransferDelays = {0, 2}
  CommunityPolicies = {"p"}
  Sponsors = {s1}
  Users = {s1, u1}
  DailyOps = {0, 1, 2}
  GrantExpiries = {0, 3}
  PolicyVersions = {0, 1}
  x1 = x1
  x2 = x2
  p1 = p1
  p2 = p2
  Accounts = {x1, x2}
  Posts = {p1, p2}
  Author <- AuthorOf
  Day = 3
  Free = 2
  PerToken = 2
  MaxSupply = 3
  MaxUnits = 1
  Policies <- TwoPolicies
  FirstPolicy <- Generous
SYMMETRY Interchangeable
INVARIANTS ContractsMirrored PendingNewer OwnerHasNoRole LedgerSound
PROPERTIES TimeLocked NoFreshCapacity
CHECK_DEADLOCK FALSE
