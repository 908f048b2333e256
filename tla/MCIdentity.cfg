SPECIFICATION IndexedSpec
CONSTANTS
  a1 = a1
  g1 = g1
  g2 = g2
  g3 = g3
  d1 = d1
  Accounts = {a1}
  DeviceKeys = {d1}
  Candidates = {d1, g1}
  None = None
  Address <- MCAddress
  Capabilities = {"PROFILE"}
  Policies <- MCPolicies
  Profiles = {"p"}
  Expiries <- MCExpiries
  MaxDeviceLifetime = 2
  MaxDelay = 2
  MaxGuardians = 3
  MaxKeyVersion = 2
  MaxTime = 4
INVARIANTS RecoveryQuorum DeviceAuthorityFresh IdentityMirrored ActorsServed
PROPERTIES OwnerChangeVetoable PolicyChangeDelayed
CHECK_DEADLOCK FALSE
