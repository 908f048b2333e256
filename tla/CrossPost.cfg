SPECIFICATION ExtensionSpec
CONSTANTS
  HostRefs = {r1, r2}
  NoRef = NoRef
  NoRecord = NoRecord
  OtherPayers = 1
  MaxBuilds = 2
  MaxSequence = 2
  Seeds = {s1, s2}
  Callers = {c1, c2}
  MaxKeys = 2
INVARIANTS OnePublication RecordTruthful VaultSound
PROPERTIES NodeTimeoutsLookedUp AttemptsResolve
CHECK_DEADLOCK FALSE
