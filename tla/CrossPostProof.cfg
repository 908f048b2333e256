SPECIFICATION Spec
CONSTANTS
  HostRefs = {r1, r2}
  NoRef = NoRef
  NoRecord = NoRecord
  OtherPayers = 1
  MaxBuilds = 3
  MaxSequence = 2
INVARIANT ProofMatchesPost
CHECK_DEADLOCK FALSE
