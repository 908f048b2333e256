CONSTANTS
    Null = Null
    Garbled = Garbled
    MaxU32 = 3
    MaxU64 = 7
SPECIFICATION Spec
INVARIANTS ContractReadsClient
CHECK_DEADLOCK FALSE
