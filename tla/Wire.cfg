CONSTANTS
    Null = Null
    Garbled = Garbled
    MaxU32 = 3
    MaxU64 = 7
SPECIFICATION ClientsSpec
INVARIANTS RoundTrip CanonicalBytes ClientsTyped
CHECK_DEADLOCK FALSE
