SPECIFICATION Spec
CONSTANTS
    Key = {k1, k2, k3}
    Value = {v1, v2}
    Ttl = 2
    MaxSize = 2
    MaxTime = 5
INVARIANTS
    TypeOK
    SizeBounded
    NeverServedLate
PROPERTIES
    LiveEntriesAreKept
CHECK_DEADLOCK FALSE
