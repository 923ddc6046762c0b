SPECIFICATION Spec
CONSTANTS
    User = {u1, u2}
    Model = {m1}
    Call = {c1, c2}
    Ttl = 2
    MaxSize = 2
    Delay = 1
    StoreDelay = 2
    MaxTime = 6
SYMMETRY Symmetry
INVARIANTS
    TypeOK
    RevocationReaches
    SchemaIsRecent
    CacheIsJustified
