SPECIFICATION Spec
CONSTANTS
    User = {u1}
    Model = {m1}
    Call = {c1, c2, c3}
    Tool <- OneOfEach
    Ttl = 1
    MaxSize = 1
    Delay = 1
    MaxTime = 4
SYMMETRY Symmetry
INVARIANTS
    TypeOK
    ReadersAreTimely
    QueueInTime
PROPERTIES
    ImplementsAccess
