SPECIFICATION Spec
CONSTANTS
    root = root
    w1 = w1
    w2 = w2
    w3 = w3
    m1 = m1
    m2 = m2
    m3 = m3
    m4 = m4
    m5 = m5
    Root = root
    Workspace = {w1, w2, w3}
    Model = {m1, m2, m3, m4, m5}
    Content <- TwoPages
    Forbidden = {w3}
    Curated = {m1, m4, m5}
    Queryable = {m1, m2, m3, m4}
    Permits = 2
    Gate = 2
INVARIANTS
    PartialListIsNeverReturned
