SPECIFICATION FairSpec
CONSTANTS
    Call = {c1, c2, c3}
    Model = {m1}
    User = {u1}
    Id = {i1, i2}
    Cap = 1
    NoCall = NoCall
    NoId = NoId
    MaxLate = 1
    Curation = TRUE
INVARIANTS
    RecordWellFormed
PROPERTIES
    EveryCallAnswered
