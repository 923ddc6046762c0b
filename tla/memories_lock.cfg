SPECIFICATION Spec
CONSTANTS
    Call = {c1, c2}
    Model = {m1}
    User = {u1, u2}
    Id = {i1, i2, i3}
    Cap = 2
    NoCall = NoCall
    NoId = NoId
    MaxLate = 0
    Curation = FALSE
INVARIANTS
    TypeOK
    AcknowledgedKept
    ForgottenStaysForgotten
    WriterIsCurrent
PROPERTIES
    OnlyTheAuthorForgets
    ImplementsStore
