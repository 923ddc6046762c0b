SPECIFICATION FairSpec
CONSTANTS
    q1 = q1
    q2 = q2
    q3 = q3
    Query = {q1, q2, q3}
    Checked = {q1, q2}
    NoQuery = NoQuery
    RowsWanted = {0, 1, 5}
    NoRows = NoRows
    DefaultRows = 2
    RowsLimit = 3
    Batch <- Batches
    MaxQueries = 2
    MaxVersion = 1
INVARIANTS
    TypeOK
    AnswersAreConsistent
    OnlyCheckedQueriesRun
    RepairKeepsGrounding
PROPERTIES
    CallEnds
