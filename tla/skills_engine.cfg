SPECIFICATION Spec
CONSTANTS
    trend = trend
    movers = movers
    draft = draft
    sales = sales
    Name = {trend, movers, draft}
    ValidName = {trend, movers}
    ModelId = {sales}
    Folders <- OperatorFolders
    Example <- Examples
    Client = {c1}
    Key = {k1, k2}
    NoKey = NoKey
INVARIANTS
    CheckedFolderStarts
