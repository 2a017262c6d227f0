CONSTANTS
    Keys <- MCKeys3
    Column <- MCColumn3
    NoKey <- MCNoKey
    MaxLayer = 0
    M = 1
    M0 = 2
    EfConstruction = 2
    EfSearch = 2
    InsertIndexed = FALSE
    Metrics = {"euclidean"}
    HostRows <- MCAllRows
    CosScale = 1
SPECIFICATION Spec
PROPERTY RowsRefined
