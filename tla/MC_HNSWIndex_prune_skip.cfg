CONSTANTS
    Keys <- MCKeys
    Column <- MCColumn
    NoKey <- MCNoKey
    MaxLayer = 0
    M = 1
    M0 = 2
    EfConstruction = 2
    EfSearch = 2
    InsertIndexed = FALSE
    Metrics = {"euclidean"}
    HostRows <- MCAllRows
    CosScale = 1
SPECIFICATION Spec
INVARIANT Symmetry
