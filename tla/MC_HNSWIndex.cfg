CONSTANTS
    Keys <- MCKeys
    Column <- MCColumnGraph
    NoKey <- MCNoKey
    MaxLayer = 1
    M = 1
    M0 = 2
    EfConstruction = 2
    EfSearch = 2
    InsertIndexed = FALSE
    Metrics = {"euclidean", "cosine", "negdot"}
    HostRows <- MCHostRows
    CosScale = 194481
SPECIFICATION Spec
INVARIANT TypeOK
INVARIANT DimensionUniform
INVARIANT NoDuplicateNeighbors
INVARIANT DegreeBound
INVARIANT EntryPointValid
