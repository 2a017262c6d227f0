CONSTANTS
    Threads = {1, 2, 3}
    Keys = {1, 2}
    NoKey <- MCNoKey
    NoThread = 0
    MaxLayer = 1
    Initial <- MCInitialOne
    Prog <- MCProgByLib
    Impls = {"libstdc++", "libc++"}
SPECIFICATION Spec
INVARIANT TypeOK
INVARIANT SnapshotConsistent
PROPERTY Termination
PROPERTY MetricsSettle
