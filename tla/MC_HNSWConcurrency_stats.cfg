CONSTANTS
    Threads = {1, 2}
    Keys = {1, 2}
    NoKey <- MCNoKey
    NoThread = 0
    MaxLayer = 1
    Initial <- MCInitialNone
    Prog <- MCProgStats
    Impls = {"libstdc++", "libc++"}
SPECIFICATION Spec
INVARIANT StatsConsistent
