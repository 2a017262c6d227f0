CONSTANTS
    Threads = {1, 2}
    Keys = {1, 2}
    NoKey <- MCNoKey
    NoThread = 0
    MaxLayer = 1
    Initial <- MCInitialOne
    Prog <- MCProgRadius
    Impls = {"libc++"}
SPECIFICATION Spec
PROPERTY Termination
