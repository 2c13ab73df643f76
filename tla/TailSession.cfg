SPECIFICATION Spec
CONSTANTS
    t1 = t1
    m1 = m1
    u1 = u1
    None = None
    Procs <- MCProcs
    Role <- MCRole
    RepairOnStart = TRUE
CHECK_DEADLOCK FALSE
INVARIANTS OwnerWrites
PROPERTIES RefusalMeansTail RepairRunsAgain SessionReturns
