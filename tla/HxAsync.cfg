SPECIFICATION Spec
CONSTANTS
    t1 = t1
    t2 = t2
    Thread = {t1, t2}
    NoLine = NoLine
    MaxLines = 2
    Configs <- MCConfigs
    Budget <- MCBudget
    AllocMayFail = TRUE
    ThreadMayFail = TRUE
SYMMETRY Symmetry
INVARIANTS
    TypeOK
    RingConsistent
    NothingLost
    DropsCounted
    ThreadOrder
    WorkerNotAsleep
PROPERTIES
    FlushDrains
    IsBoundedChannel
