SPECIFICATION FairSpec
CONSTANTS
    t1 = t1
    t2 = t2
    Thread = {t1, t2}
    NoLine = NoLine
    MaxLines = 2
    Configs <- MCBlockOne
    Budget <- MCNoFork
    AllocMayFail = FALSE
    ThreadMayFail = FALSE
INVARIANTS
    NoLostWakeup
PROPERTIES
    AcceptedLinesLeave
    EnqueueReturns
    FlushReturns
    StopReturns
