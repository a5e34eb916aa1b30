SPECIFICATION Spec
CONSTANTS
    t1 = t1
    t2 = t2
    t3 = t3
    Thread = {t1, t2, t3}
    NoLine = NoLine
    MaxLines = 1
    Configs <- MCBlock
    Budget <- MCNoFork
    AllocMayFail = TRUE
    ThreadMayFail = FALSE
INVARIANT
    BlockedOnlyWhenFull
