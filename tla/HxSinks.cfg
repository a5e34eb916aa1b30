SPECIFICATION SinksSpec
CONSTANTS
    t1 = t1
    t2 = t2
    Writer = {t1, t2}
    Worker = worker
    Nobody = nobody
    LineLevel = 1
    Levels = {0, 2}
    MaxSinks = 2
    GenWidth = 5
    MaxLines = 2
    MaxOps = 2
SYMMETRY Symmetry
CHECK_DEADLOCK FALSE
INVARIANTS
    SinksTypeOK
    SteadySinksGetTheLine
    FormatIsFresh
    LinesCountedOnce
