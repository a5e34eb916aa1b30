SPECIFICATION CrashSpec
CONSTANTS
    t1 = t1
    t2 = t2
    Thread = {t1, t2}
    None = None
    Cap = 3
    MaxPushes = 4
    MaxApi = 2
    MaxCalls = 5
SYMMETRY Symmetry
CHECK_DEADLOCK FALSE
INVARIANTS
    CrashTypeOK
    LastLinesReported
    ReportInOrder
    PreviousActionEndsIt
    CallbackPairKept
