SPECIFICATION ServicesSpec
CONSTANTS
    root = root
    mid = mid
    leaf = leaf
    long = long
    c1 = c1
    c2 = c2
    Client = {c1, c2}
    Name <- MCName
    Above <- MCAbove
    Stored <- MCStored
    Level = {1, 2}
    NoLevel = NoLevel
    MaxCalls = 4
    t1 = t1
    t2 = t2
    Caller = {t1, t2}
    m1 = m1
    m2 = m2
    Msg = {m1, m2}
    NoMsg = NoMsg
    NoLine = NoLine
    MaxLines = 2
    MaxOther = 4
    RetrySecs = 2
    Chunks = 2
    MaxNow = 7
    MaxWrites = 4
    u1 = u1
    u2 = u2
    User = {u1, u2}
    Engine = worker
    Nobody = nobody
    Reentrant = {"sinks", "stats", "loggers"}
    MaxUses = 3
SYMMETRY Symmetry
CHECK_DEADLOCK FALSE
INVARIANTS
    ServicesTypeOK
    PrefixLevelHolds
    RepeatsAreTold
    WholeLines
    OneReportPerWindow
    NobodyWaitsInCircle
    ForkOwnsTheLocks
