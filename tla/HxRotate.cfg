SPECIFICATION Spec
CONSTANTS
    Configs <- MCConfigs
    MaxLines = 3
    MaxSize = 2
    MaxTime = 4
    DayLength = 2
    MaxStarts = 2
    MaxFaults = 2
    Faults <- MCFaults
INVARIANTS
    TypeOK
    FlushedLinesKept
    NamesFollowTime
    SizeIsKnown
    FileWithinLimit
PROPERTY
    NewestAreSparedWithoutFaults
CHECK_DEADLOCK FALSE
