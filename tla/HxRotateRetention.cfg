SPECIFICATION Spec
CONSTANTS
    Configs <- MCCap
    MaxLines = 5
    MaxSize = 1
    MaxTime = 1
    DayLength = 2
    MaxStarts = 2
    MaxFaults = 1
    Faults <- MCCrash
PROPERTY
    NewestAreSpared
CHECK_DEADLOCK FALSE
