CONSTANTS
    MaxBytes = 1
    MaxFiles = 1
    MaxAge = 0
    Lengths = {1}
    MaxEvents = 3
    MaxClock = 3
    MaxStarts = 2
    MaxFaults = 0
SPECIFICATION FairSpec
INVARIANTS
    TailInOrder
PROPERTIES
    TailCatchesUp
CHECK_DEADLOCK FALSE
