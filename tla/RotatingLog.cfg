CONSTANTS
    MaxBytes = 2
    MaxFiles = 2
    MaxAge = 1
    Lengths = {1, 3}
    MaxEvents = 4
    MaxClock = 3
    MaxStarts = 2
    MaxFaults = 1
SPECIFICATION LogSpec
INVARIANTS
    OldestGoFirst
    ReadAllInOrder
    CurrentIsNewest
    LimitsKept
CHECK_DEADLOCK FALSE
