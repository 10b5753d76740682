CONSTANTS
    MaxProcs = 4
    Pids <- MCPids
    NoFile = NoFile
    Legacy = Legacy
SPECIFICATION FairSpec
INVARIANTS
    StopIsSafe
    SerialUserServed
PROPERTIES
    StopIsObeyed
CHECK_DEADLOCK FALSE
