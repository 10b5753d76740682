SPECIFICATION Spec
CONSTANTS
    Backends = {"auto", "nvidia-smi"}
    NtpTools = {"auto", "chronyc", "ntpq"}
    ChronycRuns <- MCChronyc
    NtpqRuns <- MCNtpq
    Failed = Failed
    Malformed = Malformed
    Durations = {0, 2}
    Budget = 2
    Pids = {1, 2}
    Tracked = {1, 2}
    MaxTracked = 1
    MaxTicks = 2
INVARIANTS
    SkewNotInvented
    RoundIsSound
PROPERTIES
    SilentAfterStop
CHECK_DEADLOCK FALSE
