CONSTANTS
    c1 = c1
    c2 = c2
    c3 = c3
    Captures <- MCCaptures
    NoCapture = NoCapture
    MaxRecordings = 2
SPECIFICATION Spec
INVARIANTS
    NoCaptureLeftBehind
CHECK_DEADLOCK FALSE
