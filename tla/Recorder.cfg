CONSTANTS
    c1 = c1
    c2 = c2
    c3 = c3
    Captures <- MCCaptures
    NoCapture = NoCapture
    MaxRecordings = 2
SPECIFICATION FairSpec
INVARIANTS
    OneCaptureAtATime
    QuotaKept
    EndReportedOnce
    WorkerSurvives
    StopEndsCapture
PROPERTIES
    CaptureIsBounded
    StopReturns
CHECK_DEADLOCK FALSE
