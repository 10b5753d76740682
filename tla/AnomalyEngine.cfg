SPECIFICATION Spec
CONSTANTS
    Feeds = {"frequency", "threshold", "clock_skew", "process_signals", "qos"}
    Entries <- MCEntries
    MinConsecutive = 2
    LearningSamples = 2
    Tolerance = 25
    Limit = 2
    QueueMax = 2
    MaxEvents = 5
    Payloads <- MCPayloads
INVARIANTS
    AlarmsSustained
    SteadyTopicNeverAlarmed
    ShownOnceToEach
CHECK_DEADLOCK FALSE
