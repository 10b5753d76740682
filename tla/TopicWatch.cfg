SPECIFICATION Spec
CONSTANTS
    scan = scan
    odom = odom
    Topics <- TwoTopics
    Lagging = {}
    Window = 2
    Timeout = 2
    QueueMax = 5
    Gap = 1
    Horizon = 3
SYMMETRY Symmetry
INVARIANTS
    RatesOnlyForSubscribed
    RecoveredTopicCleared
PROPERTIES
    RegularTopicNeverAlarmed
    OneAlarmPerOutage
