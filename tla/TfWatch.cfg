SPECIFICATION TfSpec
CONSTANTS
    Edges <- MCEdges
    ExpectedSets <- MCExpected
    Less <- MCLess
    StaleTimeout = 1
    GcAge = 2
    Period = 1
    Lag = 2
    Lead = 1
    LastTime = 4
    MaxRewinds = 1
PROPERTIES
    AlarmsRestOnAges
    NoEdgeLost
CHECK_DEADLOCK FALSE
