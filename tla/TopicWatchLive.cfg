SPECIFICATION FairSpec
CONSTANTS
    scan = scan
    odom = odom
    Topics <- TwoTopics
    Lagging <- OneTopic
    Window = 1
    Timeout = 1
    QueueMax = 3
    Gap = 0
    Horizon = 0
PROPERTIES
    SilentTopicAlarmed
