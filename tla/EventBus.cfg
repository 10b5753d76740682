CONSTANTS
    q1 = q1
    q2 = q2
    p1 = p1
    p2 = p2
    ros = ros
    sys = sys
    Queues <- MCQueues
    Publishers <- MCPublishers
    Channels <- MCChannels
    Global = Global
    Fresh = Fresh
    NoQueue = NoQueue
    Capacity = 1
    MaxEvents = 2
SPECIFICATION Spec
SYMMETRY Symmetry
INVARIANTS
    TypeOK
    EveryMissCounted
    PublisherOrder
    NoCounterResurrected
PROPERTIES
    EveryQueueIsASubscription
