SPECIFICATION Spec
CONSTANTS
    p1 = p1
    p2 = p2
    Publishers <- OnePublisher
    MaxInflight = 2
    MaxMid = 3
    MaxPublish = 3
    MaxReconnects = 1
INVARIANT HeldBackWaitsForAnAck
CHECK_DEADLOCK FALSE
