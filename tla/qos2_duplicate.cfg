SPECIFICATION SessionSpec
CONSTANTS
    p1 = p1
    Publishers <- OnePublisher
    MaxInflight = 2
    MaxMid = 2
    MaxPublish = 2
    MaxReconnects = 1
    MaxAcks = 2
INVARIANT ExactlyOnce
CHECK_DEADLOCK FALSE
