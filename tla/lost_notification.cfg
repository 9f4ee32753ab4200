SPECIFICATION Spec
CONSTANTS
    p1 = p1
    p2 = p2
    Publishers <- OnePublisher
    MaxInflight = 1
    MaxMid = 3
    MaxPublish = 3
    MaxReconnects = 1
PROPERTY AcknowledgedIsNotified
CHECK_DEADLOCK FALSE
