SPECIFICATION SessionSpec
CONSTANTS
    p1 = p1
    Publishers <- OnePublisher
    MaxInflight = 3
    MaxMid = 2
    MaxPublish = 2
    MaxReconnects = 2
    MaxAcks = 2
INVARIANTS
    SessionTypeOK
    AtLeastOnce
    ExactlyOnce
PROPERTIES
    ImplementsOutMessages
    EventuallyNotified
CHECK_DEADLOCK FALSE
