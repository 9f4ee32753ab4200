SPECIFICATION Spec
CONSTANTS
    p1 = p1
    p2 = p2
    Publishers <- TwoPublishers
    MaxInflight = 2
    MaxMid = 4
    MaxPublish = 4
    MaxReconnects = 2
SYMMETRY Symmetry
INVARIANTS
    TypeOK
    InflightCoversFlow
    WindowBound
    NotifiedOnce
    HeldBackOnlyWhenFull
CHECK_DEADLOCK FALSE
