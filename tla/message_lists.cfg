SPECIFICATION Spec
CONSTANTS
    MaxInflight = 2
    MaxCells = 5
    MaxResets = 2
    InMids <- BrokerMids
INVARIANTS
    ListsTypeOK
    WellLinked
    CrashOnlyIfCrossed
PROPERTY ImplementsQueues
CHECK_DEADLOCK FALSE
