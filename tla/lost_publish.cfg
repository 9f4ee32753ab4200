SPECIFICATION Spec
CONSTANTS
    MaxInflight = 2
    MaxCells = 5
    MaxResets = 2
    InMids <- BrokerMids
INVARIANT PublishedIsQueued
CHECK_DEADLOCK FALSE
