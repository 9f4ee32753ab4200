SPECIFICATION Spec
CONSTANTS
    Base = 2
    MaxDigits = 2
    Mids = {1, 2}
    MaxMessages = 3
    MaxReconnects = 1
    MaxRetries = 1
INVARIANTS
    IncomingTypeOK
    Framing
    ReleasedOnce
PROPERTIES
    AllAnswered
CHECK_DEADLOCK FALSE
