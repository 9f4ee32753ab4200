SPECIFICATION Spec
CONSTANTS
    MaxPackets = 4
    MaxDials = 2
    MaxAgains = 1
INVARIANTS
    PacketTypeOK
    ConnectFirst
    NoDeadlock
PROPERTIES
    Framed
    EventuallyWritten
CHECK_DEADLOCK FALSE
