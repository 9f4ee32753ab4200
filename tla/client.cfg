SPECIFICATION Spec
CONSTANTS
    Apps <- FourApps
    Keepalive = 2
    ReconnectDelay = 1
    DelayMax = 3
    MaxInbox = 1
    MaxOut = 1
INVARIANTS
    ClientTypeOK
    DisconnectSticks
    NoDescriptorLost
    
PROPERTIES
    ReportsTruthfully
    BackoffGrows
    DisconnectReturns
    DeadPeerNoticed
    PublisherReturns
CHECK_DEADLOCK FALSE
