SPECIFICATION Spec
CONSTANTS
    a = a
    b = b
    bad = bad
    NoTopic = NoTopic
    Threads = {t1, t2}
    Channels = {a, b}
    BadChannels = {bad}
    QosSlots = 2
    FirstTopics <- MCFirstTopics
    MaxEvents = 4
INVARIANTS ChannelsTypeOK TableMatchesBroker
PROPERTIES CallsSettle
CHECK_DEADLOCK FALSE
