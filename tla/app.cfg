SPECIFICATION MCSpec
CONSTANTS
    u = u
    NoUser = NoUser
    Users = {u}
    Bytes = {1}
    MaxLen = 2
    TextRoom = 2
    RefTable = 10
    MaxCalls = 2
    MaxChanges = 1
    MaxTopic = 4
    Letters = {"a", "$"}
INVARIANTS HeardAsSent CrashExplained TopicsMatch
PROPERTIES EventuallyTold
CHECK_DEADLOCK FALSE
