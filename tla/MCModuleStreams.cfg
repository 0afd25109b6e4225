SPECIFICATION MCFairSpec
CONSTANTS
    Subs = {s1}
    Owner <- MCOwner
    Topics <- MCTopics
    Requests <- MCRequests
    AllowLists <- MCAllowLists
    FeedCap = 2
    MaxEvents = 2
    Receivers = {r1, r2}
    InboundBuffer = 2
    MaxInbound = 3
    MaxLoad = 3
    Root = Root
    Derived = {"d1", "d2"}
    NoHandler = NoHandler
    NoStream = NoStream
    MaxRecords = 3
INVARIANTS StreamsFaithful LogsAccounted
PROPERTIES StreamsMoveOn
CHECK_DEADLOCK FALSE
