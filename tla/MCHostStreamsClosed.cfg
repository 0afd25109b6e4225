SPECIFICATION FairSpec
CONSTANTS
    Subs = {}
    Owner <- MCOwner
    Topics <- MCTopics
    Requests <- MCRequests
    AllowLists <- MCAllowLists
    FeedCap = 2
    MaxEvents = 0
    Receivers = {r1, r2}
    InboundBuffer = 1
    MaxInbound = 2
    MaxLoad = 3
INVARIANTS GoneReceiverIsHarmless
CHECK_DEADLOCK FALSE
