SPECIFICATION Spec
CONSTANTS
    c1 = c1
    c2 = c2
    f1 = f1
    p1 = p1
    p2 = p2
    None = None
    Calls <- MCCalls
    Flushers <- MCFlushers
    Peers <- MCPeers
    MaxQueued = 1
    MaxFaults = 1
INVARIANT QueuedIsKept
CHECK_DEADLOCK FALSE
