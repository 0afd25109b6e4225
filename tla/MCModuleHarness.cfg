SPECIFICATION MCFairSpec
CONSTANTS
    Protocol = 1
    Windows <- MCWindows
    Calls = {c1, c2}
    Jobs = {j1}
    None = None
    MaxFaults = 2
    StubLines <- MCLines
    StubWindow <- MCWindow
    ExitCodes = {0, 1, 78}
    NoCode = NoCode
    Callers = {a, b}
    Watchers = {w1, w2}
    Listeners = {l1, l2}
    StubTopics <- MCStubTopics
    StubPatterns <- MCStubPatterns
    StubCap = 1
    MaxRevision = 2
    MaxRecorded = 2
INVARIANTS CallbacksInSequence HarnessSettles StubServesAsCore
PROPERTIES RuntimeMovesOn
CHECK_DEADLOCK FALSE
