SPECIFICATION MCSpec
CONSTANTS
    r1 = r1
    r2 = r2
    c1 = c1
    c2 = c2
    Main = Main
    None = None
    Runners <- MCRunners
    Callers <- MCCallers
    StartBurst = 3
    CrashWindow = 2
    StableAfter = 1
    HealthStrikes = 2
    WatchdogInterval = 1
    Manifests <- MCManifests
    Outputs <- MCOutputs
    Window <- MCWindow
    CoreUid = 1000
    Accounts = {71, 72}
    NoOne = NoOne
    MaxLine = 5
    Tokens <- MCTokens
    Processes <- MCProcesses
    Root = "root"
    Keys = {"k1", "k2"}
    Docs <- MCDocs
    Locals <- MCLocals
    Binaries <- MCBinaries
    Signings <- MCSignings
    Requests = {q1, q2}
    Host <- MCHost
    Nil = Nil
    MaxNow = 1
    MaxFaults = 1
    Debs = {1, 2}
    Contents = {"a", "b", "bad"}
    Readable = {"a", "b"}
    Absent = Absent
    Empty = Empty
    MaxBuilds = 2
    MaxRebuilds = 1
    Names <- MCNames
    NaN = NaN
    NoVersion = NoVersion
    Width = 12
SYMMETRY MCSymmetry
INVARIANTS OneLiveProcess StopIsComplete LaunchRateBounded RunsAsItsAccount LineIsFaithful
           ChainHolds BuildInstalls PicksHighest
PROPERTIES AcceptsNoOlder
