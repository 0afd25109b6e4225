SPECIFICATION FairSpec
CONSTANTS
    r1 = r1
    r2 = r2
    c1 = c1
    c2 = c2
    Main = Main
    None = None
    Runners <- MCRunners
    Callers <- MCOneCaller
    StartBurst = 2
    CrashWindow = 0
    StableAfter = 1
    HealthStrikes = 1
    WatchdogInterval = 1
PROPERTIES
    StopReturns
    ShutdownCompletes
    HangIsEnded
