SPECIFICATION MCFairSpec
CONSTANTS
    c1 = c1
    c2 = c2
    v1 = v1
    v2 = v2
    v3 = v3
    None = None
    Requests <- MCRequests
    Versions <- MCVersions
    GateTimeout = 5
    GateStable = 2
    Strikes = 2
    MaxLaunches = 2
INVARIANTS CurrentIsSound RestoredUnlessCancelled RetainsTwo GateMeansHealthy
PROPERTIES RequestsAnswered
