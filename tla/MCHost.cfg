SPECIFICATION MCFairSpec
CONSTANTS
    Versions <- MCVersions
    RevertThreshold = 3
    MaxStaged = 3
    MaxDeaths = 1
    MaxBootFaults = 1
    Keys <- MCKeys
    VMKey = "vm"
    InCap = 2
    OutCap = 1
    MaxNonces = 5
    MaxFaults = 2
    MaxStored = 1
INVARIANTS CurrentBoots OpenedByThisHandshake
PROPERTIES RevertIsEarned BadIsLeftIfPossible HostGetsIn
