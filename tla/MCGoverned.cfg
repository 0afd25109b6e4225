SPECIFICATION MCFairSpec
CONSTANTS
    Modules <- MCModules
    Governed = {"m1"}
    Contents = {d1}
    Nothing = Nothing
    MaxRevision = 2
    Configs <- MCConfigs
    NoDevice = NoDevice
    Absent = Absent
    Places <- MCPlaces
    PolicyPlace <- MCPolicyPlace
    IdentityPlace <- MCIdentityPlace
    Place <- MCPlace
    Garbage = Garbage
    Values = {v1}
    MaxFailures = 2
    Intervals = {0, 1, 3}
    NoData = NoData
    Malformed = Malformed
    NotYet = NotYet
    MaxOnWay = 1
INVARIANTS StoreKeeps IdentityKept ViewIsPublished PolicyGoverns
PROPERTIES StreamCatchesUp
