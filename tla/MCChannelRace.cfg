SPECIFICATION ChannelSpec
CONSTANTS
    Root = "root"
    Keys = {"k1", "k2"}
    Docs <- MCDocs
    Locals <- MCLocals
    Binaries <- MCBinaries
    Signings <- MCProper
    Requests = {r1, r2}
    Host <- MCHost
    Nil = Nil
    MaxNow = 1
    MaxFaults = 0
PROPERTIES MarkNeverFalls
