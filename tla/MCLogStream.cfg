SPECIFICATION LogSpec
CONSTANTS
    Root = Root
    Derived = {"d1"}
    NoHandler = NoHandler
    NoStream = NoStream
    MaxRecords = 2
INVARIANT LogNeverLost
CHECK_DEADLOCK FALSE
