SPECIFICATION Spec
CONSTANTS
    Collections = {"account", "balance", "operation"}
    MaxHeight = 4
    Chunks <- MCChunks
    ChanCap = 2
    MaxSaved = 2
    MaxFailures = 2
    MaxCrashes = 2
INVARIANTS
    TypeOK
    NothingTwice
    DigestedAreWhole
PROPERTIES
    UpToDateInOrder
    EventuallyDigested
    Drains
CHECK_DEADLOCK FALSE
