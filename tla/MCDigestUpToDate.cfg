SPECIFICATION Spec
CONSTANTS
    Collections = {"account", "balance", "operation"}
    MaxHeight = 3
    Chunks <- MCChunks
    ChanCap = 2
    MaxSaved = 2
    MaxFailures = 0
    MaxCrashes = 1
PROPERTIES
    UpToDate
