SPECIFICATION Spec
CONSTANTS
    Docs <- MCTwoBlocks
    MaxHeight = 1
    MaxRetries = 1
    Lists <- MCAccountLists
    ItemsLimit = 2
    Clients = {c1, c2}
INVARIANTS
    TypeOK
    NothingTwice
    SettledAreFound
    LongPagesAreRight
PROPERTIES
    WalksEnd
CHECK_DEADLOCK FALSE
