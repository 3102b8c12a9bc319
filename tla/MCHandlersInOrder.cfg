SPECIFICATION Spec
CONSTANTS
    Docs <- MCDocs
    MaxHeight = 2
    MaxRetries = 0
    Lists <- MCLists
    ItemsLimit = 2
    Clients = {c1, c2}
INVARIANTS
    WalksAreInOrder
SYMMETRY Interchangeable
CHECK_DEADLOCK FALSE
