SPECIFICATION ChainSpec
CONSTANTS
    Docs <- MCDocs
    MaxHeight = 2
    MaxRetries = 0
    Currencies = {"A", "B"}
    Readers = {r1}
    Designs <- MCDesigns
    Created = 1
    Addressed = {1}
    Clients = {"c1", "c2"}
    Asked <- MCAsked
    ItemsLimit = 2
    CacheSize = 1
INVARIANTS
    TypeOK
    NeverOlder
    LinksAreThere
    WhatIsThereIsFound
    LongIsRight
PROPERTIES
    ReadsEnd
CHECK_DEADLOCK FALSE
