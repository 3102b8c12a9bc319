SPECIFICATION Spec
CONSTANTS
    Signers = {"k1", "k2"}
    MaxSigns = 2
    Privatekeys = {"k1", "k2"}
    Senders = {"A", "B"}
    Items = {"i1", "i2"}
    MaxItems = 2
    Imported <- MCImported
    MaxCommands = 3
    Remotes = {n1, n2, n3}
INVARIANTS
    NoTemplateLeft
    GuidedIsBuilt
    SignersAgreed
    HandsAreKept
    SentIsAgreed
    OKIsEverywhere
PROPERTIES
    Answered
CHECK_DEADLOCK FALSE
