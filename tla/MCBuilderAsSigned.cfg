SPECIFICATION BuilderSpec
CONSTANTS
    Signers = {"k1", "k2"}
    MaxSigns = 2
INVARIANTS
    SignedAsBuilt
CHECK_DEADLOCK FALSE
