SPECIFICATION Spec
CONSTANTS
    NoKeys = NoKeys
    NoDesign = NoDesign
    Pubkeys <- MCPubkeys
    Addresses <- MCAddresses
    Currencies <- MCCurrencies
    KeysOf <- MCKeysOf
    NewKeys <- MCNewKeys
    NodePubs = {"n1", "n2"}
    NodeThreshold = 2
    Ops <- AccountOps
    MaxProposalOps = 3
    Genesis = "g"
    GenesisDesigns <- MCGenesisDesigns
    LoadMayFail = FALSE
INVARIANTS
    NoOverdraft
    SingleWriter
    BalanceHasOwner
    ChecksStillHold
    ClaimsAreDistinct
PROPERTIES
    NewAccountsAreFunded
    RefinesLedger
    SpendingIsSigned
