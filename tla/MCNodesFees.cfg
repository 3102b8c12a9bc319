SPECIFICATION Spec
CONSTANTS
    NoKeys = NoKeys
    NoDesign = NoDesign
    NoBlock = NoBlock
    Nobody = Nobody
    Pubkeys <- MCPubkeys
    Addresses <- MCAddresses
    Currencies <- MCCurrencies
    KeysOf <- MCKeysOf
    NewKeys = {}
    NodePubs = {"n1"}
    NodeThreshold = 1
    Ops <- MCOps
    MaxProposalOps = 2
    Genesis = "g"
    GenesisDesigns <- MCGenesisDesigns
    Nodes = {s1, s2, s3}
    Threshold = 2
    MaxStale = 1
INVARIANTS
    OneFeeOperation
