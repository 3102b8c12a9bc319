SPECIFICATION Spec
CONSTANTS
    Pubkeys <- MCPubkeys
    Addresses <- MCAddresses
    Currencies <- MCCurrencies
    KeysOf <- MCKeysOf
    NewKeys = {}
    NodePubs = {}
    NodeThreshold = 1
    MaxInt64 = 3
    FloatDen = 4
    Exponent = 3
    NoAccount = NoAccount
    NoCurrency = NoCurrency
    NoKeys = NoKeys
    NoDesign = NoDesign
    Confs <- MCConfs
    DigestConfs <- MCDigestConfs
    NoDigest = NoDigest
    NoNetwork = NoNetwork
    NoLimiter = NoLimiter
    MitumBind <- MCMitumBind
    NewDesigns <- MCNewDesigns
    NoPool = NoPool
    MaxHeight = 2
INVARIANTS
    GenesisIsSound
    AmountsAreAsWritten
    RunsWhatIsConfigured
