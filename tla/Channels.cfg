SPECIFICATION Spec
CONSTANTS
    batch = batch
    session = session
    h1 = h1
    h2 = h2
    s1 = s1
    s2 = s2
    Channels <- MCChannels
    Sessions <- MCSessions
    Hashes <- MCHashes
    HashOf <- MCHashOf
    Prices <- MCPrices
    Slots <- MCSlots
    AmountLimit = 5
    MaxCalls = 6
INVARIANTS
    TypeOK
    TotalBounded
    HeldOnly
    LatestCovers
PROPERTIES
    ChargeNeverFalls
CHECK_DEADLOCK FALSE
