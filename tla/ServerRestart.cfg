SPECIFICATION ServerSpec
CONSTANTS
    batch = batch
    plain = plain
    h1 = h1
    h2 = h2
    url = url
    other = other
    s1 = s1
    Channels <- MCChannels
    Sessions <- MCSessions
    Hashes <- MCHashes
    HashOf <- MCHashOf
    Prices <- MCPrices
    Slots <- MCSlots
    Options <- MCOptions
    OptionOf <- MCOptionOf
    Urls <- MCUrls
    Offers <- ChannelOffers
    AmountLimit = 3
    MaxCalls = 4
    MaxRestarts = 1
INVARIANTS
    LeftBehind
CHECK_DEADLOCK FALSE
