SPECIFICATION FairSpec
CONSTANTS
    h1 = h1
    h2 = h2
    u1 = u1
    u2 = u2
    Hashes <- MCHashes
    Urls <- MCUrls
    Pairings <- MCPairings
    Refusals <- MCRefusals
    FetchFaults <- MCFetchFaults
    MAX_STEPS = 2
    MaxCalls = 3
INVARIANTS
    TypeOK
    ProvenBeforeSigned
    ApprovedOnly
    Proven
    ResourceKept
    UnsettledKept
PROPERTIES
    CallReturns
CHECK_DEADLOCK FALSE
