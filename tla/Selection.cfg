SPECIFICATION Spec
CONSTANTS
    Challenges <- MCChallenges
    Options <- MCOptions
    Hashes <- MCHashes
    Networks <- MCNetworks
    Pairings <- MCPairings
    PublicProofs = {"p2", "p3"}
    Pieces = {"p1", "p2", "p3"}
    Absent = Absent
    Null = Null
    None = None
    MAX_OPTIONS = 2
    MaxCalls = 2
INVARIANTS
    FirstPayable
    ApprovedAgain
    OneFaultOneCode
CHECK_DEADLOCK FALSE
