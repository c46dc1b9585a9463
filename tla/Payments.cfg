\* Every payment of every pairing modelled, one member at a time away from an honest one.
CONSTANTS
    None = None
    Hashes = {"H1", "H2"}
SPECIFICATION Spec
INVARIANTS
    BroadcasterAgrees
    ServedBuilds
PROPERTY KeepsPromise
CHECK_DEADLOCK FALSE
