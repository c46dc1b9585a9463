SPECIFICATION Spec
CONSTANTS
    Public <- MCPublic
    Private <- MCPrivate
    Named <- MCNamed
    Schemes = {"https", "http"}
    Name = Name
    Sizes <- MCSizes
    Declared <- MCDeclared
    Absent = Absent
    MAX_ATR_BYTES = 10
INVARIANTS
    ConnectsPublic
    RangesRefused
    ReturnsWhole
PROPERTIES
    FetchEnds
CHECK_DEADLOCK FALSE
