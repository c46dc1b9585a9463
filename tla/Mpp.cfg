SPECIFICATION Spec
CONSTANTS
    EVM_MAX_SPLITS = 2
    HEDERA_MAX_SPLITS = 2
    Absent = Absent
    MAX_CHALLENGES = 2
    Hashes = {H1, H2}
    Documents <- MCDocuments
    Changes <- MCChanges
    Links = {"https"}
    Agreements <- AnyAgreement
CHECK_DEADLOCK FALSE
INVARIANTS
    PlacedOffersSame
    OneOffer
    ChosenBuilds
    EchoIsTaken
