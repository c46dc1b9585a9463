SPECIFICATION Spec
CONSTANTS
    EVM_MAX_SPLITS = 2
    HEDERA_MAX_SPLITS = 2
    Absent = Absent
    MAX_CHALLENGES = 2
    Hashes = {H1}
    Documents <- HederaDocuments
    Changes <- ChallengeChanges
    Links = {"https"}
    Agreements <- NoAgreement
CHECK_DEADLOCK FALSE
INVARIANT EchoIsTaken
