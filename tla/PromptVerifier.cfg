SPECIFICATION FairSpec
CONSTANTS
    Iterations = 1
    SmallTimeout = 1
    LargeTimeout = 3
    MaxHeight = 7
    InclusionDelay = 0
    Finality = 0
    MaxCrashes = 0
    Prompt = {"VERIFIER"}
    Live = {"VERIFIER"}
INVARIANTS
    InvalidProofNotPaid
PROPERTIES
    ChallengeAnswered
CHECK_DEADLOCK FALSE
