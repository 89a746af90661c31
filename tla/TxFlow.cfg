SPECIFICATION Spec
CONSTANTS
    Iterations = 2
    SmallTimeout = 1
    LargeTimeout = 2
    MaxHeight = 9
INVARIANTS
    TypeOK
    ResponseWindow
    SinglePayout
    ChallengeBlocksProof
PROPERTIES
    NothingAfterPayout
CHECK_DEADLOCK FALSE
