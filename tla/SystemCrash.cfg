SPECIFICATION Spec
CONSTANTS
    Iterations = 1
    SmallTimeout = 1
    LargeTimeout = 4
    MaxHeight = 9
    InclusionDelay = 1
    Finality = 0
    MaxCrashes = 1
    Prompt = {"PROVER", "VERIFIER"}
    Live = {"PROVER", "VERIFIER"}
INVARIANTS
    TypeOK
    StatusMatchesNode
CHECK_DEADLOCK FALSE
