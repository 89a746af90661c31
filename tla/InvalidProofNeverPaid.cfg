SPECIFICATION Spec
CONSTANTS
    Iterations = 1
    SmallTimeout = 1
    LargeTimeout = 3
    MaxHeight = 6
    InclusionDelay = 0
    Finality = 0
    MaxCrashes = 0
    Prompt = {"PROVER", "VERIFIER"}
    Live = {"PROVER", "VERIFIER"}
INVARIANTS
    InvalidProofNeverPaid
CHECK_DEADLOCK FALSE
