SPECIFICATION FairSpec
CONSTANTS
    Iterations = 2
    SmallTimeout = 2
    LargeTimeout = 5
    MaxHeight = 12
    InclusionDelay = 0
    Finality = 0
    MaxCrashes = 0
    Prompt = {"PROVER", "VERIFIER"}
    Live = {"PROVER", "VERIFIER"}
INVARIANTS
    OneTemplatePerBlock
    OutcomeOnChain
PROPERTIES
    InvalidProofRefuted
CHECK_DEADLOCK FALSE
