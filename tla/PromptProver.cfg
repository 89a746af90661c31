SPECIFICATION FairSpec
CONSTANTS
    Iterations = 1
    SmallTimeout = 1
    LargeTimeout = 4
    MaxHeight = 9
    InclusionDelay = 0
    Finality = 1
    MaxCrashes = 0
    Prompt = {"PROVER"}
    Live = {"PROVER"}
INVARIANTS
    PromptProverNotTimedOut
PROPERTIES
    FlowSpec
    ValidProofPaid
    ProverSettles
CHECK_DEADLOCK FALSE
