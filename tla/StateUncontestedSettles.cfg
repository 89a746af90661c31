SPECIFICATION FairSpec
CONSTANTS
    Iterations = 1
    SmallTimeout = 1
    LargeTimeout = 3
    MaxHeight = 6
    InclusionDelay = 0
    Finality = 0
    MaxCrashes = 0
    Prompt = {"PROVER"}
    Live = {"PROVER", "VERIFIER"}
PROPERTIES
    VerifierSettlesStateUncontested
CHECK_DEADLOCK FALSE
