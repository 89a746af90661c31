CONSTANTS
  Iterations = 1
  SmallTimeout = 1
  LargeTimeout = 2
  Setups = {s1, s2}
  Started = {s1}
  Mined <- MCMined
  Finality = 1
  MaxLag = 1
  MaxHeight = 5
  MaxErrors = 1
SPECIFICATION Spec
INVARIANT TypeOK
INVARIANT ReceivedRight
INVARIANT NothingSkipped
INVARIANT GapFree
PROPERTY EventuallyReceived
CHECK_DEADLOCK FALSE
