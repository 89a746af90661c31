CONSTANTS
  MaxCrashes = 1
  MaxLosses = 1
  MaxRepeats = 1
  Calm = {TRUE, FALSE}
SPECIFICATION Spec
INVARIANT TypeOK
INVARIANT OrderlyActiveComplete
INVARIANT FundsLockedLast
INVARIANT WatchedBeforeFunds
PROPERTY ActiveStays
PROPERTY NegotiationCompletes
CHECK_DEADLOCK FALSE
