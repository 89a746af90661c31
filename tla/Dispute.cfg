SPECIFICATION Spec
CONSTANTS
  Totals = {1000, 730}
  WrongLines = {1, 4, 7, 11, 292, 400, 1000}
  ScriptTotalLines = 8
  TotalRefutationProofs = 3
  TotalRefutationHashOptions = 2
  Chunks = 4
  ParallelFactor = 2
  MaxFailures = 2
INVARIANT TypeOK
INVARIANT RangeContested
INVARIANT EndsAtOneLine
INVARIANT RootsRevealed
INVARIANT ControlBlockOpens
INVARIANT SameTree
PROPERTY ScriptFound
CHECK_DEADLOCK FALSE
