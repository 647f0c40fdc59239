SPECIFICATION Spec
CONSTANTS
  Programs <- NestedErrdefer
  Passes = 2
  UnrollLimit = 4
  Pairs <- ScopePairs
  ErrorEffects <- ErrEffects
  MaxChoices = 5
  MaxTrace = 24
INVARIANT AgreesWithEval
CHECK_DEADLOCK FALSE
