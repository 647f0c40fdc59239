SPECIFICATION Spec
CONSTANTS
  Programs <- PlainBodies
  Passes = 2
  UnrollLimit = 4
  Pairs <- ScopePairs
  ErrorEffects <- ErrEffects
  MaxChoices = 5
  MaxTrace = 24
INVARIANTS AgreesWithEval DefersAreBalanced PathsEndAtTerminators
CHECK_DEADLOCK FALSE
