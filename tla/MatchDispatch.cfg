SPECIFICATION Spec
CONSTANTS
  Matches <- AllMatches
  Samples <- SampledIntegers
  MaxLen = 3
  MaxUsize = 1000
INVARIANTS AgreesWithEval AcceptedMatchesTake ReadsAreActive ReportsAreTrue
CHECK_DEADLOCK FALSE
