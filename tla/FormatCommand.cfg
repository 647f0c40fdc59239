SPECIFICATION Spec
CONSTANTS
  Sources <- OneOfEach
  Names <- NameSet
  Comments <- CommentSet
  MaxWidth = 24
  IndentSpaces = 2
INVARIANTS NeverRefused CommentsSurvive RegionsKept FormattedIsStable
CHECK_DEADLOCK FALSE
