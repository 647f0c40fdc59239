SPECIFICATION Spec
CONSTANTS
    a = a
    b = b
    c = c
    Modules <- ThreeModules
    MaxStatements = 3
    Programs <- BuildPrograms
    EntryPaths <- OneRoot
    Testing = TRUE
    Tolerant = FALSE
INVARIANTS
    TypeOK
    ErrorsReportedOnce
    FailureIsExplained
    TestsComeLast
CHECK_DEADLOCK FALSE
