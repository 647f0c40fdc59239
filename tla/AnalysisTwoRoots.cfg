SPECIFICATION Spec
CONSTANTS
    a = a
    b = b
    c = c
    Modules <- TwoModules
    MaxStatements = 2
    Programs <- Unrelated
    EntryPaths <- TwoRoots
    Testing = TRUE
    Tolerant = TRUE
INVARIANTS
    ReportsPointHome
CHECK_DEADLOCK FALSE
