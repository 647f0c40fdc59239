SPECIFICATION FairSpec
CONSTANTS
    a = a
    b = b
    c = c
    Modules <- ThreeModules
    MaxStatements = 3
    Programs <- EditorPrograms
    EntryPaths <- TwoRoots
    Testing = TRUE
    Tolerant = TRUE
INVARIANTS
    NothingHalfDone
    CyclesAreReal
PROPERTIES
    LoweredIsSound
    NothingIsUndone
    EachStepCounts
    Terminates
CHECK_DEADLOCK FALSE
