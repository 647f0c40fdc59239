SPECIFICATION FairSpec
CONSTANTS
    f0 = f0
    f1 = f1
    a = a
    b = b
    None = None
    Files = {f0, f1}
    Modules = {a, b}
    Reached <- MCReached
    QueryIds = {1}
    DirectIds = {}
    Debounced = TRUE
    Checkpoints = 1
    MaxEdits = 2
    MaxCancels = 1
    MaxNoise = 1
PROPERTIES RequestsAnswered EditsSettle ServerEnds
CHECK_DEADLOCK FALSE
