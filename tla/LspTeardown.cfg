SPECIFICATION Spec
CONSTANTS
    f0 = f0
    f1 = f1
    a = a
    b = b
    None = None
    Files = {f0, f1}
    Modules = {a, b}
    Reached <- MCReached
    QueryIds = {}
    DirectIds = {}
    Debounced = TRUE
    Checkpoints = 1
    MaxEdits = 1
    MaxCancels = 1
    MaxNoise = 0
INVARIANT TeardownAbandons
CHECK_DEADLOCK FALSE
