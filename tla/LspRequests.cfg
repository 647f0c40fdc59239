SPECIFICATION Spec
CONSTANTS
    f0 = f0
    f1 = f1
    a = a
    b = b
    None = None
    Files = {f0}
    Modules = {a, b}
    Reached <- MCReached
    QueryIds = {q1, q2}
    DirectIds = {d1}
    Debounced = FALSE
    Checkpoints = 1
    MaxEdits = 2
    MaxCancels = 2
    MaxNoise = 0
INVARIANTS RequestInOnePlace
PROPERTIES ImplementsService
SYMMETRY Interchangeable
CHECK_DEADLOCK FALSE
