SPECIFICATION Spec
CONSTANTS
    Workers = {w1, w2}
    Fibers = {f1, f2}
    None = None
    MinimumCreated = 1
    MaxCalls = 1
    MaxRaises = 0
    MaxInterrupts = 0
    MayKill = FALSE
    MayClose = TRUE
SYMMETRY Symmetry
INVARIANTS
    MutexLive
CHECK_DEADLOCK FALSE
