SPECIFICATION Spec
CONSTANTS
    Workers = {w1, w2}
    Fibers = {f1, f2}
    None = None
    MinimumCreated = 1
    MaxCalls = 2
    MaxRaises = 1
    MaxInterrupts = 0
    MayKill = FALSE
    MayClose = FALSE
SYMMETRY Symmetry
INVARIANTS
    TrueMeansExecuted
