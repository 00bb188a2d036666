SPECIFICATION FairSpec
CONSTANTS
    Workers = {w1, w2}
    Fibers = {f1, f2}
    None = None
    MinimumCreated = 1
    MaxCalls = 2
    MaxRaises = 0
    MaxInterrupts = 0
    MayKill = FALSE
    MayClose = TRUE
PROPERTIES
    AcceptedReturns
CHECK_DEADLOCK FALSE
