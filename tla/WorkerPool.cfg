SPECIFICATION FairSpec
CONSTANTS
    Workers = {w1, w2}
    Fibers = {f1, f2}
    None = None
    MinimumCreated = 0
    MaxCalls = 2
    MaxRaises = 1
    MaxInterrupts = 1
    MayKill = TRUE
    MayClose = TRUE
INVARIANTS
    TypeOK
    NoDanglingWork
    SingleOwner
    SettledOnReturn
    NoIdleWorker
    ClosedMeansStopped
PROPERTIES
    CallReturns
    ExceptionSurfaces
    CloseReturns
CHECK_DEADLOCK FALSE
