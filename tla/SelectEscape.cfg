SPECIFICATION Spec
CONSTANTS
    Fibers = {f1, f2, f3}
    IOs = {a}
    Loop = Loop
    None = None
    MaxWaiters = 3
    MaxReady = 1
    MayEscape = TRUE
INVARIANT NoLostWaiter
