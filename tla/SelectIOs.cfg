SPECIFICATION Spec
CONSTANTS
    Fibers = {f1, f2}
    IOs = {a, b}
    Loop = Loop
    None = None
    MaxWaiters = 2
    MaxReady = 2
    MayEscape = FALSE
INVARIANTS
    TypeOK
    ReferencesCurrent
    NoLostWaiter
    ChainsDisjoint
PROPERTIES
    ImplementsIOWait
    NoStuckWaiter
