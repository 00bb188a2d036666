SPECIFICATION Spec
CONSTANTS
    Fibers = {f1, f2}
    Limit = 3
    Entries = 2
    Kinds = {"io_wait", "process_wait", "io_read", "io_write", "io_close"}
    Loop = Loop
    User = User
    None = None
    MayRefuse = TRUE
    MayUnwind = FALSE
    MayEscape = TRUE
INVARIANTS
    TypeOK
    Exclusive
    LinksLive
    CancelsOwn
    WakeupRead
    NoMissedCompletion
