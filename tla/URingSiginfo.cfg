SPECIFICATION Spec
CONSTANTS
    Fibers = {f1, f2}
    Limit = 3
    Entries = 2
    Kinds = {"process_wait"}
    Loop = Loop
    User = User
    None = None
    MayRefuse = TRUE
    MayUnwind = FALSE
    MayEscape = TRUE
INVARIANT SiginfoLive
