SPECIFICATION Spec
CONSTANTS
    FDs = {d1}
    Fibers = {f1}
    IOs = {}
    Files = {}
    Pids = {p1}
    Conditions = {"readable", "writable", "hangup"}
    None = None
    Saved = Saved
    MayRetry = TRUE
    MayEscape = FALSE
    MayReopen = FALSE
    MayAbandon = FALSE
    MayReuse = FALSE
INVARIANTS
    Armed
CHECK_DEADLOCK FALSE
