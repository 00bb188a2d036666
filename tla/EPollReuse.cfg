SPECIFICATION Spec
CONSTANTS
    FDs = {d1, d2}
    Fibers = {f1, f2}
    IOs = {}
    Files = {}
    Pids = {p1, p2, p3}
    Conditions = {"readable", "writable", "hangup"}
    None = None
    Saved = Saved
    MayRetry = FALSE
    MayEscape = FALSE
    MayReopen = FALSE
    MayAbandon = FALSE
    MayReuse = TRUE
INVARIANTS
    ReapKnown
CHECK_DEADLOCK FALSE
