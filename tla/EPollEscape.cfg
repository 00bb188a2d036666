SPECIFICATION Spec
CONSTANTS
    FDs = {d1}
    Fibers = {f1, f2}
    IOs = {io1, io2}
    Files = {}
    Pids = {}
    Conditions = {"readable", "writable", "hangup"}
    None = None
    Saved = Saved
    MayRetry = FALSE
    MayEscape = TRUE
    MayReopen = FALSE
    MayAbandon = FALSE
    MayReuse = FALSE
INVARIANTS
    WaitingCovered
