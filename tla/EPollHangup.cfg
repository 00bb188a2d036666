SPECIFICATION FairSpec
CONSTANTS
    FDs = {d1}
    Fibers = {f1}
    IOs = {io1, io2}
    Files = {}
    Pids = {}
    Conditions = {"readable", "writable", "hangup"}
    None = None
    Saved = Saved
    MayRetry = FALSE
    MayEscape = FALSE
    MayReopen = FALSE
    MayAbandon = FALSE
    MayReuse = FALSE
PROPERTIES
    HangupNoted
