SPECIFICATION FairSpec
CONSTANTS
    FDs = {d1}
    Fibers = {f1, f2, f3}
    IOs = {io1, io2}
    Files = {io1}
    Pids = {p1}
    Conditions = {"readable", "hangup"}
    None = None
    Saved = Saved
    MayRetry = TRUE
    MayEscape = TRUE
    MayReopen = TRUE
    MayAbandon = TRUE
    MayReuse = TRUE
INVARIANTS
    TypeOK
    ListsSound
PROPERTIES
    NoStuckWaiter
