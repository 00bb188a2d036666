SPECIFICATION Spec
CONSTANTS
    FDs = {d1, d2}
    Fibers = {f1, f2}
    IOs = {io1, io2, io3}
    Files = {}
    Pids = {p1}
    Conditions = {"readable", "writable"}
    None = None
    Saved = Saved
    MayRetry = FALSE
    MayEscape = FALSE
    MayReopen = FALSE
    MayAbandon = FALSE
    MayReuse = TRUE
SYMMETRY Symmetry
INVARIANTS
    Covered
