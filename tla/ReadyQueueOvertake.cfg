SPECIFICATION FairSpec
CONSTANTS
    Fibers = {f1, f2}
    Loop = Loop
    Slots = {s1, s2}
    HeapNodes = {n1}
    None = None
PROPERTIES
    FlushAlwaysReturns
