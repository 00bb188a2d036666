SPECIFICATION Spec
CONSTANTS
    Kinds = {FALSE}
    Threads = {t1, t2, t3}
    MaxReady = 4
    Capacity = 2
INVARIANTS
    NoLostWakeup
