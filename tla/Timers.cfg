SPECIFICATION Spec
CONSTANTS
    Times = {1, 2}
    COMPACT_MINIMUM_COUNT = 2
    MaxHandles = 6
    MaxDepth = 1
INVARIANTS
    TypeOK
    CancelledCounted
    DeletesExactly
PROPERTIES
    RetentionBounded
    EarliestFound
    ImplementsTimerSet
