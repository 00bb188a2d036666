SPECIFICATION Spec
CONSTANTS
    Times = {1, 2}
    COMPACT_MINIMUM_COUNT = 2
    MaxHandles = 5
    MaxDepth = 2
INVARIANTS
    TypeOK
    CancelledCounted
    DeletesExactly
PROPERTIES
    RetentionBounded
    EarliestFound
    ImplementsTimerSet
