CONSTANTS
    Events = {e1, e2, e3}
    Workers = {w1, w2}
    Null = Null
    BatchSize = 2
    LockTTL = 2
    MaxBackoff = 1
    MaxFaults = 2
SPECIFICATION Spec
INVARIANTS TypeOK PublishedIsFinal NoDuplicateUnlessTroubled
PROPERTY ImplementsAtLeastOnce
CHECK_DEADLOCK FALSE
