SPECIFICATION Spec
CONSTANTS
    Null = Null
    Instances = {p1}
    EntryNames = {"default", "engagement", "uploads"}
    Durations = {0, 1, 2}
INVARIANTS TypeOK PartsAreUnwound EveryCallIsBounded
PROPERTIES StopEnds
CHECK_DEADLOCK FALSE
