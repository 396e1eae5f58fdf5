SPECIFICATION Spec
CONSTANTS
    Null = Null
    Videos = {1, 2, 3, 4, 5, 6}
    PageSizes = {0, 1, 2, 3, 4}
    DefaultSize = 2
    MaxSize = 3
    MaxChanges = 2
INVARIANTS WalkIsComplete
