SPECIFICATION Spec
CONSTANTS
    Null = Null
    Keys = {k1}
    Videos = {v1, v2}
    Inits = {i1, i2}
    Workers = {w1, w2}
    Notices = {n1, n2}
    Sizes = {}
    Connections = 3
    MaxFailures = 1
    MaxVersion = 9
SYMMETRY UploadSymmetry
CHECK_DEADLOCK FALSE
INVARIANTS OneObjectPerKey
