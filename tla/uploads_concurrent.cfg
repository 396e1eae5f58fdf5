SPECIFICATION Spec
CONSTANTS
    Null = Null
    Keys = {k1, k2}
    Videos = {v1, v2}
    Inits = {i1, i2}
    Workers = {w1, w2}
    Notices = {n1, n2, n3}
    Sizes = {s1}
    Connections = 3
    MaxFailures = 1
    MaxVersion = 9
SYMMETRY UploadSymmetry
CONSTRAINT SizesOfMatches
CHECK_DEADLOCK FALSE
INVARIANTS TypeOK CompletedIsProcessedUnlessInterrupted VideoHasMatchingUpload CreatedOnce SessionsAreDistinct AcknowledgedUploadCompletes
PROPERTIES SessionKeepsItsVideo
