SPECIFICATION Spec
CONSTANTS
    Null = Null
    Videos = {v1}
    Requests = {r1, r2}
    Jobs = {}
    EmittedTimes = {1}
    Outputs = {}
    Encodings = {}
    Tags = {}
    Originals = {}
    ExpectVersion = {TRUE}
    MaxVersion = 4
    MaxClock = 0
SYMMETRY RequestSymmetry
VIEW LifecycleView
CHECK_DEADLOCK FALSE
PROPERTIES ExpectedVersionIsHonoured
