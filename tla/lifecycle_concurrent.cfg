SPECIFICATION WritersSpec
CONSTANTS
    Null = Null
    Videos = {v1}
    Requests = {r1, r2}
    Jobs = {}
    EmittedTimes = {1}
    Outputs = {}
    Encodings = {}
    Tags = {}
    Originals = {}
    ExpectVersion = {FALSE}
    MaxVersion = 5
    MaxClock = 0
    Viewers = {}
    Likers = {}
SYMMETRY RequestSymmetry
VIEW WritersView
ACTION_CONSTRAINT YoungOrReady
CHECK_DEADLOCK FALSE
INVARIANTS TypeOK StatusAgreesUnlessRaced
PROPERTIES EveryCommitTakesOneVersion PublishedStaysServedUnlessRaced
