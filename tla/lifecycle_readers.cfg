SPECIFICATION ReadersSpec
CONSTANTS
    Null = Null
    Videos = {v1}
    Requests = {r1, r2}
    Jobs = {j1, j2}
    EmittedTimes = {0, 1, 2}
    Outputs = {p1}
    Encodings = {}
    Tags = {}
    Originals = {o1}
    ExpectVersion = {FALSE}
    MaxVersion = 4
    MaxClock = 1
    Viewers = {u1, u2}
    Likers = {l1, l2}
SYMMETRY MCSymmetry
VIEW DetailsView
ACTION_CONSTRAINT LikesLast
CHECK_DEADLOCK FALSE
INVARIANTS OutboxTellsRow AnswerMovesForward LikeIsCountedUnlessMoved
PROPERTIES FreshEventsAreOrdered FreshReportsMoveForward
