SPECIFICATION Spec
CONSTANTS
    Null = Null
    u1 = u1
    u2 = u2
    Users = {u1, u2}
    Messages = {m1, m2, m3}
    Times = {1, 2}
    Happened <- MCHappened
    Workers = {w1, w2}
    MaxFailures = 1
CHECK_DEADLOCK FALSE
INVARIANTS OnlyNewestIsKept
