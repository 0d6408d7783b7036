SPECIFICATION Spec
CONSTANTS
    Server = {p0, p1, p2}
    Client = {c1}
    Qd = {q1, q2}
    P0 = p0
    P1 = p1
    None = None
    MaxSeg = 1
    MaxInit = 3
    MaxClose = 0
    MaxLose = 0
    MaxRetx = 0
    MaxApp = 0
    Fifo = TRUE
    Budget <- MCBudget
INVARIANTS RoutingAgrees SegmentsFindTheConnection OnlyUsersPanic
CHECK_DEADLOCK FALSE
