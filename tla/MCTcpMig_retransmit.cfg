SPECIFICATION Spec
CONSTANTS
    Server = {p0, p1}
    Client = {c1}
    Qd = {q1, q2}
    P0 = p0
    P1 = p1
    None = None
    MaxSeg = 2
    MaxInit = 1
    MaxClose = 1
    MaxLose = 0
    MaxRetx = 1
    MaxApp = 0
    Fifo = FALSE
    Budget <- MCBudget
INVARIANTS ReadInOrder
CHECK_DEADLOCK FALSE
