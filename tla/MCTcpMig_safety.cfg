SPECIFICATION Spec
CONSTANTS
    Server = {p0, p1}
    Client = {c1}
    Qd = {q1, q2}
    P0 = p0
    P1 = p1
    None = None
    MaxSeg = 2
    MaxInit = 2
    MaxClose = 0
    MaxLose = 1
    MaxRetx = 0
    MaxApp = 0
    Fifo = FALSE
    Budget <- MCBudget
INVARIANTS SingleOwner AcknowledgedIsKept
PROPERTIES RefinesHandoff
CHECK_DEADLOCK FALSE
