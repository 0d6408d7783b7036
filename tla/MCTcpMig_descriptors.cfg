SPECIFICATION Spec
CONSTANTS
    Server = {p0, p1}
    Client = {c1, c2}
    Qd = {q1, q2}
    P0 = p0
    P1 = p1
    None = None
    MaxSeg = 0
    MaxInit = 2
    MaxClose = 1
    MaxLose = 0
    MaxRetx = 0
    MaxApp = 1
    Fifo = FALSE
    Budget <- MCBudget
SYMMETRY Symmetry
INVARIANTS Inductive AppStateWithConnection
CHECK_DEADLOCK FALSE
