SPECIFICATION FairSpec
CONSTANTS
    Server = {p0, p1}
    Client = {c1}
    Qd = {q1, q2}
    P0 = p0
    P1 = p1
    None = None
    MaxSeg = 1
    MaxInit = 2
    MaxClose = 0
    MaxLose = 0
    MaxRetx = 0
    MaxApp = 0
    Fifo = TRUE
    Budget <- MCBudget
PROPERTIES MigrationArrives MigratedPopReturns
CHECK_DEADLOCK FALSE
