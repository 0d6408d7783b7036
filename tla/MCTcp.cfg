SPECIFICATION Spec
CONSTANTS
    HalfSpace = 16
    None = None
    r1 = r1
    e1 = e1
    e2 = e2
    t1 = t1
    t2 = t2
    p1 = p1
    p2 = p2
SYMMETRY Symmetry
INVARIANTS ReceivedInOrder SenderAccounts OpenedAlike SocketTablesAgree NoLostWake
PROPERTIES StreamSurvivesMoves
CHECK_DEADLOCK FALSE
