SPECIFICATION Spec
CONSTANTS
    None = None
    x1 = x1
    x2 = x2
    x3 = x3
    y1 = y1
    y2 = y2
    z = z
    s1 = s1
    s2 = s2
INVARIANTS   RequestsAnswered
PROPERTIES TimersFire 
CHECK_DEADLOCK FALSE
