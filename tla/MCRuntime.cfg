SPECIFICATION Spec
CONSTANTS
    None = None
    t1 = t1
    t2 = t2
    n1 = n1
    n2 = n2
    n3 = n3
    n4 = n4
    s1 = s1
    s2 = s2
INVARIANTS CollectionsOrdered ProfileTrue
PROPERTIES  RingIsQueue  ChangesSeen RegionsReleased AllAnswered
CHECK_DEADLOCK FALSE
