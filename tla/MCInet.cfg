SPECIFICATION Spec
CONSTANTS
    None = None
    Dropped = Dropped
    Broadcast = Broadcast
    Unbound = Unbound
    Wild = Wild
    Local = Local
    InPop = InPop
    Fresh = Fresh
    A = A
    B = B
    X = X
    q1 = q1
    q2 = q2
    u1 = u1
    u2 = u2
INVARIANTS DatagramsKept PingHasOwnReply PacketsUnderstood  OneBackendEach
PROPERTIES  PolicyCountsTrue
CHECK_DEADLOCK FALSE
