SPECIFICATION Spec
CONSTANTS
    a1 = a1
    a2 = a2
    b = b
    p1 = p1
    p2 = p2
    Client = {a1, a2, b}
    Pid = {p1, p2}
    PidOf <- MCPidOf
    None = None
    WsCap = 2
    MaxDrops = 1
    Sharers = {b}
SYMMETRY SfuSymmetry
INVARIANTS
    NegotiationConsistent
    NoTrackForgotten
    EveryoneIsSeen
CHECK_DEADLOCK FALSE
