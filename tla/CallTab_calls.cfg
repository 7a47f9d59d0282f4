SPECIFICATION Spec
CONSTANTS
    Channel = {room, dm1}
    Dm = {dm1}
    None = None
    MaxClients = 2
    MaxJoins = 1
    MaxPeer = 1
    Backlog = 1
INVARIANTS
    OneCallAtATime
PROPERTIES
    OnlyOwnKickEndsCall
    PeerEndsOnce
CHECK_DEADLOCK FALSE
