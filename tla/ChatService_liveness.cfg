SPECIFICATION ServiceSpec
CONSTANTS
    Conn = {c1, c2}
    None = None
    MaxEvents = 1
    MaxBytes = 2
    OutCap = 1
    MaxPublish = 2
    SizeOf <- MCSizeOf
    HalfOpen = FALSE
    Users = {u}
    Rooms = {r, d}
    Groups = {admins, everyone, guests}
    Direct = {d}
    Partners <- MCPartners
    Admins = admins
    Everyone = everyone
    Checks = {k1}
    MaxChanges = 1

    
PROPERTIES
    DeadHandlersFinish
    DispatchedIsDelivered
    AccessSettles
CHECK_DEADLOCK FALSE
