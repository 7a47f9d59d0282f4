SPECIFICATION WebSpec
CONSTANTS
    MaxChannels = 3
    MaxChanges = 2
    Users = {u1}
    MaxEvents = 3
    MaxOpens = 2
    Bits = {b1, b2}
    MaxRoles = 3
    MaxDeeds = 3
    People = {p1, p2, p3}
    Me = Me
    PageSize = 2
    StripSize = 1
    MaxActs = 6
    None = None
    MaxStay = 2
    MaxWire = 2
    MaxAsks = 2
    Ranks = {0, 1, 2, 3}
    Default = 2
    NoGroup = NoGroup
    MaxSteps = 4
    Beat = 3
    Lag = 1
    MaxDialed = 3
INVARIANTS
    
    
    
    HeardAsSet
    CallShownAsItIs
    
    HeartbeatsJudgeRight
CHECK_DEADLOCK FALSE
