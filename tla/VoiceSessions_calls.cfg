SPECIFICATION Spec
CONSTANTS
    Conn = {c1, c2, c3}
    User = {u1, u2}
    c3 = c3
    u1 = u1
    u2 = u2
    UserOf <- MCUserOf
    Channel = {a}
    None = None
    SfuCap = 1
    Backlog = 2
    Toggles <- MCToggles
    talker = nobody
SYMMETRY VoiceSymmetry
INVARIANTS
    SessionIndex
    
PROPERTIES
    SessionEndsWithLast
CHECK_DEADLOCK FALSE
