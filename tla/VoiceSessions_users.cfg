SPECIFICATION FairSpec
CONSTANTS
    Conn = {c1, c2}
    User = {u1}
    c3 = c3
    u1 = u1
    u2 = u2
    UserOf <- MCUserOf
    Channel = {a}
    None = None
    SfuCap = 1
    Backlog = 1
    Toggles <- MCToggles
    talker = c1
INVARIANTS
    MicMarkFollowsMic
PROPERTIES
    NoGhosts
CHECK_DEADLOCK FALSE
