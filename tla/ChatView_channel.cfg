SPECIFICATION Spec
CONSTANTS
    f1 = f1
    f2 = f2
    File = {f1, f2}
    MaxOwn = 2
    MaxLives = 2
    Bounds <- MCBounds
    None = None
INVARIANTS
    LiveShownOnce
    NothingWrittenIsLost
    LiveUnreadCounted
    TypingEnds

    
CHECK_DEADLOCK FALSE
