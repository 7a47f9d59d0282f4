SPECIFICATION Spec
CONSTANTS
    Conn = {c1, c2, c3}
    None = None
    MaxEvents = 2
    MaxBytes = 2
    OutCap = 1
    MaxPublish = 3
    SizeOf <- MCSizeOf
    HalfOpen = FALSE
SYMMETRY ConnSymmetry
INVARIANTS
    BufferIsTailOfLog
    ExactlyOnceInSession
PROPERTIES
    NoLiveSessionReaped
    ImplementsStream
CHECK_DEADLOCK FALSE
