SPECIFICATION Spec
CONSTANTS
    Conn = {c1, c2}
    None = None
    MaxEvents = 1
    MaxBytes = 2
    OutCap = 1
    MaxPublish = 1
    SizeOf <- MCSizeOf
    HalfOpen = TRUE
SYMMETRY ConnSymmetry
PROPERTY NoLiveSessionReaped
CHECK_DEADLOCK FALSE
