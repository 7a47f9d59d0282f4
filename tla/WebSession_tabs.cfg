SPECIFICATION SessionSpec
CONSTANTS
    Tabs = {t1, t2}
    MaxWork = 3
    MaxRenewals = 2
SYMMETRY TabSymmetry

    
PROPERTIES
    
    GuestIsTold
CHECK_DEADLOCK FALSE
