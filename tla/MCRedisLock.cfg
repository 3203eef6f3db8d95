CONSTANTS
    a1 = a1
    a2 = a2
    b1 = b1
    pa = pa
    pb = pb
    None = None
    Proc <- Procs
    Go <- Gos
    Home <- Homes
    Overrun = FALSE
    MaxLocks = 2
SPECIFICATION Spec
INVARIANTS TypeOK Exclusion SlHeld
PROPERTY OnlyOwnProcess
CHECK_DEADLOCK FALSE
