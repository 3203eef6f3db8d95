CONSTANTS
    a1 = a1
    a2 = a2
    b1 = b1
    pa = pa
    pb = pb
    None = None
    Proc <- OneProc
    Go <- TwoGos
    Home <- OneHome
    Overrun = FALSE
    MaxLocks = 2
SPECIFICATION FairSpec
PROPERTY LockReturns
CHECK_DEADLOCK FALSE
