CONSTANTS
    s1 = s1
    s2 = s2
    Nobody = Nobody
    Service = {s1, s2}
    Http = {s2}
    MaxProc = 2
    MaxSignals = 1
    MaxRequests = 1
    Sent = {"HUP"}
    EarlySignals = FALSE
    Failing = {}
SPECIFICATION Spec
CHECK_DEADLOCK FALSE
PROPERTY ChildTakesOver
