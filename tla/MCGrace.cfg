CONSTANTS
    s1 = s1
    s2 = s2
    Nobody = Nobody
    Service = {s1, s2}
    Http = {s2}
    MaxProc = 3
    MaxSignals = 3
    MaxRequests = 2
    Sent = {"HUP", "INT", "TERM"}
    EarlySignals = TRUE
    Failing = {s1}
SPECIFICATION Spec
INVARIANTS TypeOK ServedIsRegistered DeregisteredFirst OneChild OnlyStopCuts
PROPERTIES HeardStops ReloadKeepsServing
CHECK_DEADLOCK FALSE
