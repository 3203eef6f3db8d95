CONSTANTS
    m1 = m1
    m2 = m2
    Mutex <- TwoMutexes
    NPools = 1
    Expiry = 3
    Drift = 2
    Slack = 1
    Skew = 1
    Tries = 2
    Delay = 1
    LateKinds = {"release"}
    Calls = {"unlock","extend"}
    NoVal = NoVal
    MaxTime = 5
    MaxValues = 1
    MaxFlight = 1
SPECIFICATION Spec
CHECK_DEADLOCK FALSE
INVARIANT MutualExclusion
