CONSTANTS
    m1 = m1
    m2 = m2
    Mutex <- TwoMutexes
    NPools = 2
    Expiry = 2
    Drift = 1
    Slack = 0
    Skew = 1
    Tries = 2
    Delay = 1
    LateKinds = {"set", "touch"}
    Calls = {"unlock", "extend"}
    NoVal = NoVal
    MaxTime = 3
    MaxValues = 1
    MaxFlight = 1
SYMMETRY Symmetric
SPECIFICATION Spec
INVARIANTS TypeOK MutualExclusion QuorumHeld ExtendHolds
PROPERTIES OnlyOwnerChanges LeaseRefinement
CHECK_DEADLOCK FALSE
