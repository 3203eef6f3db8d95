CONSTANTS
    a1 = a1
    p1 = p1
    p2 = p2
    None = None
    Addr = {a1}
    Pub = {p1, p2}
    Cap = 2
    Answers <- Lookups
    Faults = {"lookup", "connect", "publish"}
    Closing = TRUE
    MaxPolls = 3
    MaxPublish = 2
SPECIFICATION Spec
INVARIANTS TypeOK Conserved
PROPERTY PublishReturns
CHECK_DEADLOCK FALSE
