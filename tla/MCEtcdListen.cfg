CONSTANTS
    w1 = w1
    w2 = w2
    n1 = n1
    n2 = n2
    f1 = f1
    f2 = f2
    v1 = v1
    v2 = v2
    Bad = Bad
    None = None
    Key <- Keys
    Node <- Nodes
    Ver <- Vers
    File <- Files
    Conf <- Confs
    Cases <- Growing
    Faults = TRUE
    Changes <- Moves
    MaxEvents = 2
    Watchers <- Goroutines
SPECIFICATION Spec
INVARIANTS TypeOK MapsAgree OneWatcher
PROPERTY Settles
CHECK_DEADLOCK FALSE
