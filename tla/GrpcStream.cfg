CONSTANTS
    MaxReq = 2
    MaxResp = 4
SPECIFICATION Spec
INVARIANTS TypeOK PanicExplained
PROPERTIES SendsGetOut RequestEnds
CHECK_DEADLOCK FALSE
