CONSTANTS
    r1 = r1
    r2 = r2
    w1 = w1
    w2 = w2
    None = None
    Reader = {r1, r2}
    Writer = {w1, w2}
    Configs <- SomeConfigs
    MaxConnNum = 1
    Runtimes = {0, 1, 9}
    TRANSACTION_MAX_RUNTIME = 2
    MaxServed = 8
    Bits = 6
    Crc <- SomeCrc
    DateOf <- SomeDates
SPECIFICATION Spec
INVARIANTS TypeOK Balanced KeyTypesAgree DateRouting RangeRouting
PROPERTY TxEnds
CHECK_DEADLOCK FALSE
