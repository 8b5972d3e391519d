SPECIFICATION FairSpec
CONSTANTS
    a1 = a1
    a2 = a2
    a3 = a3
    NoAddr = NoAddr
    NewBond = a3
    Config <- Table
    Bonds <- Keys
    MaxRetry = 1
    ErrBound = 3
    RtBound = 2
    TxqCap = 1
CHECK_DEADLOCK FALSE
INVARIANTS
    EachStepOnce
    AcceptLoaded
PROPERTIES
    ConfigEnds
