SPECIFICATION Spec
CONSTANTS
    b1 = b1
    b2 = b2
    b3 = b3
    l1 = l1
    l2 = l2
    NoAddr = NoAddr
    MaxDev = 2
    MaxRetry = 2
    Addr = {b1, b2, b3}
    LeAddr = {}
    Handle = {0, 1}
    LeHandle = {}
    LeLowest = TRUE
    InqAuto = TRUE
    InquiryMax = 1
    NameBound = 1
SYMMETRY Symmetry
INVARIANTS
    UniqueAddr
    HandleRouting
