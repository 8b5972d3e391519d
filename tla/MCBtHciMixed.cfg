SPECIFICATION FairSpec
CONSTANTS
    b1 = b1
    b2 = b2
    b3 = b3
    l1 = l1
    l2 = l2
    NoAddr = NoAddr
    MaxDev = 2
    MaxRetry = 3
    Addr = {b1, l1}
    LeAddr = {l1}
    Handle = {0, 1, 2}
    LeHandle = {0, 1}
    LeLowest = TRUE
    InqAuto = TRUE
    InquiryMax = 1
    NameBound = 1
INVARIANTS
    InquiryWhenIdle
    ConfRouted
PROPERTIES
    SlotNotTaken
    Resolved
