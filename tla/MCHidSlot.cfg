SPECIFICATION FairSpec
CONSTANTS
    RetryMax = 1
    MaxReport = 3
    NameSize = 32
    OurMtu = 40
    MaxQueue = 3
    MaxPlugs = 2
    Sessions <- MCSessions
INVARIANTS
    MapWhole
    InBounds
    Routed
    Configured
    Sw2Bonded
PROPERTIES
    Discovered
    Settles
CHECK_DEADLOCK FALSE
