CONSTANTS
    Slots = {0, 1}
    Sessions <- MCSessions
    InCfg <- MCInCfg
SPECIFICATION PathSpec
CHECK_DEADLOCK FALSE
INVARIANTS
    DecodeSafe
    Faithful
    NoStuck
    InRange
