SPECIFICATION AclSpec
CONSTANTS
    c1 = c1
    c2 = c2
    c3 = c3
    Conn = {c1, c2, c3}
    MaxFrags = 3
    BufCap = 6
SYMMETRY Symmetry
INVARIANTS
    UntornIntact
    OffsetInFrame
