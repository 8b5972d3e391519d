SPECIFICATION Spec
CONSTANTS
    a1 = a1
    a2 = a2
    a3 = a3
    a4 = a4
    k1 = k1
    k2 = k2
    N = 2
    Dev = {a1, a2, a3}
    NoDev = NoDev
    Key = {k1, k2}
    NoKey = NoKey
    Torn = Torn
    NegReply = NegReply
SYMMETRY Symmetry
INVARIANTS
    KeysGenuine
PROPERTIES
    ImplementsBondList
