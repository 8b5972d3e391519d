SPECIFICATION LeSpec
CONSTANTS
    d1 = d1
    d2 = d2
    d3 = d3
    N = 2
    Dev = {d1, d2, d3}
    NoDev = NoDev
    LtkOnly = {d3}
    Torn = Torn
    MaxFaults = 1
SYMMETRY Symmetry
VIEW View
INVARIANTS
    IdentMatches
    NoLockOut
