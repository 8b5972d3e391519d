SPECIFICATION FairSpec
CONSTANTS
    Slot = {1, 2}
    QCap = 3
    Dists = {{}, {"enc"}, {"enc", "id", "sign"}}
    MaxConn = 2
    MaxFail = 1
INVARIANTS
    QueuesMatched
    PairingSound
    DistributedLast
PROPERTIES
    Paired
