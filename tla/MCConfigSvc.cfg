SPECIFICATION Spec
CONSTANTS
    Devs = 2
    MappingMax = 3
    KbmMax = 1
    OldFits = 1
    NvsBank = 2
    NvsMap <- MCNvsMap
    Entry <- MCEntry
    AttMax = 2
    Mtus = {3}
    MaxMtu = 4
    Files <- MCFiles
    Edits <- MCEdits
    MaxOps = 2
    Blocks = 2
    BlockSize = 2
INVARIANTS ReadWhole Discovery CardReads
PROPERTIES Survives CutBounded UpgradeKeeps
CHECK_DEADLOCK FALSE
