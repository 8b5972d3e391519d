SPECIFICATION FairSpec
CONSTANTS
    SdpSize = 3
    PnpSize = 1
    MaxChunk = 2
    MaxChunks = 2
INVARIANTS
    DataComplete
PROPERTIES
    PinTyped
    AnswerMatches
    SetUp
