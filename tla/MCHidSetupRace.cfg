SPECIFICATION Spec
CONSTANTS
    SdpSize = 3
    PnpSize = 1
    MaxChunk = 2
    MaxChunks = 2
PROPERTIES
    ParsesAvailable
