\* No faults: the close marker overtakes data between a miss and the HEAD.
SPECIFICATION Spec
CONSTANTS
    Chunk = {1}
    NoChunk = NoChunk
    Bytes <- MCBytes
    MaxChunks = 2
    SendWindow = 2
    RecvWindow = 2
    CloseCheckAfterMisses = 2
    SendLimit = 0
    RecvLimit = 0
    Faults = {}
INVARIANT CloseLosesNothing
