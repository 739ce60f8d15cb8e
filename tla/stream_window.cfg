\* No faults: the flow-control loop, with the ACK interval equal to the window.
SPECIFICATION FairSpec
CONSTANTS
    Chunk = {1}
    NoChunk = NoChunk
    Bytes <- MCBytes
    MaxChunks = 6
    SendWindow = 2
    RecvWindow = 4
    CloseCheckAfterMisses = 2
    SendLimit = 0
    RecvLimit = 0
    Faults = {}
INVARIANTS NoWindowDeadlock
PROPERTIES EveryChunkArrives
