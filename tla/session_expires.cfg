\* The client finishes sending and dies while the server waits for its ACK.
SPECIFICATION FairSessionSpec
CONSTANTS
    Chunk = {1}
    NoChunk = NoChunk
    Bytes <- MCBytes
    UpChunks = 1
    DnChunks = 2
    CliWindow = 1
    SrvWindow = 1
    CloseCheckAfterMisses = 1
    SrvLimit = 0
    Faults = {"timeout", "crash"}
PROPERTIES SessionExpires
