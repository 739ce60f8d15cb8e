\* Half-closes in every order; either process may die at any point; time passes.
SPECIFICATION FairSessionSpec
CONSTANTS
    Chunk = {1}
    NoChunk = NoChunk
    Bytes <- MCBytes
    UpChunks = 1
    DnChunks = 2
    CliWindow = 1
    SrvWindow = 1
    CloseCheckAfterMisses = 1
    SrvLimit = 0
    Faults = {"timeout", "crash"}
INVARIANTS NoCancelWithoutFault
PROPERTIES GracefulEnd CrashEndsSession
