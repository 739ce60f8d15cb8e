\* Every fault, a full window, a byte limit on each side.
SPECIFICATION FairSpec
CONSTANTS
    Chunk = {1, 2}
    NoChunk = NoChunk
    Bytes <- MCBytes
    MaxChunks = 3
    SendWindow = 2
    RecvWindow = 2
    CloseCheckAfterMisses = 2
    SendLimit = 5
    RecvLimit = 4
    Faults <- AllFaults
INVARIANTS TypeOK DeliveredInOrder WindowBound AckSound CloseAfterData LimitsRespected
PROPERTIES ObjectsMoveForward ImplementsPipe ReceiverEnds
