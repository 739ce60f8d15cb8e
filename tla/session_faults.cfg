\* Every fault in both directions, with a byte limit on the server; and two
\* connections, so that one session's calls interleave with the other's, a
\* snapshot and the server's reports.
SPECIFICATION Spec
CONSTANTS
    Session = {a, b}
    Chunk = {1, 2}
    NoChunk = NoChunk
    Bytes <- MCBytes
    UpChunks = 1
    DnChunks = 1
    CliWindow = 1
    SrvWindow = 1
    CloseCheckAfterMisses = 1
    SrvLimit = 1
    Faults = {"store", "socket"}
INVARIANTS CleanReturn SessionsAccounted NothingRemembered OneReply SnapshotCoversSamples
