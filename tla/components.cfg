\* One instance of every component around the tunnel.  The streams of bytes,
\* the page of LIST and the bucket are just large enough for a chunk to be cut
\* short in every way and for a second page; the lengths and int widths of the
\* envelope are scaled down together.
SPECIFICATION Spec
CONSTANTS
    MaxBytes = 3
    StreamBytes = 5
    PollMin = 1
    PollMax = 3
    MaxNotes = 4
    Caller = {cleaner, doctor, tunnel}
    Cleaner = cleaner
    Doctor = doctor
    Tunnel = tunnel
    Key = {0, 1, 2}
    DoctorKey = 0
    MaxKeys = 1
    MaxFaults = 1
    Rounds = 2
    MaxWrites = 2
    IP = {"public", "other", "private"}
    Unsafe = {"private"}
    RawRules <- MCRawRules
    Targets <- MCTargets
    PrefixSegments = {"", ".", "..", "app", "my app", "v1"}
    MaxPrefix = 2
    SessionID = {"s1", "s2"}
    DataSeqs = {0, 1, 2}
    SealSessions = {"s1", "s2"}
    SealSeqs = {0, 1}
    Lengths = {0, 11, 12, 16, 24, 40, 41, 488, 511, 512, 1000, 1023}
    HalfWords = {512, 1048576}
    ChunkSizes <- MCChunkSizes
    Durations <- MCDurations
    Counts <- MCCounts
    Providers = {"", "yc", "minio", "custom", "aws", "other"}
    Regions = {"", "us-east-1", "ru-central1", "ru-central1-a", "eu"}
    Endpoints = {"", "storage.yandexcloud.net", "127.0.0.1:9000", "other"}
INVARIANTS
    AggregationLossless ReadReportsTruly SignalsCountOnce
    CleanupComplete DoctorHonest DialledIsPermitted
    KeysReadBack ObjectsBoundToSlot SlicesInBounds
    SettingsEffective PresetsAgree
PROPERTIES ArrivedIsFlushed CleanupEnds
CHECK_DEADLOCK FALSE
