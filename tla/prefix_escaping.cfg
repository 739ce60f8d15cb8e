\* A prefix with a character that a URL escapes, and one without.
SPECIFICATION KeysSpec
CONSTANTS
    PrefixSegments = {"app", "my app"}
    MaxPrefix = 1
    SessionID = {"s1"}
    DataSeqs = {0}
INVARIANT OpenRequestFound
CHECK_DEADLOCK FALSE
