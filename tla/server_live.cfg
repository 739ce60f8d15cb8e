\* Three sessions for one slot, undecodable requests among them, one restart.
SPECIFICATION FairServerSpec
CONSTANTS
    Sessions = {1, 2, 3}
    MaxSessions = 1
    PageSize = 1
    Requests <- EveryKind
    MaxRestarts = 1
    MaxLost <- FirstLost
    Faults = {"dial", "crash"}
PROPERTIES EveryRequestTaken EveryClientAnswered
