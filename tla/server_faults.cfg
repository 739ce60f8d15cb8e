\* Three sessions for two slots, two keys per page, every fault.
SPECIFICATION ServerSpec
CONSTANTS
    Sessions = {1, 2, 3}
    MaxSessions = 2
    PageSize = 2
    Requests <- OneInvalid
    MaxRestarts = 1
    MaxLost <- FirstLost
    Faults = {"store", "dial", "timeout", "socket", "crash"}
INVARIANTS ServerTypeOK SlotsAccounted InFlightExact DialsAccounted VerdictHonest
