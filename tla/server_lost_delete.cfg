\* One session whose DELETE fails once, and no other fault.
SPECIFICATION ServerSpec
CONSTANTS
    Sessions = {1}
    MaxSessions = 1
    PageSize = 1
    Requests <- OnlyValid
    MaxRestarts = 0
    MaxLost <- FirstLost
    Faults = {}
INVARIANTS DialledAtMostOnce
