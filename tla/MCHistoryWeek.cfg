SPECIFICATION Spec
CONSTANTS
    Word = 64
    Retention = 5
    MaxLimit = 3
    DefaultLimit = 2
    MaxHours = 10
    DefaultHours = 2
    Windows = {1, 2, 4}
    Times <- SetClock
    Start = 5
    MaxFaults = 0
INVARIANT
    QueryReachesPresent
