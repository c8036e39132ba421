SPECIFICATION Spec
CONSTANTS
    Word = 64
    Retention = 2
    MaxLimit = 3
    DefaultLimit = 2
    MaxHours = 10
    DefaultHours = 2
    Windows = {1, 2}
    Times <- SetClock
    Start = 4
    MaxFaults = 2
INVARIANTS
    TypeOK
    QueryReachesPresent
PROPERTIES
    KeepsRetained
    PruneHalves
    ImplementsLog
    ExpiredPruned
