SPECIFICATION Spec
CONSTANTS
    Word = 64
    Retention = 3
    MaxLimit = 3
    DefaultLimit = 2
    MaxHours = 10
    DefaultHours = 2
    Windows = {1, 2}
    Times <- UnsetClock
    Start = 5
    MaxFaults = 1
PROPERTY
    KeepsRetained
