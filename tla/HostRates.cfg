SPECIFICATION Spec
CONSTANTS
    Names = {eth0}
    Word = 64
    MaxTicks = 4
    MaxFall = 2
    MaxBytes = 2
    MaxRound = 4
INVARIANTS
    NoByteTwice
PROPERTIES
    CPUPercentExact
    ThroughputExact
