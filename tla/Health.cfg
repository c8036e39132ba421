SPECIFICATION Spec
CONSTANTS
    Interval = 47
    Limit = 120
    MaxRun = 36
INVARIANTS
    HealthyWhileSampling
PROPERTIES
    StallDetected
    RecoversAfterStall
