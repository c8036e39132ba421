SPECIFICATION Spec
CONSTANTS
    Files = {0, 3}
    Variables = {0, 2}
    Name = 9
    Devices <- MCDevices
    Indexes <- MCIndexes
INVARIANTS
    MemoryOfOneReading
    OrderFree
    LatestReading
