SPECIFICATION Spec
CONSTANTS
    Workers = {"host", "snmp", "pcie"}
    Capacity = 4
    Reports <- FewReports
    MaxRound = 2
INVARIANTS
    TypeOK
    NoSilentLoss
    HostWins
    RoundJoined
PROPERTIES
    ImplementsFeed
    ShutdownReturns
    SamplingGoesOn
