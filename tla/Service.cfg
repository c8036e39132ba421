SPECIFICATION Spec
CONSTANTS
    Clients = {a, b}
    MaxLife = 2
    MaxRound = 2
INVARIANTS
    AtMostLastLost
    RefusedOnlyOvertime
PROPERTIES
    SignalEnds
