SPECIFICATION PageSpec
CONSTANTS
    Ranges = {hour, week}
    Slots = {a, b, c}
    MaxSnapshot = 2
INVARIANTS
    ChartsAgree
PROPERTIES
    ChartsSettle
