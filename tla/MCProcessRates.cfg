SPECIFICATION Spec
CONSTANTS
    Pids = {p1, p2}
    Word = 64
    MaxTicks = 3
    MaxStarts = 2
    MaxDips = 1
SYMMETRY PidSymmetry
PROPERTIES
    OwnTicks
    SharesAddUp
