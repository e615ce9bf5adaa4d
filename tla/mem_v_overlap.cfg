SPECIFICATION Spec
CONSTANTS
    LowTPA = 2
    BasePageLen = 1
    TESize = 4
    WordSize = 10
    MaxAreas = 3
CHECK_DEADLOCK FALSE
INVARIANT NeverOverlap
