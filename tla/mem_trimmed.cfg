SPECIFICATION TrimmedSpec
CONSTANTS
    LowTPA = 2
    BasePageLen = 1
    TESize = 6
    WordSize = 16
    MaxAreas = 4
CHECK_DEADLOCK FALSE
INVARIANT WellFormed
INVARIANT QueryExact
PROPERTY FreedSpaceReusable
PROPERTY ImplementsArena
