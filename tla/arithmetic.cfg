SPECIFICATION Spec
CONSTANTS
    Nibble = 16
    Ten = 10
    Width <- MCWidth
    Parts <- MCParts
    Digits <- MCDigits
    Immediate = 2
INVARIANT MultiPrecision
INVARIANT BranchesDecide
INVARIANT FormsAgree
INVARIANT DivisionRebuilds
PROPERTY OneBitMore
CHECK_DEADLOCK FALSE
