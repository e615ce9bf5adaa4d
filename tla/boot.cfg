SPECIFICATION Spec
CONSTANTS
    ByteBase = 3
    Blocks <- BlockNames
    Magic = "magicmem0"
    Layout <- SmallLayout
    Skip = 7
    Texts <- SmallTexts
    Tables <- SmallTables
    Garbage = {2}
    Vectors <- TrapVectors
    Functions <- SmallFunctions
    Behind <- SmallBehind
    Numbers = {0, 3, 4, 5, 6, 7, 8, 9}
    Sizes = {1, 2, 4}
    Places = {0, 5, 7, 8, 9, 11, 13, 15, 17, 41, 44, 79}
    Values = {1, 50}
    MaxAccesses = 2
    MaxInstructions = 1
CHECK_DEADLOCK FALSE
INVARIANT Relocated
INVARIANT ReadsBack
PROPERTY CallsReachTheirFunction
PROPERTY HaltEnds
PROPERTY ImplementsFlatMemory
