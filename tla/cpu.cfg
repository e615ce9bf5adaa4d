SPECIFICATION Spec
CONSTANTS
    ByteBits = 6
    Nibble = 8
    Ten = 5
    Rom <- MCRom
    Machines <- MCMachines
    Programs <- MCPrograms
    Answers <- MCAnswers
INVARIANT TypeOK
PROPERTY Meaning
PROPERTY FlagsTell
PROPERTY Footprint
PROPERTY ExceptionsSave
 
PROPERTY Sequential
CHECK_DEADLOCK FALSE
