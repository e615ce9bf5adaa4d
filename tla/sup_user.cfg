SPECIFICATION Spec
CONSTANTS
    Code <- LowCode
    Magic = 2
    HalfWord = 16
    ISP = 6
    USP = 10
    Regs = {0, 1}
    Results = {0, 1}
    CallerModes = {0}
    MaxDepth = 1
INVARIANT TypeOK
 
INVARIANT ModeIsRight
PROPERTY SupexecReturns
PROPERTY RtsReachesMagic
PROPERTY ControlComesBack
