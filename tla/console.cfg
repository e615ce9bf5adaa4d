SPECIFICATION Spec
CONSTANTS
    Chars <- Letters
    NL <- Newline
    MaxLens = {1, 3}
    MaxPending = 4
INVARIANT TypeOK
INVARIANT TerminalRestored
INVARIANT YesMeansInput
PROPERTY ImplementsKeyboard
CHECK_DEADLOCK FALSE
