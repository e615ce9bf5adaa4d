SPECIFICATION Spec
CONSTANTS
    HANDLES = 7
    Reserved = 6
    Fds = {0, 1, 2, 3, 4}
    Files = {"A", "B"}
    Stdin = "stdin"
    Stdout = "stdout"
    Bytes = {0, 1}
    Zero = 0
    BUFSIZ = 1
    Named = {0, 2, 6, 7}
    MaxOpen = 3
    MaxLen = 1
    Offsets = {}
INVARIANT HandlesOwnStreams
PROPERTY LeaksOnlyWhenFull
PROPERTY ImplementsOpenFiles
CHECK_DEADLOCK FALSE
