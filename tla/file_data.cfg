SPECIFICATION Spec
CONSTANTS
    HANDLES = 10
    Reserved = 6
    Fds = {0, 1, 2, 3, 4, 5}
    Files = {"A"}
    Stdin = "stdin"
    Stdout = "stdout"
    Bytes = {0, 1}
    Zero = 0
    BUFSIZ = 2
    Named = {6, 10}
    MaxOpen = 1
    MaxLen = 4
    Offsets = {0, 1}
INVARIANT TypeOK
 
CHECK_DEADLOCK FALSE
