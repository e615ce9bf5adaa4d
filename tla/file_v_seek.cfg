SPECIFICATION Spec
CONSTANTS
    HANDLES = 10
    Reserved = 6
    Fds = {0, 1, 2, 3, 4, 5, 6}
    Files = {"A", "B", "C", "D"}
    Stdin = "stdin"
    Stdout = "stdout"
    Bytes = {0}
    Zero = 0
    BUFSIZ = 1
    Named = {6, 7}
    MaxOpen = 4
    MaxLen = 0
    Offsets = {1}
PROPERTY SeekMovesItsFile
CHECK_DEADLOCK FALSE
