CONSTANTS
    MaxLines = 2
    LineKinds = {"record", "malformed"}
    Lengths = {TRUE, FALSE}
    Files <- MCFiles
    MaxData = 0
SPECIFICATION PipeSpec
INVARIANT StopsOnlyAtEnd
CHECK_DEADLOCK FALSE
