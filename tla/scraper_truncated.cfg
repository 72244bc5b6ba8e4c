CONSTANTS
    MaxLines = 2
    LineKinds = {"record", "malformed", "truncated"}
    Lengths = {FALSE}
    Files <- MCFiles
    MaxData = 0
SPECIFICATION PipeSpec
INVARIANT OnlyRecordsScraped
CHECK_DEADLOCK FALSE
