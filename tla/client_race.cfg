\* Nothing fails: the last item arrives between the two halves of listen()'s check.
CONSTANTS
    MaxLines = 2
    LineKinds = {"record"}
    Inputs = {FALSE}
    Files <- MCFiles
    MaxFaults = 0
    ConnIds <- MCConnIds
    SSL = FALSE
SPECIFICATION ClientSpec
PROPERTY ReturnsOnlyWhenDrained
CHECK_DEADLOCK FALSE
