\* The detached scraper outlives the main thread.
CONSTANTS
    MaxLines = 2
    LineKinds = {"record"}
    Inputs = {FALSE}
    Files <- MCFiles
    MaxFaults = 0
    ConnIds <- MCConnIds
    SSL = FALSE
SPECIFICATION ClientSpec
INVARIANT QueueIndestructible
CHECK_DEADLOCK FALSE
