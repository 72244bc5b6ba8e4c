\* A client, with SSL, fed by a file or by std::cin, with up to two failures.
CONSTANTS
    MaxLines = 2
    LineKinds = {"record", "malformed"}
    Inputs = {TRUE, FALSE}
    Files <- MCFiles
    MaxFaults = 2
    ConnIds <- MCConnIds
    SSL = TRUE
SPECIFICATION ClientSpec
INVARIANTS
    ClientTypeOK QueueNeverEmptyWhenUsed InOrderExactlyOnce ResponseMatchesRequest
    ExecutionsAccounted FailuresAccounted ReturnsOnlyAtEnd ClientInv
PROPERTIES AllSeenIsAnswered ImplementsDelivery FileClientEnds EveryItemAnswered
CHECK_DEADLOCK FALSE
