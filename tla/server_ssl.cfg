\* With SSL: requests and messages that no build of this client sends, two of them on their
\* way at once on one connection, and a failure that may be one to create a session.
CONSTANTS
    MaxConns = 2
    MaxPipelined = 2
    MaxFaults = 1
    ConnIds <- MCConnIds
    SessionIds <- MCSessionIds
    RequestIds = {1}
    RequestKinds = {"request", "size", "body"}
    MaxUnanswered <- MCMaxUnanswered
    SSL = TRUE
    Nobody = Nobody
    Nothing = Nothing
SPECIFICATION ServerSpec
INVARIANTS ServerTypeOK RequestsAccounted OneOperationEach OneSessionEach OnlyRequestsAnswered
\* At rest once every client has come and gone.
CHECK_DEADLOCK FALSE
