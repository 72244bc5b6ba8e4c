\* Both programs, without SSL: a client that is given one record, another client that
\* comes, sends part of a message or nothing, and goes, and a failure of any kind.
CONSTANTS
    NumLines = 1
    MaxOthers = 1
    Files <- MCFiles
    MaxFaults = 1
    OtherConns <- MCOtherConns
    ConnIds <- MCConnIds
    SessionIds <- MCSessionIds
    RequestIds = {1}
    RequestKinds = {}
    MaxUnanswered <- MCMaxUnanswered
    SSL = FALSE
    Nobody = Nobody
    Nothing = Nothing
SPECIFICATION SystemSpec
PROPERTIES SessionsServeClient FileClientEnds
\* At rest once every client has come and gone.
CHECK_DEADLOCK FALSE
