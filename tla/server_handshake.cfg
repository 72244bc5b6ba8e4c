\* With SSL: a client that goes away before the handshake is over.
CONSTANTS
    MaxConns = 2
    MaxPipelined = 1
    MaxFaults = 0
    ConnIds <- MCConnIds
    SessionIds <- MCSessionIds
    RequestIds = {1}
    RequestKinds = {"request"}
    MaxUnanswered <- MCMaxUnanswered
    SSL = TRUE
    Nobody = Nobody
    Nothing = Nothing
SPECIFICATION ServerSpec
PROPERTY HandshakeFailureIgnored
CHECK_DEADLOCK FALSE
