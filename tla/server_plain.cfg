\* Without SSL: what the clients can count on, with a failure of the network or an accept.
CONSTANTS
    MaxConns = 2
    MaxPipelined = 1
    MaxFaults = 1
    ConnIds <- MCConnIds
    SessionIds <- MCSessionIds
    RequestIds = {1}
    RequestKinds = {"request", "header"}
    MaxUnanswered <- MCMaxUnanswered
    SSL = FALSE
    Nobody = Nobody
    Nothing = Nothing
SPECIFICATION ServerSpec
INVARIANT StaysUp
PROPERTIES EveryConnectionAccepted EveryRequestAnswered SessionsReleased
CHECK_DEADLOCK FALSE
