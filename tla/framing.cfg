\* Both ends: bodies of every size, the last one too large, and three connections.
CONSTANTS
    HeaderLength = 2
    MaxSize = 2
    Sizes <- MCSizes
    MaxMessages = 4
    MaxConnections = 3
SPECIFICATION FramingSpec
INVARIANTS FramingTypeOK Aligned
PROPERTIES ImplementsChannel EveryMessageDelivered
CHECK_DEADLOCK FALSE
