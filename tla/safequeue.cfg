\* Four items through four cells, which are used again in every order.
CONSTANTS
    MaxPushes = 4
    Cells = {c1, c2, c3, c4}
    Garbage = Garbage
SPECIFICATION SafeQueueSpec
INVARIANTS SafeQueueTypeOK NoDataRace
PROPERTIES ImplementsAtomicQueue MutexReleased EveryItemSeen
