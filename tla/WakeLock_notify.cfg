SPECIFICATION FairSpec
CONSTANTS
    Notifiers = {mainLoop, reader}
    Addresses = {a, b, c, d}
    MaxNotices = 3
    MaxOthers = 1
INVARIANTS
    TypeOK
    NotLeaked
    HeldUntilNewest
PROPERTY
    WakeReleased
CHECK_DEADLOCK FALSE
