SPECIFICATION TgmdFairSpec
CONSTANTS
    MAX_PPP_FAIL_LIMIT = 1
    MaxDials = 1
    MaxSessions = 1
    ForkMayFail = FALSE
    ReadersPoll = FALSE
    Requests = {"DIAL_DATA_NETWORK", "DISCONNECT_DATA_NETWORK"}
    MaxUevents = 3
    ExecMayFail = TRUE
PROPERTIES
    DeathNoticed
    UeventsHandled
CHECK_DEADLOCK FALSE
