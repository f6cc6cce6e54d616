SPECIFICATION FairSpec
CONSTANTS
    MAX_PPP_FAIL_LIMIT = 2
    MaxDials = 2
    MaxSessions = 2
    ForkMayFail = FALSE
    ReadersPoll = FALSE
    Requests = {"DIAL_DATA_NETWORK", "DISCONNECT_DATA_NETWORK"}
PROPERTIES
    PollingEnds
    DeathNoticed
    FailedIsGone
CHECK_DEADLOCK FALSE
