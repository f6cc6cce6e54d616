SPECIFICATION Spec
CONSTANTS
    MAX_PPP_FAIL_LIMIT = 2
    MaxDials = 2
    MaxSessions = 2
    ForkMayFail = TRUE
    ReadersPoll = TRUE
    Requests = {"QUERY_SIM_STATUS", "DIAL_DATA_NETWORK", "DISCONNECT_DATA_NETWORK", "RESET_STACK"}
INVARIANTS
    HandedOver
    Outcome
    CloseNotMissed
CHECK_DEADLOCK FALSE
