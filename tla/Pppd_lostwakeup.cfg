SPECIFICATION Spec
CONSTANTS
    MAX_PPP_FAIL_LIMIT = 2
    MaxDials = 1
    MaxSessions = 1
    ForkMayFail = FALSE
    ReadersPoll = FALSE
    Requests = {"QUERY_SIM_STATUS", "DIAL_DATA_NETWORK", "DISCONNECT_DATA_NETWORK", "RESET_STACK"}
INVARIANTS
    WaitsForPppd
CHECK_DEADLOCK FALSE
