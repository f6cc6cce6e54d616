SPECIFICATION FairSpec
CONSTANTS
    Notifiers = {mainLoop}
    Kinds = {"QUERY_SIGNAL_STRENGTH", "DIAL_DATA_NETWORK", "RESET_STACK", "SET_PPPD_AUTH", "QUERY_SIM_STATUS", "DISCONNECT_DATA_NETWORK", "QUERY_IMEI"}
    NotifierStates = {"UNAVAILABLE", "SIM_READY"}
    MaxClients = 2
    MaxRequests = 2
    MaxNotices = 1
    Fds = {1, 2}
INVARIANTS
    Framed
    ToldNewest
    ChangesInOrder
    PendingAccounted
PROPERTIES
    ServesInOrder
    DispatchReturns
CHECK_DEADLOCK FALSE
