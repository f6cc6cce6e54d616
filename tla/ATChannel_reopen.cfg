SPECIFICATION Spec
CONSTANTS
    CmdThreads = {dispatch}
    Types = {"NO_RESULT"}
    HANDSHAKE_RETRY_COUNT = 1
    USE_NP = TRUE
    EagerReopen = TRUE
    Redial = FALSE
    MaxSessions = 2
    MaxCommands = 1
    MaxInfo = 0
    MaxUnsolicited = 0
INVARIANT
    NoCrash
CHECK_DEADLOCK FALSE
