SPECIFICATION FairSpec
CONSTANTS
    CmdThreads = {dispatch}
    Types = {"ANYLINE"}
    HANDSHAKE_RETRY_COUNT = 2
    USE_NP = TRUE
    EagerReopen = FALSE
    Redial = FALSE
    MaxSessions = 1
    MaxCommands = 4
    MaxInfo = 0
    MaxUnsolicited = 0
INVARIANT
    InSync
PROPERTIES
    CommandReturns
    HandshakeReturns
    SessionEnds
CHECK_DEADLOCK FALSE
