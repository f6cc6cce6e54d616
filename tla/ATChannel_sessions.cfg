SPECIFICATION Spec
CONSTANTS
    CmdThreads = {dispatch}
    Types = {"ANYLINE", "MULTILINE"}
    HANDSHAKE_RETRY_COUNT = 1
    USE_NP = FALSE
    EagerReopen = TRUE
    Redial = TRUE
    MaxSessions = 2
    MaxCommands = 2
    MaxInfo = 1
    MaxUnsolicited = 1
INVARIANTS
    NoLostSignal
    InSync
    ChannelServed
CHECK_DEADLOCK FALSE
