SPECIFICATION Spec
CONSTANTS
    CacheSize = 3
    MaxLines = 4
    LineKinds = {"QUERY_MODEM_MODEL", "QUERY_NUMBER"}
    SignalLines <- Lines
    OperatorLines <- CarrierLines
    RadioLines <- SwitchLines
    SimLines <- PinLines
    TextLines <- Texts
    FinalErrors <- Errors
INVARIANTS
    AnsweredRight
    CachesLatest
    StaysDefined
CHECK_DEADLOCK FALSE
