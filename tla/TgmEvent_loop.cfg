SPECIFICATION FairSpec
CONSTANTS
    Threads = {main, vendor}
    Registrar = main
    Timers = {t1, t2}
    Delays = {0, 1}
    MaxFdEvents = 3
    MaxTime = 2
    WakeupFd = 3
    ListenFd = 2
    CommandFds = {4}
INVARIANTS
    NoLostWakeup
    DueOrder
    TableConsistent
    OneConnection
    LoopAlive
PROPERTIES
    TimersServed
    TimerFires
    ClientAccepted
    CommandsRead
