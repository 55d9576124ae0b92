SPECIFICATION TcpFairSpec
CONSTANTS
    Fds = {1, 2, 3}
    ListenFds = {1}
    Callers = {c1}
    MaxBacklog = 1
INVARIANTS
    OneOwner
    EveryEventIsHandled
    StoppedIsEmpty
PROPERTIES
    ConnectorsResolve
CHECK_DEADLOCK FALSE
