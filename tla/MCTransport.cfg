SPECIFICATION Spec
CONSTANTS
    A = A
    B = B
    C = C
    NoPeer = NoPeer
    NullAddr = NullAddr
    Nodes = {A, B}
    Posts = {"w1c", "w3p", "w31c", "w1u", "r11p", "r2c", "b2p"}
    Plan <- Calls
    NumConns = 2
    MaxHandle = 4
    InitHandles <- StartApart
    Environments <- AnyChannel
INVARIANTS
    AckedIsDelivered
    PendingIsExact
    NotifiedOnce
    RecvLoopsSurvive
    OnlyRepeatsLoseTheirEntry
PROPERTIES
    ImplementsService
CHECK_DEADLOCK FALSE
