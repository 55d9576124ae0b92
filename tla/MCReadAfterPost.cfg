SPECIFICATION FairSpec
CONSTANTS
    A = A
    B = B
    C = C
    NoPeer = NoPeer
    NullAddr = NullAddr
    Nodes = {A, B}
    Posts = {"w1c", "b1r"}
    Plan <- Calls
    NumConns = 1
    MaxHandle = 4
    InitHandles <- StartApart
    Environments <- Cross
PROPERTIES
    EveryPostCompletes
CHECK_DEADLOCK FALSE
