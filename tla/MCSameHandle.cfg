SPECIFICATION FairSpec
CONSTANTS
    A = A
    B = B
    C = C
    NoPeer = NoPeer
    NullAddr = NullAddr
    Nodes = {A, B, C}
    Posts = {"c1w", "b1r"}
    Plan <- Calls
    NumConns = 1
    MaxHandle = 4
    InitHandles <- StartEqual
    Environments <- Triangle
PROPERTIES
    EveryPostCompletes
CHECK_DEADLOCK FALSE
