SPECIFICATION FairSpec
CONSTANTS
    A = A
    B = B
    C = C
    NoPeer = NoPeer
    NullAddr = NullAddr
    Nodes = {A, B}
    Posts = {"r21c", "w1p"}
    Plan <- Calls
    NumConns = 2
    MaxHandle = 4
    InitHandles <- StartApart
    Environments <- FaultFree
PROPERTIES
    EveryPostCompletes
    PeerIsNotified
CHECK_DEADLOCK FALSE
