SPECIFICATION Spec
CONSTANTS
    A = A
    B = B
    C = C
    NoPeer = NoPeer
    NullAddr = NullAddr
    Nodes = {A, B}
    Posts = {"r2c"}
    Plan <- Calls
    NumConns = 2
    MaxHandle = 4
    InitHandles <- StartApart
    Environments <- Repeats
INVARIANTS
    TrackerReferencesValid
CHECK_DEADLOCK FALSE
