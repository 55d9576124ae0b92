SPECIFICATION LifeFairSpec
CONSTANTS
    Fds = {1, 2, 3}
    ListenFds = {1}
    Callers = {c1}
    Main = c1
    MaxBacklog = 1
    NumConns = 2
    MaxPosts = 1
INVARIANTS
    DestroyedIsClean
PROPERTIES
    DestructorReturns
CHECK_DEADLOCK FALSE
