SPECIFICATION Spec
CONSTANTS
    s1 = s1
    c1 = c1
    c2 = c2
    ServerNodes <- OneServer
    ClientNodes <- TwoClients
    RemoteNodes = {c1}
    Streams = {a, b, c}
    TotalXfers = 2
    MaxSamples = 1
    NumInstances = 3
    Threads = {t1, t2}
    BasePort = 1
    LastPort = 4
    MaxPortBindAttempts = 2
INVARIANTS
    SuccessIsComplete
    ActiveIsExact
    BufferReferencesLive
CHECK_DEADLOCK FALSE
