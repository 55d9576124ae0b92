SPECIFICATION Spec
CONSTANTS
    Writers = {w1, w2, w3}
    N = 3
    Lens <- MCLens
    WorkerCounts <- MCWorkerCounts
    Recorders = {t1, t2}
    Capacity = 2
    NumWords = 2
    MaxRecords = 3
    MaxClears = 1
    Stamps = {0, 1, 2}
    Handles = {0, 1}
    ReqIds = {0, 1, 2}
    ChunkIdxs = {0}
    Workers = {1, 2}
    MaxEvents = 3
    PostStamps <- postStamps
    RequestStamps <- requestStamps
    ChunkStamps <- chunkStamps
    DoneStamps <- doneStamps
    SendIds = {0}
    RecvIds <- recvIds
    MaxPosts = 2
    MaxRequests = 1
    MaxChunks = 2
    Netdevs <- SomeNetdevs
    IfAddrs <- SomeIfAddrs
    IbDevs <- SomeIbDevs
    NicAddrs <- SomeNicAddrs
    Bridges = {7}
    RdmaNics = {5}
    Radix = 4
    Packets <- SomePackets
    Foreign <- SomeForeign
    TmpWords = 56
    MaxPackets = 2
INVARIANTS
    ExclusiveWriter
    ChunksTileBuffer
    QuietSnapshotIsExact
    EarliestIsKept
    SlicesNest
    RailsFollowTheHardware
    DistanceIsCloseness
    StaysInStep
    AutoBindIsBest
PROPERTIES
    ImplementsDelivery
CHECK_DEADLOCK FALSE
