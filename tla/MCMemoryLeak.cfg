SPECIFICATION Spec
CONSTANTS
    Hosts = {a, b}
    MaxRestarts = 1
    RdmaHosts = {a, b}
    NumConns = 1
    Devices <- TwoDevices
    MaxAddr = 4
    MaxKey = 8
    MaxWrites = 3
    Layouts <- SomeLayouts
    Capacity = 2
    DeviceLists <- SomeLists
    GidTables <- SomeTables
    MaxQPairs = 2
    HostInfos <- SomeHosts
    RequestLists <- SomeRequestLists
    PspTokens <- SomePspTokens
    IpAddrs <- SomeIps
    kPspKeyLen = 2
INVARIANTS
    DestructorUnregistersAll
CHECK_DEADLOCK FALSE
