---------------------------- MODULE NicInventory ----------------------------
(***************************************************************************)
(* NicInventory::Discover: the RDMA devices first, then the addresses that  *)
(* are not theirs, one step per device and per address, in whatever order   *)
(* the system lists them; then the sort that gives every NIC its rail.      *)
(***************************************************************************)
EXTENDS PciTopology

CONSTANTS
    Netdevs,       \* sysfs: what there is to read of each interface, by name (a number)
    IfAddrs,       \* getifaddrs: addresses and the flags of their interfaces
    IbDevs         \* RDMA devices: name (a number), link and ports

VARIABLES
    allowLoopback,
    discovery,        \* "rdma", "tcp" or "done"
    unseen,           \* devices or addresses still to come
    tcpNics, rdmaNics

nicVars == <<allowLoopback, discovery, unseen, tcpNics, rdmaNics>>

NicInit ==
    /\ allowLoopback \in BOOLEAN
    /\ discovery = "rdma" /\ unseen = IbDevs /\ tcpNics = <<>> /\ rdmaNics = <<>>

IsUsableIp(ip) == ip.routable /\ (allowLoopback \/ ~ip.loopback)

\* The RoCEv2 GID of a port: the first of an IPv4 address, or else the first that is usable.
BestGid(gids) ==
    LET valid == {j \in 1 .. Len(gids) : /\ gids[j].rocev2 /\ IsUsableIp(gids[j].ip)
                                         /\ gids[j].netdev # 0}
        v4 == {j \in valid : gids[j].ip.v4}
        from == IF v4 # {} THEN v4 ELSE valid
    IN  IF valid = {} THEN 0 ELSE CHOOSE j \in from : \A k \in from : j <= k

\* The NICs of one device: its active ports with a GID, in the order of their numbers.
PortsOf(dev, pci) ==
    LET good == SelectSeq([p \in 1 .. Len(dev.ports) |-> p],
                          LAMBDA p : dev.ports[p].active /\ BestGid(dev.ports[p].gids) # 0)
    IN  [k \in 1 .. Len(good) |->
            LET gids == dev.ports[good[k]].gids
            IN  [pci |-> pci, dev |-> dev.name, port |-> good[k], gid |-> BestGid(gids),
                 netdev |-> gids[BestGid(gids)].netdev]]

\* One device; ibv_open_device or ibv_query_device may fail.
DiscoverRdmaNic ==
    /\ discovery = "rdma"
    /\ \E dev \in unseen :
         LET at == ResolveSingleDeviceLink(dev.link)
         IN  /\ \/ at.ok /\ rdmaNics' = rdmaNics \o PortsOf(dev, at.loc)
                \/ UNCHANGED rdmaNics
             /\ unseen' = unseen \ {dev}
    /\ UNCHANGED <<allowLoopback, discovery, tcpNics>>
RdmaIsKnown ==
    /\ discovery = "rdma" /\ unseen = {}
    /\ discovery' = "tcp" /\ unseen' = IfAddrs
    /\ UNCHANGED <<allowLoopback, tcpNics, rdmaNics>>

\* The interfaces looked at, and where they are.
Eligible(a) ==
    /\ a.up /\ ~a.pointToPoint /\ (a.loopback => allowLoopback)
    /\ a.loopback \/ ~Netdevs[a.name].infiniband
    /\ IsUsableIp(a.ip)
LocationOf(a) ==
    IF a.loopback THEN [ok |-> TRUE, loc |-> NoLocation]
    ELSE ResolveNetdevPciLocation(a.name, Netdevs)
BelongsToRdma(a) ==
    LET endpoint == LocationOf(a).loc.endpoint
    IN  ~a.loopback /\ \E j \in 1 .. Len(rdmaNics) :
            rdmaNics[j].netdev = a.name \/ rdmaNics[j].pci.endpoint = endpoint

\* The same physical NIC: by its endpoint, or by name if it has none.
SameNic(nic, pci, a) ==
    IF pci.endpoint # <<>> THEN nic.pci.endpoint = pci.endpoint ELSE nic.name = a.name

AddAddress(a) ==
    LET pci == LocationOf(a).loc
        same == {j \in 1 .. Len(tcpNics) : SameNic(tcpNics[j], pci, a)}
        first == CHOOSE j \in same : \A k \in same : j <= k
    IN  IF same = {}
        THEN Append(tcpNics, [pci |-> pci, name |-> a.name, ips |-> <<a.ip>>])
        ELSE IF a.ip \in ToSet(tcpNics[first].ips) THEN tcpNics
        ELSE [tcpNics EXCEPT ![first].ips = Append(@, a.ip)]

DiscoverTcpNic ==
    /\ discovery = "tcp"
    /\ \E a \in unseen :
         /\ tcpNics' = IF Eligible(a) /\ LocationOf(a).ok /\ ~BelongsToRdma(a) THEN AddAddress(a)
                       ELSE tcpNics
         /\ unseen' = unseen \ {a}
    /\ UNCHANGED <<allowLoopback, discovery, rdmaNics>>

\* GetSortKey: a NIC without an endpoint comes last.
LastKey == 2^30
GetSortKey(pci) == IF pci.endpoint = <<>> THEN LastKey ELSE ParsePciBdfKey(pci.endpoint)
Before(s, t) ==   \* lexicographic, of sequences of three numbers
    \/ s[1] < t[1]
    \/ s[1] = t[1] /\ s[2] < t[2]
    \/ s[1] = t[1] /\ s[2] = t[2] /\ s[3] < t[3]
TcpKey(nic) == <<GetSortKey(nic.pci), nic.name, 0>>
RdmaKey(nic) == <<GetSortKey(nic.pci), nic.dev, nic.port>>

\* sortAndAssignRails: the rail is the position.
SortAndAssignRails_kept ==
    /\ discovery = "tcp" /\ unseen = {} /\ discovery' = "done"
    /\ UNCHANGED <<tcpNics, allowLoopback, unseen>>
    /\ rdmaNics' = SortSeq(rdmaNics, LAMBDA x, y : Before(RdmaKey(x), RdmaKey(y)))
SortAndAssignRails ==
    /\ discovery = "tcp" /\ unseen = {} /\ discovery' = "done"
    /\ tcpNics' = SortSeq(tcpNics, LAMBDA x, y : Before(TcpKey(x), TcpKey(y)))
    /\ rdmaNics' = SortSeq(rdmaNics, LAMBDA x, y : Before(RdmaKey(x), RdmaKey(y)))
    /\ UNCHANGED <<allowLoopback, unseen>>

NicNext == DiscoverRdmaNic \/ RdmaIsKnown \/ DiscoverTcpNic \/ SortAndAssignRails

-----------------------------------------------------------------------------
\* What the hardware says of the addresses, whatever the order of the lists.
TcpAddrs == {a \in IfAddrs : Eligible(a) /\ LocationOf(a).ok /\ ~BelongsToRdma(a)}
Increasing(keys) == \A j \in 1 .. Len(keys) - 1 : Before(keys[j], keys[j + 1])

(* Rails do not depend on the order in which the system lists its devices: the
   NIC of rail k is the one with the k-th smallest PCIe address of all that have
   a usable address, and a NIC with several names or addresses has one rail.
   (Two hosts of the same kind number their NICs alike.) *)
RailsFollowTheHardware ==
    discovery = "done" =>
        /\ {tcpNics[j].pci : j \in 1 .. Len(tcpNics)} = {LocationOf(a).loc : a \in TcpAddrs}
        /\ Increasing([j \in 1 .. Len(tcpNics) |-> <<GetSortKey(tcpNics[j].pci), 0, 0>>])
        /\ Increasing([j \in 1 .. Len(rdmaNics) |->
                         <<ParsePciBdfKey(rdmaNics[j].pci.endpoint), rdmaNics[j].dev, rdmaNics[j].port>>])

(* GetPciDistance is a distance: it is symmetric, its hops are the edges of the
   PCIe tree between the devices, and two devices are never further apart than
   the further of them is from a third. *)
DistanceIsCloseness ==
    LET locs == {tcpNics[j].pci : j \in 1 .. Len(tcpNics)} \cup {rdmaNics[k].pci : k \in 1 .. Len(rdmaNics)}
        Rel(a, b) == GetPciDistance(a, b).relation
    IN  discovery = "done" =>
        \A a \in locs, b \in locs :
            /\ GetPciDistance(a, b) = GetPciDistance(b, a)
            /\ GetPciDistance(a, b).hops # -1 => GetPciDistance(a, b).hops = TreeDistance(a, b)
            /\ \A c \in locs : Rel(a, c) <= Rel(a, b) \/ Rel(a, c) <= Rel(b, c)
=============================================================================
