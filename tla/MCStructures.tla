---------------------------- MODULE MCStructures ----------------------------
(***************************************************************************)
(* Data structures and algorithms that share no state: the chunk tracker,   *)
(* the split of a request into chunks, the wire format, the trace library,  *)
(* the NICs of a host.  A behaviour keeps to the part its focus names.      *)
(***************************************************************************)
EXTENDS ChunkTracker, ChunkSplit, TraceBuffer, TraceTimeline, TraceRenderer, NicInventory, NicChoice, WireHeader

VARIABLE focus

MCLens == 1 .. 8
MCWorkerCounts == 1 .. 3
recvIds == {-1}

\* Timelines of the renderer.  In each set the first has every stage in order, with time between
\* them; the others miss stages, or contradict the order of the stages.
postStamps ==
    {<<1, 3, 5, 8, 12, 13>>,   \* queued 3 .. 5, host info 5 .. 8, sockets 8 .. 12
     <<1, 3, 0, 0, 0, 6>>,     \* connected before: queued 3 .. 6
     <<3, 0, 0, 0, 9, 0>>,     \* only the entry and the end of the setup
     <<2, 7, 4, 9, 8, 4>>,     \* at the engine before it was enqueued, host info after the setup
     <<4, 2, 1, 6, 3, 2>>}     \* enqueued before its entry, set up before that
requestStamps == {<<5, 7>>, <<14, 2>>}
chunkStamps ==
    {<<6, 9, 11, 17, 2, 3>>, <<9, 6, 4, 5, 0, 4>>,   \* sent and acknowledged before it was dequeued
     <<0, 8, 16, 0, 0, 0>>}                          \* never acknowledged
doneStamps == {<<17, 21>>, <<9, 6>>}

\* A host: one loopback interface; two TCP NICs, one of them a virtio device, joined in a bond;
\* an RDMA NIC with two ports, whose sub-function carries an address of its own; a bridge; a
\* TCP NIC one switch deeper below the switch of the first one; an RDMA NIC on another root
\* complex of the same NUMA node, and one that no switch separates from its root complex.
\* Devices of one root complex are on one NUMA node, which firmware may leave out (-1).
Root(k) == [kind |-> "root", id |-> k]
Bdf(bus, fn) == [kind |-> "bdf", id |-> <<0, bus, 0, fn>>]
Dir(name) == [kind |-> "other", id |-> name]
Link(subsystem, path, numa) ==
    [exists |-> TRUE, subsystem |-> subsystem, parent |-> "pci", path |-> path, numa |-> numa]
NoLink == [exists |-> FALSE, subsystem |-> "none", parent |-> "none", path |-> <<>>, numa |-> 0]
Netdev(link) ==
    [link |-> link, bridge |-> FALSE, bonding |-> FALSE, infiniband |-> FALSE,
     active |-> <<>>, slaves |-> <<>>, lower |-> <<>>]
RdmaPath == <<Dir("devices"), Root(1), Bdf(1, 0), Bdf(2, 0)>>
SomeNetdevs == <<
    Netdev(NoLink),
    Netdev(Link("pci", <<Dir("devices"), Root(1), Bdf(1, 0), Bdf(3, 0)>>, 1)),
    Netdev(Link("virtio", <<Dir("devices"), Root(2), Bdf(1, 1), Dir("virtio0")>>, -1)),
    [Netdev(NoLink) EXCEPT !.bonding = TRUE, !.active = <<3>>, !.slaves = <<2, 3>>],
    [Netdev(Link("pci", RdmaPath, 1)) EXCEPT !.infiniband = TRUE],
    Netdev(Link("auxiliary", Append(RdmaPath, Dir("sf")), 1)),
    [Netdev(NoLink) EXCEPT !.bridge = TRUE],
    Netdev(Link("pci", <<Dir("devices"), Root(1), Bdf(1, 0), Bdf(5, 0), Bdf(6, 0)>>, 1))>>

Ip(n) == [n |-> n, v4 |-> n % 2 = 0, routable |-> TRUE, loopback |-> n = 1]
Addr(name, n) ==
    [name |-> name, ip |-> Ip(n), up |-> n # 9, pointToPoint |-> FALSE, loopback |-> name = 1]
SomeIfAddrs == {Addr(1, 1), Addr(2, 2), Addr(3, 4), Addr(4, 5), Addr(5, 6), Addr(6, 7), Addr(7, 8),
                Addr(3, 9), Addr(8, 14)}

\* Of the same host: loopbacks, IPv4 and IPv6 addresses of a TCP and of an RDMA NIC, an IPv4
\* address on a NIC that comes before them, a link-local one, the bridge's.
OnNic(name, n) == [name |-> name, ip |-> [Ip(n) EXCEPT !.routable = n # 12, !.loopback = name = 1]]
SomeNicAddrs == {OnNic(1, 10), OnNic(1, 1), OnNic(2, 2), OnNic(3, 3), OnNic(3, 4), OnNic(3, 5), OnNic(5, 6), OnNic(5, 7),
                 OnNic(4, 12), OnNic(7, 9)}

Gid(n, rocev2, netdev) == [ip |-> Ip(n), rocev2 |-> rocev2, netdev |-> netdev]
SomeIbDevs == {
    [name |-> 2, link |-> Link("pci", RdmaPath, 1),
     ports |-> <<[active |-> TRUE, gids |-> <<Gid(6, FALSE, 5), Gid(13, TRUE, 5), Gid(6, TRUE, 5)>>],
                 [active |-> TRUE, gids |-> <<Gid(13, TRUE, 5)>>]>>],
    [name |-> 1, link |-> Link("pci", <<Root(3), Bdf(4, 0)>>, 1),
     ports |-> <<[active |-> FALSE, gids |-> <<>>], [active |-> TRUE, gids |-> <<Gid(11, TRUE, 9)>>]>>],
    [name |-> 3, link |-> Link("pci", <<Root(1), Bdf(7, 0)>>, 1),
     ports |-> <<[active |-> TRUE, gids |-> <<Gid(15, TRUE, 9)>>]>>]}

\* Post infos of one and two requests, of an IPv4 and an IPv6 peer; chunks of one word and of
\* more words than the receiver's buffer has; an acknowledgement with the receiver's trace.
Meta(n) == [k \in 1 .. 8 |-> n + k]
Request(id, op, addr) ==
    [reqid |-> id, nchunks |-> 2, raddr |-> addr, total_len |-> 300, op |-> op, recipe |-> kContiguous,
     params |-> Meta(id), metadata |-> Meta(2 * id)]
InfoHeader(ip, reqs) ==
    [opcode |-> kPostInfo, handle |-> 3, len |-> kRequestInfoSize * Len(reqs),
     peer |-> [ip |-> ip, port |-> 9], metadata |-> Meta(20)]
Info(ip, reqs) == [header |-> InfoHeader(ip, reqs), payload |-> reqs]
Data(n, worker) ==
    [header |-> [opcode |-> kData, handle |-> 4, len |-> n, reqid |-> 1, index |-> 2,
                 byte_offset |-> 300, raddr |-> 257, tx_send_us |-> 1, rx_payload_us |-> 0,
                 rx_acquire_us |-> 15, rx_worker_id |-> worker, rx_chunk_status |-> 2],
     payload |-> [k \in 1 .. n |-> k]]
SomePackets ==
    {Info(<<7>>, <<Request(1, kRead, 0)>>),
     Info(<<7, 0, 0, 1>>, <<Request(1, kWrite, 256), Request(2, kRead, 1)>>),
     Data(1, 0), Data(60, 1), Data(0, -2)}
\* Another magic number, another version, another opcode, no whole descriptor, no header.
SomeForeign ==
    LET ack == SerializeData(Data(0, 0).header)
    IN {[ack EXCEPT ![1] = Word(kMagic + 1, kVer, kData)], [ack EXCEPT ![1] = Word(kMagic, 2, kData)],
        [ack EXCEPT ![1] = Word(kMagic, kVer, 3)],
        [ack EXCEPT ![1] = Word(kMagic, kVer, kPostInfo), ![3] = 33], SubSeq(ack, 1, 3)}

vars == <<focus, trackerVars, splitVars, traceVars, timelineVars, rendererVars, nicVars, wireVars, choiceVars>>

Init ==
    /\ focus \in {"tracker", "split", "ring", "timeline", "renderer", "nic", "wire", "choice"}
    /\ TrackerInit /\ SplitInit /\ TraceInit /\ TimelineInit /\ RendererInit /\ NicInit /\ WireInit /\ ChoiceInit
    /\ focus # "split" => len = 1 /\ nworkers = 1
    /\ focus # "nic" => allowLoopback
    /\ focus # "wire" => linkKind = "stream"

Trace == <<traceVars, timelineVars, rendererVars, wireVars, choiceVars>>
Others == <<focus, trackerVars, splitVars, nicVars, wireVars, choiceVars>>

Next ==
    \/ focus = "tracker" /\ TrackerNext /\ UNCHANGED <<focus, splitVars, nicVars, Trace>>
    \/ focus = "split" /\ SplitNext /\ UNCHANGED <<focus, trackerVars, nicVars, Trace>>
    \/ focus = "nic" /\ NicNext /\ UNCHANGED <<focus, trackerVars, splitVars, Trace>>
    \/ focus = "ring" /\ TraceNext /\ UNCHANGED <<Others, timelineVars, rendererVars>>
    \/ focus = "timeline" /\ TimelineNext /\ UNCHANGED <<Others, traceVars, rendererVars>>
    \/ focus = "renderer" /\ RendererNext /\ UNCHANGED <<Others, traceVars, timelineVars>>
    \/ /\ focus = "wire" /\ WireNext
       /\ UNCHANGED <<focus, trackerVars, splitVars, nicVars, traceVars, timelineVars, rendererVars, choiceVars>>
    \/ /\ focus = "choice" /\ ChoiceNext
       /\ UNCHANGED <<focus, trackerVars, splitVars, nicVars, traceVars, timelineVars, rendererVars, wireVars>>

Spec == Init /\ [][Next]_vars
=============================================================================
