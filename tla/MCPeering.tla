------------------------------ MODULE MCPeering ------------------------------
(***************************************************************************)
(* How hosts get to know and reach each other, over the control plane, RDMA *)
(* and TCP, each part checked on its own: `focus` says which one runs in a  *)
(* behaviour, the others stay in their initial states.                      *)
(***************************************************************************)
EXTENDS Control, RdmaManager, RdmaMemory, RdmaChannel, StreamIo, RdmaDevice, HostMessages

TwoDevices == <<"mlx5_0", "mlx5_1">>
SomeLayouts == {<<1, 2>>, <<2, 1>>, <<2>>}
NoName == [named |-> FALSE, nets |-> {}]
Adapter(nets) == [named |-> TRUE, nets |-> nets]
SomeLists == {<<>>, <<NoName, Adapter({"dontuse"})>>,
              <<Adapter({}), Adapter({"dontuse"}), Adapter({"dontuse", "eth"})>>}
SomeTables == {<<"local", "global", "rocev1", "global">>, <<"global", "unreadable", "mapped", "mapped">>,
               <<"rocev1", "local">>}

\* Hosts with an IPv4, an IPv6 and a mapped listener, with an RDMA NIC; without a port, without
\* listeners, with an RDMA NIC that has no GID, with one address twice.
V4(n) == [v6 |-> FALSE, mapped |-> FALSE, n |-> n]
V6(n) == [v6 |-> TRUE, mapped |-> FALSE, n |-> n]
Mapped(n) == [v6 |-> TRUE, mapped |-> TRUE, n |-> n]
SomeIps == {V4(0), V4(1), V4(2), V6(0), V6(1), V6(2), Mapped(1)}
At(ip, port) == [ip |-> ip, port |-> port]
NicOf(n, type, endpoints) == [name |-> <<<<"name", n>>>>, type |-> type, endpoints |-> endpoints]
TwoNics == <<NicOf(1, kIP, <<At(V4(1), 2), At(V6(1), 2)>>), NicOf(2, kRDMA, <<At(Mapped(1), 1)>>)>>
SomeHosts ==
    {[control |-> At(V4(1), 1), nics |-> TwoNics], [control |-> At(V6(2), 1), nics |-> TwoNics],
     [control |-> At(Mapped(1), 2), nics |-> SubSeq(TwoNics, 1, 1)],
     [control |-> At(V4(1), 0), nics |-> TwoNics], [control |-> At(V4(1), 1), nics |-> <<>>],
     [control |-> At(V4(1), 1), nics |-> <<NicOf(1, kRDMA, <<At(V4(2), 1)>>)>>],
     [control |-> At(V4(1), 2), nics |-> TwoNics]}
Ask(op, laddr) == [op |-> op, laddr |-> laddr, raddr |-> 0, len |-> 3, rkey |-> 5, metadata |-> 7]
SomeRequestLists == {<<>>, <<Ask(kReadOp, 1)>>, <<Ask(kWriteOp, 2), Ask(kReadOp, 3)>>, <<Ask(kReadOp, 0)>>}
SomePspTokens == [spi : {0, 1}, gen : {0, 1}, key : {<<1, 2>>}]

VARIABLE focus
rest == <<focus, controlVars, rdmaVars, memoryVars, channelVars, deviceVars, messageVars>>
mcVars == <<rest, streamVars>>

Init ==
    /\ focus \in {"control", "rdma", "memory", "channel", "stream", "device", "message"}
    /\ ControlInit /\ RdmaInit /\ MemoryInit /\ ChannelInit /\ StreamInit /\ DeviceInit /\ MessageInit
    /\ focus # "stream" => writer = StartCall(<<2>>, [via |-> "socket", wait |-> "blocking"])
                          /\ reader = writer
    /\ focus # "message" => sending.form = "host" /\ sending.host = CHOOSE h \in HostInfos : TRUE

InFocus(part) == focus = part /\ UNCHANGED <<focus, streamVars, deviceVars, messageVars>>
ControlPart == InFocus("control") /\ ControlNext /\ UNCHANGED <<rdmaVars, memoryVars, channelVars>>
RdmaPart == InFocus("rdma") /\ RdmaNext /\ UNCHANGED <<controlVars, memoryVars, channelVars>>
MemoryPart == InFocus("memory") /\ MemoryNext /\ UNCHANGED <<controlVars, rdmaVars, channelVars>>
ChannelPart == InFocus("channel") /\ ChannelNext /\ UNCHANGED <<controlVars, rdmaVars, memoryVars>>
StreamPart == focus = "stream" /\ StreamNext /\ UNCHANGED rest
DevicePart ==
    /\ focus = "device" /\ DeviceNext
    /\ UNCHANGED <<focus, controlVars, rdmaVars, memoryVars, channelVars, streamVars, messageVars>>
MessagePart ==
    /\ focus = "message" /\ MessageNext
    /\ UNCHANGED <<focus, controlVars, rdmaVars, memoryVars, channelVars, streamVars, deviceVars>>

Next == ControlPart \/ RdmaPart \/ MemoryPart \/ ChannelPart \/ StreamPart \/ DevicePart \/ MessagePart

\* The main threads and the gRPC threads run.  Nothing is asked of the network or of whoever
\* calls a destructor.
Fairness ==
    \A h \in RdmaHosts :
        /\ WF_mcVars(InFocus("rdma") /\ ConnectorStep(h) /\ UNCHANGED <<controlVars, memoryVars, channelVars>>)
        /\ WF_mcVars(InFocus("rdma") /\ HandlerStep(h) /\ UNCHANGED <<controlVars, memoryVars, channelVars>>)

Spec == Init /\ [][Next]_mcVars /\ Fairness
=============================================================================
