----------------------------- MODULE MCTransport ----------------------------
(***************************************************************************)
(* The posts the runs of Transport choose from, and the settings each run   *)
(* starts in.  The buffers of different requests are different.             *)
(***************************************************************************)
EXTENDS Transport

CONSTANTS A, B, C

Req(name, raddr, len, resolved) == [laddr |-> <<"l", name>>, raddr |-> raddr, len |-> len, resolved |-> resolved]
At(name) == <<"r", name>>
Call(node, peer, op, callback, reqs) ==
    [node |-> node, peer |-> peer, op |-> op, callback |-> callback, reqs |-> reqs]

Answered(name, len) == Req(name, NullAddr, len, At(name))    \* a null raddr the peer resolves
Unanswered(name) == Req(name, NullAddr, 1, NullAddr)  \* and one it does not

\* Start values of next_handle_: apart, with A's first handle wrapping around, or
\* the same on every node.
StartApart == [n \in Nodes |-> IF n = A THEN MaxHandle ELSE IF n = B THEN 1 ELSE 2]
StartEqual == [n \in Nodes |-> 1]

\* The posts, by what they do: a write (w) or a read (r), the lengths of its requests,
\* and c when it has a callback, p when it is polled.
Calls == [
    w1c |-> Call(A, B, "write", TRUE, <<Req(1, At(1), 1, NullAddr)>>),
    w3p |-> Call(A, B, "write", FALSE, <<Answered(2, 3)>>),
    w31c |-> Call(A, B, "write", TRUE, <<Req(3, At(3), 3, NullAddr), Req(4, At(4), 1, NullAddr)>>),
    w1p |-> Call(A, B, "write", FALSE, <<Answered(5, 1)>>),
    w1u |-> Call(A, B, "write", FALSE, <<Unanswered(6)>>),
    r11p |-> Call(A, B, "read", FALSE, <<Answered(7, 1), Answered(14, 1)>>),
    r2c |-> Call(A, B, "read", TRUE, <<Req(8, At(8), 2, NullAddr)>>),
    r21c |-> Call(A, B, "read", TRUE, <<Req(9, At(9), 2, NullAddr), Req(10, At(10), 1, NullAddr)>>),
    \* the other way, and to a third node
    b2p |-> Call(B, A, "write", FALSE, <<Req(11, At(11), 2, NullAddr)>>),
    b1r |-> Call(B, A, "read", TRUE, <<Req(12, At(12), 1, NullAddr)>>),
    c1w |-> Call(A, C, "write", TRUE, <<Req(13, At(13), 1, NullAddr)>>)]

Setting(ps, kind, counts, buffer, breaks, loss, dup) ==
    [posts |-> ps, kind |-> kind, counts |-> counts, buffer |-> buffer,
     breaks |-> breaks, loss |-> loss, dup |-> dup]

Ample == 20     \* more messages than any behaviour has on a channel

\* Two writes over the same channels, of which Connect returns none, some or all; a
\* write and a read by the same node.  A connection breaks under a write, under two of
\* which the peer refuses one, or under a read.  The datagrams of a write and of a read
\* are lost, duplicated and reordered.  A one-sided write fails.
AnyChannel == {
    Setting({"w1c", "w3p"}, "stream", {0, 1, 2}, Ample, 0, 0, 0),
    Setting({"w1c", "r11p"}, "stream", {1}, Ample, 0, 0, 0),
    Setting({"w3p"}, "stream", {2}, Ample, 1, 0, 0),
    Setting({"w1c", "w1u"}, "stream", {2}, Ample, 1, 0, 0),
    Setting({"r2c"}, "stream", {2}, Ample, 1, 0, 0),
    Setting({"w31c"}, "message", {2}, Ample, 0, 1, 1),
    Setting({"r2c"}, "message", {2}, Ample, 0, 1, 1),
    Setting({"w31c", "b2p"}, "onesided", {2}, Ample, 0, 1, 0)}

\* A read over two message channels, with one datagram delivered twice.
Repeats == {Setting({"r2c"}, "message", {2}, Ample, 0, 0, 1)}

\* No faults: a read of two requests and a polled write over one channel whose buffers
\* hold a single message, and a read whose reply is spread over two channels.
FaultFree == {
    Setting({"r21c", "w1p"}, "stream", {1}, 1, 0, 0, 0),
    Setting({"r21c"}, "stream", {2}, Ample, 0, 0, 0)}

\* A write and a read by the two nodes of a pair.
Cross == {Setting({"w1c", "b1r"}, "stream", {1}, Ample, 0, 0, 0)}

\* B reads from A while A writes to C.
Triangle == {Setting({"c1w", "b1r"}, "stream", {1}, Ample, 0, 0, 0)}
=============================================================================
