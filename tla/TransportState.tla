--------------------------- MODULE TransportState ---------------------------
(***************************************************************************)
(* The state shared by the threads of the transport: user threads calling   *)
(* Post() and Poll(), one engine main thread per node, and one send and one *)
(* receive thread per channel end.  Engine, Worker and Transfer add their   *)
(* steps to it; Transport composes them.                                    *)
(*                                                                          *)
(* Nodes stand for control-plane endpoints, an address is an abstract       *)
(* buffer, and the content of a byte is the pair <<buffer, offset>> it was  *)
(* first written as, so that a misplaced byte is visible.                   *)
(*                                                                          *)
(* Here and in the modules that extend this one, the operators whose name   *)
(* ends in _ plus a word are faulty variants of the operator that follows   *)
(* them, used to show that a property can fail.                             *)
(***************************************************************************)
EXTENDS RequestTracker, FiniteSets

CONSTANTS
    Nodes,          \* control-plane endpoints
    Posts,          \* names of the Post() calls the users make
    Plan,           \* Plan[p]: the arguments of the call, and what the peer resolves
    NumConns,       \* config.num_conns_per_peer
    MaxHandle,      \* the largest Handle, 2^32 - 1 in the code
    InitHandles,    \* InitHandles[n]: the random start value of next_handle_
    Environments    \* the settings a behaviour may start in: the posts that are made, the
                    \* kind of channel ("stream" for TCP, "message" for UDP, "onesided" for
                    \* RDMA), how many channels a call of EngineHelper::Connect may return,
                    \* the messages the buffers of a stream hold in one direction, and three
                    \* bounds: connections that break, messages lost (or one-sided writes
                    \* that fail) and messages duplicated

ASSUME PlanAssumption ==
    /\ NumConns \in Nat \ {0} /\ MaxHandle \in Nat \ {0}
    /\ Environments \subseteq
         [posts : SUBSET Posts, kind : {"stream", "message", "onesided"}, counts : SUBSET (0 .. NumConns),
          buffer : Nat \ {0}, breaks : Nat, loss : Nat, dup : Nat]
    /\ InitHandles \in [Nodes -> 0 .. MaxHandle]
    /\ \A p \in Posts :
         /\ Plan[p].node \in Nodes /\ Plan[p].peer \in Nodes \ {Plan[p].node}
         /\ Plan[p].op \in {"read", "write"} /\ Plan[p].callback \in BOOLEAN
         /\ Plan[p].reqs # <<>> /\ Plan[p].reqs \in Seq(Range(Plan[p].reqs))
         /\ \A j \in DOMAIN Plan[p].reqs :
              Plan[p].reqs[j].laddr # NullAddr /\ Plan[p].reqs[j].len \in Nat \ {0}

\* A second Connect call tops up a partial one, so a peer may end up with more
\* than num_conns_per_peer workers (engine.cc:166, engine_helper.cc:157).
MaxWorkers == 2 * NumConns - 1

Channels == {c \in Nodes \X Nodes \X (1 .. MaxWorkers) : c[1] # c[2]}
Ends == Channels \X {"conn", "acc"}
NodeOf(e) == IF e[2] = "conn" THEN e[1][1] ELSE e[1][2]
OtherEnd(e) == <<e[1], IF e[2] = "conn" THEN "acc" ELSE "conn">>

\* A queue of messages without the k-th.
Without(s, k) == SubSeq(s, 1, k - 1) \o SubSeq(s, k + 1, Len(s))

VARIABLES
    nextHandle,   \* next_handle_ of each engine
    posts,        \* posts_ of each engine
    outgoing,     \* outgoing_ of each engine
    incoming,     \* incoming_ of each engine
    main,         \* where each engine's main thread is
    workers,      \* workers[n][m]: the size of n's send_workers_[m]
    infos,        \* infos_ of the worker of each channel
    chunks,       \* chunks_ of the worker of each channel
    sender,       \* where each send thread is
    receiver,     \* where each receive thread is
    peerOf,       \* Channel::GetPeer() at each end
    wire,         \* what is on its way to each end
    up,           \* the connections that are not broken
    mem,          \* the contents of the buffers
    handleOf,     \* the handle each Post() returned
    outcome,      \* what the user of each post has been told
    polling,      \* where each Poll() is
    recvPosts,    \* how often recv_post_callback ran for each post
    env           \* the environment, with the faults that may still happen

engineVars == <<nextHandle, posts, main, workers>>
workerVars == <<infos, chunks, sender>>
netVars == <<wire, up, env>>
userVars == <<handleOf, outcome, polling, recvPosts>>
vars == <<engineVars, outgoing, incoming, workerVars, receiver, peerOf, netVars, mem, userVars>>

-----------------------------------------------------------------------------
\* Buffers.  The addresses of a request: the one its bytes leave from and the
\* one they must reach, after resolve_addr_callback_ has run for a null raddr.

ReqsOf(p) == DOMAIN Plan[p].reqs
Requests == UNION {{p} \X ReqsOf(p) : p \in Posts}

Resolve == [meta \in Requests |-> Plan[meta[1]].reqs[meta[2]].resolved]
RemoteAddr(p, j) == ResolvedAddr([raddr |-> Plan[p].reqs[j].raddr, meta |-> <<p, j>>], Resolve)
SrcAddr(p, j) == IF Plan[p].op = "write" THEN Plan[p].reqs[j].laddr ELSE RemoteAddr(p, j)
DstAddr(p, j) == IF Plan[p].op = "write" THEN RemoteAddr(p, j) ELSE Plan[p].reqs[j].laddr

BuffersOf(r) == {SrcAddr(r[1], r[2]), DstAddr(r[1], r[2])} \ {NullAddr}
Addrs == UNION {BuffersOf(r) : r \in Requests}
BufferLen(a) == LET r == CHOOSE r \in Requests : a \in BuffersOf(r) IN Plan[r[1]].reqs[r[2]].len

\* Users do not let a request write to a buffer that another one uses; the two ends of a
\* request are buffers of different nodes; an address names one whole buffer, so requests
\* that send the same one have its length.
ASSUME BuffersAssumption ==
    \A r, s \in Requests :
        LET dst == DstAddr(r[1], r[2])
            src == SrcAddr(r[1], r[2])
        IN  /\ r # s => dst \notin BuffersOf(s)
            /\ src = dst => src = NullAddr
            /\ src # NullAddr /\ src = SrcAddr(s[1], s[2]) =>
                 Plan[r[1]].reqs[r[2]].len = Plan[s[1]].reqs[s[2]].len

LoadBytes(addr, offset, len) == [k \in 0 .. len - 1 |-> mem[addr][offset + k]]
StoreBytes_noOffset(addr, offset, bytes) ==
    [mem EXCEPT ![addr] = [k \in DOMAIN @ |-> IF k \in DOMAIN bytes THEN bytes[k] ELSE @[k]]]
StoreBytes(addr, offset, bytes) ==
    [mem EXCEPT ![addr] =
        [k \in DOMAIN @ |-> IF k - offset \in DOMAIN bytes THEN bytes[k - offset] ELSE @[k]]]

\* Where the bytes of each request leave from and must arrive.
Journeys == UNION {{[req |-> <<p, j>>, src |-> SrcAddr(p, j), dst |-> DstAddr(p, j)] :
                        j \in ReqsOf(p)} : p \in Posts}

\* Every byte of the post is at its destination.
Delivered(p) ==
    \A t \in Journeys : t.req[1] = p =>
        /\ t.dst # NullAddr
        /\ \A k \in DOMAIN mem[t.dst] : mem[t.dst][k] = <<t.src, k>>

-----------------------------------------------------------------------------
\* Threads and messages.

NoMsg == [type |-> "none"]
Idle(at) == [at |-> at, msg |-> NoMsg, dst |-> NullAddr, cb |-> NoCallback]
IsAck(msg) == msg.type = "data" /\ msg.len = 0

UserCallback == [kind |-> "user", peer |-> NoPeer]
ReplyCallback(peer) == [kind |-> "reply", peer |-> peer]

\* The post a node's own handle stands for.
PostsWith(n, handle) ==
    {p \in Posts : Plan[p].node = n /\ handleOf[p] = handle /\ outcome[p] # "rejected"}

\* OnComplete runs: the user of the post is told it succeeded.
Tell(n, handle) ==
    outcome' = [p \in Posts |->
        IF p \notin PostsWith(n, handle) THEN outcome[p]
        ELSE IF outcome[p] = "pending" THEN "success" ELSE "told_twice"]

\* incoming_.OnReqComplete(handle, peer) at node n, with the callback it runs
\* after the unlock: on_complete of a local read, or recv_post_callback for a
\* post received from `peer`.
CompleteIncomingReq(n, handle, peer) ==
    LET last == IsLastReq(incoming[n], handle, peer)
        pt == incoming[n][<<peer, handle>>]
    IN  /\ incoming' = [incoming EXCEPT ![n] = OnReqComplete(@, handle, peer)]
        /\ IF last /\ pt.is_initiator /\ pt.on_complete # NoCallback
           THEN Tell(n, handle) ELSE UNCHANGED outcome
        /\ IF last /\ ~pt.is_initiator
           THEN recvPosts' = [p \in Posts |->
                    recvPosts[p] + IF p \in PostsWith(peer, handle) THEN 1 ELSE 0]
           ELSE UNCHANGED recvPosts

\* The callback that Update ran into, on the thread that called it.
RunCallback(n, cb, handle) ==
    \/ cb.kind = "user" /\ Tell(n, handle) /\ UNCHANGED <<incoming, recvPosts>>
    \/ cb.kind = "reply" /\ CompleteIncomingReq(n, handle, cb.peer)

\* Channel::Write: a blocking send waits while the buffers of the stream are full;
\* a broken stream either reports the error or swallows the bytes.
CanTransmit(e) == env.kind = "stream" /\ up[e[1]] => Len(wire[OtherEnd(e)]) < env.buffer
Transmit(e, msg) == wire' = IF up[e[1]] THEN [wire EXCEPT ![OtherEnd(e)] = Append(@, msg)] ELSE wire
=============================================================================
