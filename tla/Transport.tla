----------------------------- MODULE Transport ------------------------------
(***************************************************************************)
(* The composition: users, engines, workers and channels, and the faults of *)
(* the network.                                                             *)
(***************************************************************************)
EXTENDS Engine, Worker, Transfer

Init ==
    /\ nextHandle = InitHandles
    /\ posts = [n \in Nodes |-> <<>>]
    /\ outgoing = [n \in Nodes |-> <<>>]
    /\ incoming = [n \in Nodes |-> <<>>]
    /\ main = [n \in Nodes |-> MainIdle]
    /\ workers = [n \in Nodes |-> [m \in Nodes |-> 0]]
    /\ infos = [c \in Channels |-> <<>>]
    /\ chunks = [c \in Channels |-> <<>>]
    /\ sender = [c \in Channels |-> Idle("run")]
    /\ receiver = [e \in Ends |-> Idle("run")]
    /\ peerOf = [e \in Ends |-> NoPeer]
    /\ wire = [e \in Ends |-> <<>>]
    /\ up = [c \in Channels |-> TRUE]
    /\ mem = [a \in Addrs |-> [k \in 0 .. BufferLen(a) - 1 |-> <<a, k>>]]
    /\ handleOf = [p \in Posts |-> 0]
    /\ outcome = [p \in Posts |-> "none"]
    /\ polling = [p \in Posts |-> "out"]
    /\ recvPosts = [p \in Posts |-> 0]
    /\ env \in Environments

-----------------------------------------------------------------------------
\* The network.

NetUnchanged == UNCHANGED <<engineVars, outgoing, incoming, workerVars, receiver, peerOf, mem, userVars>>

\* A TCP connection breaks: each direction keeps what the kernel has received.
Break(c) ==
    /\ env.kind = "stream" /\ up[c] /\ env.breaks > 0
    /\ c[3] <= workers[c[1]][c[2]]
    /\ up' = [up EXCEPT ![c] = FALSE]
    /\ env' = [env EXCEPT !.breaks = @ - 1]
    /\ \E k \in 0 .. Len(wire[<<c, "acc">>]), l \in 0 .. Len(wire[<<c, "conn">>]) :
         wire' = [wire EXCEPT ![<<c, "acc">>] = SubSeq(@, 1, k), ![<<c, "conn">>] = SubSeq(@, 1, l)]
    /\ NetUnchanged

\* A datagram is lost, or delivered twice.
Lose(e, k) ==
    /\ env.kind = "message" /\ env.loss > 0
    /\ wire' = [wire EXCEPT ![e] = Without(@, k)]
    /\ env' = [env EXCEPT !.loss = @ - 1]
    /\ UNCHANGED up /\ NetUnchanged

Duplicate(e, k) ==
    /\ env.kind = "message" /\ env.dup > 0
    /\ wire' = [wire EXCEPT ![e] = Append(@, @[k])]
    /\ env' = [env EXCEPT !.dup = @ - 1]
    /\ UNCHANGED up /\ NetUnchanged

-----------------------------------------------------------------------------
Threads ==
    \/ \E n \in Nodes : MainStep(n)
    \/ \E p \in Posts : PollStep(p)
    \/ \E c \in Channels : SendStep(c)
    \/ \E e \in Ends : RecvStep(e)

Network ==
    \/ \E c \in Channels : Break(c)
    \/ \E e \in Ends : \E k \in DOMAIN wire[e] : Lose(e, k) \/ Duplicate(e, k)

Next == (\E p \in Posts : Post(p)) \/ Threads \/ Network

Spec == Init /\ [][Next]_vars

\* The scheduler runs every thread that can run, and a user who gave no callback
\* keeps polling.  Nothing obliges users to post or the network to fail.
Fairness ==
    /\ \A n \in Nodes : WF_vars(MainStep(n))
    /\ \A c \in Channels : WF_vars(SendStep(c))
    /\ \A e \in Ends : WF_vars(RecvStep(e))
    /\ \A p \in Posts : WF_vars(PollStep(p))

FairSpec == Spec /\ Fairness

-----------------------------------------------------------------------------
\* Properties.

\* A chunk that a sender counts as done (acknowledged, or reported by a CQE) is
\* at its destination: outgoing_ never runs ahead of the receiver's memory.
AckedIsDelivered ==
    \A n \in Nodes : \A key \in DOMAIN outgoing[n] :
    \A t \in {t \in Journeys : t.req \in DOMAIN outgoing[n][key].req_map} :
        LET ct == outgoing[n][key].req_map[t.req].chunks
            len == BufferLen(t.dst)
        IN  \A i \in ct.done :
              \A k \in ChunkOffset(len, ct.total, i) ..
                       ChunkOffset(len, ct.total, i) + ChunkLen(len, ct.total, i) - 1 :
                mem[t.dst][k] = <<t.src, k>>

\* A byte that has arrived is not overwritten: neither a late, repeated or stale
\* chunk nor another post damages what is in place.
StaysPut ==
    \A t \in Journeys : t.dst # NullAddr =>
        \A k \in DOMAIN mem[t.dst] : mem[t.dst][k] = <<t.src, k>> => mem'[t.dst][k] = mem[t.dst][k]
BytesStay == [][StaysPut]_vars

\* The count that decides when an incoming post completes is right at every
\* moment: requests with chunks missing, plus those whose last chunk's thread has
\* released it and not yet called OnReqComplete.
PendingIsExact ==
    \A n \in Nodes : \A key \in DOMAIN incoming[n] :
        LET pt == incoming[n][key]
            open == {r \in DOMAIN pt.req_map : ~IsDone(pt.req_map[r].chunks)}
            completing == {e \in Ends : /\ NodeOf(e) = n /\ receiver[e].at = "complete"
                                        /\ <<peerOf[e], receiver[e].msg.handle>> = key}
        IN  (pt.is_initiator \/ \E r \in DOMAIN pt.req_map : Plan[r[1]].op = "write")
              => pt.pending_reqs = Cardinality(open) + Cardinality(completing)

\* The entry a receive thread found with Check is still there when it calls
\* Find, and the reference Find returned when it uses it: no abort, no dangling
\* reference, although three lock acquisitions lie between.
TrackerReferencesValid ==
    /\ \A e \in Ends : receiver[e].at \notin {"abort", "dangling"}
    /\ \A c \in Channels : sender[c].at # "abort"

\* What is left of it where datagrams are repeated: the only thread that loses the entry
\* between two of its locks holds a chunk of a read of this node all of whose bytes have
\* arrived.  A chunk that is still needed, a write and a stream never do, and no
\* acknowledgement or CQE finds its post without the request.
OnlyRepeatsLoseTheirEntry ==
    /\ \A c \in Channels : sender[c].at # "abort"
    /\ \A e \in Ends : receiver[e].at \in {"abort", "dangling"} =>
         /\ env.kind = "message" /\ receiver[e].msg.type = "data"
         /\ \E p \in PostsWith(NodeOf(e), receiver[e].msg.handle) :
              Plan[p].op = "read" /\ Delivered(p)

\* The receive loop of a stream ends only when its connection breaks or the application
\* refuses an address of a post on it: every chunk finds its post registered, because its
\* channel carried the PostInfo first.
Refused(p) == \E j \in ReqsOf(p) : RemoteAddr(p, j) = NullAddr
RecvLoopsSurvive ==
    \A e \in Ends : receiver[e].at = "stop" =>
        \/ ~up[e[1]]
        \/ \E p \in Posts : /\ outcome[p] # "none" /\ Refused(p)
                             /\ Plan[p].node = e[1][1] /\ Plan[p].peer = NodeOf(e)

Service == INSTANCE PostService WITH
    status <- outcome,
    delivered <- [p \in Posts |-> Delivered(p)],
    notified <- [p \in Posts |-> recvPosts[p] > 0]
\* The transport is an implementation of PostService: a user is told of success
\* once and only after the last byte has arrived, what has arrived stays, and the
\* peer's recv_post_callback runs at most once, after the last byte.
ImplementsService == Service!Spec

\* recv_post_callback runs once per post.
NotifiedOnce == \A p \in Posts : recvPosts[p] <= 1

\* Every accepted post is reported complete to its user.
EveryPostCompletes == \A p \in Posts : outcome[p] = "pending" ~> outcome[p] # "pending"

\* The peer's user hears of every accepted post.
PeerIsNotified == \A p \in Posts : outcome[p] = "pending" ~> recvPosts[p] > 0
=============================================================================
