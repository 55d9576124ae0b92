------------------------------- MODULE Engine -------------------------------
(***************************************************************************)
(* Post() and Poll() on the user's threads (transport_impl.cc, engine.cc    *)
(* Enqueue and QueryUpdate) and the engine's main thread (mainLoop, process,*)
(* processWrite).  The main thread hands one info or one chunk to a worker  *)
(* per step, so that workers run while a post is still being split.         *)
(***************************************************************************)
EXTENDS TransportState

\* genHandle: the increment wraps and skips kInvalidHandle, which is 0.
genHandle(h) == IF h = MaxHandle THEN 1 ELSE h + 1

Tracker(op) == IF op = "write" THEN outgoing ELSE incoming

\* A request's metadata names it, and also serves as its request id: the ids are
\* counted up from a random 32-bit start, and those of two requests are taken to
\* differ.
RequestsOf(p) ==
    [j \in ReqsOf(p) |-> [op |-> Plan[p].op, laddr |-> Plan[p].reqs[j].laddr,
        raddr |-> Plan[p].reqs[j].raddr, len |-> Plan[p].reqs[j].len, meta |-> <<p, j>>]]

\* Post(): Enqueue registers the handle and queues the post under mu_, or
\* refuses a handle that is still in the tracker.
Post(p) ==
    LET n == Plan[p].node
        h == genHandle(nextHandle[n])
        cb == IF Plan[p].callback THEN UserCallback ELSE NoCallback
        post == [peer |-> Plan[p].peer, handle |-> h, reqs |-> RequestsOf(p), req_infos |-> <<>>]
    IN  /\ outcome[p] = "none" /\ p \in env.posts
        /\ nextHandle' = [nextHandle EXCEPT ![n] = h]
        /\ IF CanAdd(Tracker(Plan[p].op)[n], h)
           THEN /\ IF Plan[p].op = "write"
                   THEN /\ outgoing' = [outgoing EXCEPT ![n] = AddHandle(@, h, cb)]
                        /\ UNCHANGED incoming
                   ELSE /\ incoming' = [incoming EXCEPT ![n] = AddHandle(@, h, cb)]
                        /\ UNCHANGED outgoing
                /\ posts' = [posts EXCEPT ![n] = Append(@, post)]
                /\ handleOf' = [handleOf EXCEPT ![p] = h]
                /\ outcome' = [outcome EXCEPT ![p] = "pending"]
           ELSE /\ outcome' = [outcome EXCEPT ![p] = "rejected"]
                /\ UNCHANGED <<outgoing, incoming, posts, handleOf>>
        /\ UNCHANGED <<main, workers, workerVars, receiver, peerOf, netVars, mem, polling, recvPosts>>

-----------------------------------------------------------------------------
\* Poll(handle) by a user who gave no callback: QueryUpdate looks the handle up
\* in outgoing_ and then in incoming_, and removes it from the one that has it
\* complete.  Each of the calls locks a tracker of its own.

CanPoll(p) == outcome[p] = "pending" /\ ~Plan[p].callback

PollUnchanged == UNCHANGED <<engineVars, workerVars, receiver, peerOf, netVars, mem, handleOf, recvPosts>>

PollOutgoing(p) ==
    LET s == Check(outgoing[Plan[p].node], handleOf[p], NoPeer)
    IN  /\ CanPoll(p) /\ polling[p] = "out"
        /\ s # "kInProgress"
        /\ polling' = [polling EXCEPT ![p] = IF s = "kSuccess" THEN "removeOut" ELSE "in"]
        /\ UNCHANGED <<outgoing, incoming, outcome>> /\ PollUnchanged

PollIncoming(p) ==
    LET s == Check(incoming[Plan[p].node], handleOf[p], NoPeer)
    IN  /\ CanPoll(p) /\ polling[p] = "in"
        /\ polling' = [polling EXCEPT ![p] = IF s = "kSuccess" THEN "removeIn" ELSE "out"]
        /\ outcome' = IF s = "kNotFound" THEN [outcome EXCEPT ![p] = "not_found"] ELSE outcome
        /\ UNCHANGED <<outgoing, incoming>> /\ PollUnchanged

PollRemove(p) ==
    LET n == Plan[p].node
        key == <<NoPeer, handleOf[p]>>
    IN  /\ polling[p] \in {"removeOut", "removeIn"}
        /\ outgoing' = IF polling[p] = "removeOut" THEN [outgoing EXCEPT ![n] = Erase(@, key)] ELSE outgoing
        /\ incoming' = IF polling[p] = "removeIn" THEN [incoming EXCEPT ![n] = Erase(@, key)] ELSE incoming
        /\ outcome' = [outcome EXCEPT ![p] = "success"]
        /\ polling' = [polling EXCEPT ![p] = "out"]
        /\ PollUnchanged

-----------------------------------------------------------------------------
\* The main thread.

MainIdle == [at |-> "idle"]
Least(a, b) == IF a < b THEN a ELSE b

\* process(): the descriptors of a post.  A read registers its local address,
\* and announces the remote one.
RequestInfos(post, nworkers) ==
    IF post.req_infos # <<>> THEN post.req_infos
    ELSE [j \in DOMAIN post.reqs |->
            LET req == post.reqs[j]
            IN  [reqid |-> req.meta, nchunks |-> Least(nworkers, req.len), len |-> req.len, op |-> req.op,
                 raddr |-> IF req.op = "write" THEN req.raddr ELSE req.laddr, meta |-> req.meta]]

AnnouncedInfos(post, req_infos) ==
    [j \in DOMAIN req_infos |-> [req_infos[j] EXCEPT !.raddr =
        IF post.req_infos = <<>> THEN post.reqs[j].raddr ELSE @]]

\* outgoing_ has no resolve_addr_callback_; incoming_'s is only asked for null
\* addresses, and a local read's address is not null.
NoResolve == [meta \in Requests |-> NullAddr]

\* mainLoop and process up to the tracker's Add: pop a post, connect when there
\* are too few workers, and drop the post when there is none at all.
MainLoop(n) ==
    /\ main[n] = MainIdle /\ posts[n] # <<>>
    /\ LET post == Head(posts[n])
           have == workers[n][post.peer]
       IN  \E connected \in IF have < NumConns THEN env.counts ELSE {0} :
             LET total == have + connected
                 req_infos == RequestInfos(post, total)
                 is_write == post.reqs[1].op = "write"
             IN  /\ workers' = [workers EXCEPT ![n][post.peer] = total]
                 /\ posts' = [posts EXCEPT ![n] = Tail(@)]
                 /\ IF total = 0 THEN UNCHANGED <<main, outgoing, incoming>>
                    ELSE /\ outgoing' = IF ~is_write THEN outgoing ELSE
                              [outgoing EXCEPT ![n] = AddReqs(@, post.handle, req_infos, NoPeer, NoResolve)]
                         /\ incoming' = IF is_write THEN incoming ELSE
                              [incoming EXCEPT ![n] = AddReqs(@, post.handle, req_infos, NoPeer, Resolve)]
                         /\ main' = [main EXCEPT ![n] =
                              [at |-> IF post.req_infos = <<>> THEN "infos" ELSE "chunks",
                               post |-> [post EXCEPT !.req_infos = AnnouncedInfos(post, req_infos)],
                               w |-> 1, r |-> 1, i |-> 0]]
    /\ UNCHANGED <<nextHandle, workerVars, receiver, peerOf, netVars, mem, userVars>>

MainUnchanged ==
    UNCHANGED <<nextHandle, posts, workers, outgoing, incoming, sender, receiver, peerOf, netVars, mem, userVars>>

\* The PostInfo goes to every worker of the peer.
LastInfoWorker_configured(n, peer) == Least(NumConns, workers[n][peer])
LastInfoWorker(n, peer) == workers[n][peer]

\* The next worker gets the PostInfo; EnqueueInfo ignores a one-sided channel.
MainEnqueueInfo(n) ==
    LET m == main[n]
        post == m.post
    IN  /\ m.at = "infos"
        /\ infos' = IF env.kind = "onesided" THEN infos ELSE
             [infos EXCEPT ![<<n, post.peer, m.w>>] =
                Append(@, [type |-> "info", handle |-> post.handle, reqs |-> post.req_infos, peer |-> n])]
        /\ main' = [main EXCEPT ![n] =
             IF m.w < LastInfoWorker(n, post.peer) THEN [m EXCEPT !.w = @ + 1]
             ELSE IF post.reqs[1].op = "write" THEN [m EXCEPT !.at = "chunks", !.w = 1]
             ELSE MainIdle]
        /\ UNCHANGED chunks /\ MainUnchanged

\* processWrite: chunk i of a request, in the closed form of the running offset
\* (ChunkSplit checks the loop itself).
ChunkLen(len, n, i) == len \div n + IF i < len % n THEN 1 ELSE 0
ChunkOffset(len, n, i) == i * (len \div n) + Least(i, len % n)

ChunkWorker(i, nworkers) == 1 + (i % nworkers)

MainEnqueueChunk(n) ==
    LET m == main[n]
        post == m.post
        info == post.req_infos[m.r]
        w == ChunkWorker(m.i, workers[n][post.peer])
    IN  /\ m.at = "chunks"
        /\ chunks' = [chunks EXCEPT ![<<n, post.peer, w>>] =
             Append(@, [handle |-> post.handle, reqid |-> info.reqid, index |-> m.i,
                        len |-> ChunkLen(info.len, info.nchunks, m.i),
                        offset |-> ChunkOffset(info.len, info.nchunks, m.i),
                        raddr |-> info.raddr, laddr |-> post.reqs[m.r].laddr])]
        /\ main' = [main EXCEPT ![n] =
             IF m.i + 1 < info.nchunks THEN [m EXCEPT !.i = @ + 1]
             ELSE IF m.r < Len(post.reqs) THEN [m EXCEPT !.i = 0, !.r = @ + 1]
             ELSE MainIdle]
        /\ UNCHANGED infos /\ MainUnchanged

MainStep(n) == MainLoop(n) \/ MainEnqueueInfo(n) \/ MainEnqueueChunk(n)
PollStep(p) == PollOutgoing(p) \/ PollIncoming(p) \/ PollRemove(p)
=============================================================================
