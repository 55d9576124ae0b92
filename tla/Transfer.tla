------------------------------ MODULE Transfer ------------------------------
(***************************************************************************)
(* The receive thread of a channel end (worker.cc RecvLoop, transfer.cc     *)
(* Recv and the handlers under it).  Every call that takes a lock of a      *)
(* tracker is a step: Check, GetChunkAddr, Find, Acquire, the payload,      *)
(* Release, OnReqComplete, the acknowledgement.                             *)
(***************************************************************************)
EXTENDS TransportState

ReceiverUnchanged == UNCHANGED <<engineVars, workerVars, handleOf, polling>>

Now(e, at) == receiver' = [receiver EXCEPT ![e].at = at]

\* Recv returned: RecvLoop takes the next message, except that an error ends
\* the loop of a stream.
Returned(e) == receiver' = [receiver EXCEPT ![e] = Idle("run")]
Failed(e) == receiver' = [receiver EXCEPT ![e] = Idle(IF env.kind = "stream" THEN "stop" ELSE "run")]

\* The messages an end can receive next: the first one of a stream, any one on a
\* message channel, whose network reorders.
Receivable(e) == IF env.kind = "stream" THEN {1} \cap DOMAIN wire[e] ELSE DOMAIN wire[e]

Receive(e, k) ==
    /\ receiver[e].at = "run" /\ k \in Receivable(e)
    /\ wire' = [wire EXCEPT ![e] = Without(@, k)]

\* recvPostInfo: the channel learns its peer and incoming_ the descriptors.
RecvPostInfo(e, k) ==
    LET n == NodeOf(e)
        msg == wire[e][k]
        added == AddOutcome(incoming[n], msg.handle, msg.reqs, msg.peer, Resolve)
    IN  /\ Receive(e, k) /\ msg.type = "info"
        /\ peerOf' = [peerOf EXCEPT ![e] = msg.peer]
        /\ incoming' = [incoming EXCEPT ![n] = AddReqs(@, msg.handle, msg.reqs, msg.peer, Resolve)]
        /\ CASE added = "unresolved" -> Failed(e)
             [] added = "recv_read" ->
                  receiver' = [receiver EXCEPT ![e] = [Idle("recv_read") EXCEPT !.msg = msg]]
             [] OTHER -> Returned(e)
        /\ UNCHANGED <<outgoing, up, env, mem, outcome, recvPosts>> /\ ReceiverUnchanged

\* processRecvRead: the reply is a write post with the peer's handle and request
\* ids, queued for the main thread, unless outgoing_ has that handle already.
\* Only the handle's registration can be seen before the post is queued.
ReplyPost(msg) ==
    [peer |-> msg.peer, handle |-> msg.handle,
     reqs |-> [j \in DOMAIN msg.reqs |->
        [op |-> "write", laddr |-> ResolvedAddr(msg.reqs[j], Resolve), raddr |-> NullAddr,
         len |-> msg.reqs[j].len, meta |-> msg.reqs[j].meta]],
     req_infos |-> [j \in DOMAIN msg.reqs |-> [msg.reqs[j] EXCEPT !.op = "write", !.raddr = NullAddr]]]

RecvRead(e) ==
    LET n == NodeOf(e)
        msg == receiver[e].msg
    IN  /\ receiver[e].at = "recv_read"
        /\ IF CanAdd(outgoing[n], msg.handle)
           THEN /\ outgoing' = [outgoing EXCEPT ![n] = AddHandle(@, msg.handle, ReplyCallback(msg.peer))]
                /\ posts' = [posts EXCEPT ![n] = Append(@, ReplyPost(msg))]
           ELSE UNCHANGED <<outgoing, posts>>
        /\ Returned(e)
        /\ UNCHANGED <<nextHandle, main, workers, workerVars, incoming, peerOf, netVars, mem, userVars>>

-----------------------------------------------------------------------------
\* An acknowledgement updates outgoing_; the callback of a completed post runs
\* after the unlock.

RecvAck(e, k) ==
    LET n == NodeOf(e)
        msg == wire[e][k]
        cb == UpdateCallback(outgoing[n], msg.handle, msg.reqid, msg.index)
    IN  /\ Receive(e, k) /\ IsAck(msg)
        /\ IF UpdateAborts(outgoing[n], msg.handle, msg.reqid)
           THEN receiver' = [receiver EXCEPT ![e] = Idle("abort")] /\ UNCHANGED outgoing
           ELSE /\ outgoing' = [outgoing EXCEPT ![n] = Update(@, msg.handle, msg.reqid, msg.index)]
                /\ IF cb = NoCallback THEN Returned(e)
                   ELSE receiver' = [receiver EXCEPT ![e] = [Idle("callback") EXCEPT !.msg = msg, !.cb = cb]]
        /\ UNCHANGED <<incoming, peerOf, up, env, mem, outcome, recvPosts>> /\ ReceiverUnchanged

RecvCallback(e) ==
    /\ receiver[e].at = "callback"
    /\ RunCallback(NodeOf(e), receiver[e].cb, receiver[e].msg.handle)
    /\ Returned(e)
    /\ UNCHANGED <<outgoing, peerOf, netVars, mem>> /\ ReceiverUnchanged

-----------------------------------------------------------------------------
\* A data chunk.

RecvData(e, k) ==
    LET msg == wire[e][k]
    IN  /\ Receive(e, k) /\ msg.type = "data" /\ ~IsAck(msg)
        /\ IF Check(incoming[NodeOf(e)], msg.handle, peerOf[e]) = "kNotFound" THEN Failed(e)
           ELSE receiver' = [receiver EXCEPT ![e] = [Idle("addr") EXCEPT !.msg = msg]]
        /\ UNCHANGED <<outgoing, incoming, peerOf, up, env, mem, outcome, recvPosts>>
        /\ ReceiverUnchanged

LookupUnchanged == UNCHANGED <<outgoing, peerOf, netVars, outcome, recvPosts>> /\ ReceiverUnchanged

\* A chunk tracker's reference is valid while the entry is.
Holds(e) == HasReq(incoming[NodeOf(e)], receiver[e].msg.handle, receiver[e].msg.reqid, peerOf[e])
ChunksAt(e) == incoming[NodeOf(e)][<<peerOf[e], receiver[e].msg.handle>>].req_map[receiver[e].msg.reqid].chunks
PutChunks(e, t) == incoming' = [incoming EXCEPT ![NodeOf(e)] =
    WithChunks(@, receiver[e].msg.handle, receiver[e].msg.reqid, peerOf[e], t)]

\* A broken connection may end within the payload of the last message on it.
CanEndShort(e) == env.kind = "stream" /\ ~up[e[1]] /\ wire[e] = <<>>

RecvAddr(e) ==
    LET addr == GetChunkAddr(incoming[NodeOf(e)], receiver[e].msg.handle, receiver[e].msg.reqid, peerOf[e])
    IN  /\ receiver[e].at = "addr"
        /\ IF addr = NullAddr THEN Failed(e)
           ELSE receiver' = [receiver EXCEPT ![e].at = "find", ![e].dst = addr]
        /\ UNCHANGED <<incoming, mem>> /\ LookupUnchanged

\* Find aborts when the entry is gone.
RecvFind(e) ==
    /\ receiver[e].at = "find"
    /\ IF Holds(e) THEN Now(e, "acquire") ELSE Now(e, "abort")
    /\ UNCHANGED <<incoming, mem>> /\ LookupUnchanged

\* The use of a reference to an erased tracker is undefined: "dangling" stands
\* for whatever follows.
RecvAcquire(e) ==
    LET i == receiver[e].msg.index
    IN  /\ receiver[e].at = "acquire"
        /\ IF ~Holds(e) THEN Now(e, "dangling") /\ UNCHANGED incoming
           ELSE /\ PutChunks(e, Acquire(ChunksAt(e), i))
                /\ CASE AcquireStatus(ChunksAt(e), i) = "kEmpty" -> Now(e, "payload")
                     [] AcquireStatus(ChunksAt(e), i) = "kDone" -> Now(e, "ack")
                     [] AcquireStatus(ChunksAt(e), i) = "kBusy" ->
                          Returned(e) \/ (CanEndShort(e) /\ Failed(e))
        /\ UNCHANGED mem /\ LookupUnchanged

\* The payload goes straight into the buffer.
RecvPayload(e) ==
    LET msg == receiver[e].msg
    IN  /\ receiver[e].at = "payload"
        /\ \E n \in IF CanEndShort(e) THEN 0 .. msg.len ELSE {msg.len} :
             /\ mem' = StoreBytes(receiver[e].dst, msg.offset, [k \in 0 .. n - 1 |-> msg.payload[k]])
             /\ Now(e, IF n = msg.len THEN "full" ELSE "short")
        /\ UNCHANGED incoming /\ LookupUnchanged

RecvRelease(e) ==
    LET i == receiver[e].msg.index
        success == receiver[e].at = "full"
    IN  /\ receiver[e].at \in {"full", "short"}
        /\ IF ~Holds(e) THEN Now(e, "dangling") /\ UNCHANGED incoming
           ELSE /\ PutChunks(e, Release(ChunksAt(e), i, success))
                /\ IF ReleaseIsLast(ChunksAt(e), i, success) THEN Now(e, "complete")
                   ELSE IF success THEN Now(e, "ack") ELSE Failed(e)
        /\ UNCHANGED mem /\ LookupUnchanged

RecvComplete(e) ==
    /\ receiver[e].at = "complete"
    /\ CompleteIncomingReq(NodeOf(e), receiver[e].msg.handle, peerOf[e])
    /\ Now(e, "ack")
    /\ UNCHANGED <<outgoing, peerOf, netVars, mem>> /\ ReceiverUnchanged

\* sendAck: the header comes back with length zero.
RecvSendAck(e) ==
    LET msg == receiver[e].msg
    IN  /\ receiver[e].at = "ack"
        /\ \/ CanTransmit(e) /\ Transmit(e, [msg EXCEPT !.len = 0, !.payload = <<>>]) /\ Returned(e)
           \/ ~up[e[1]] /\ UNCHANGED wire /\ Failed(e)
        /\ UNCHANGED <<outgoing, incoming, peerOf, up, env, mem, outcome, recvPosts>>
        /\ ReceiverUnchanged

\* A read of a header on a broken and drained connection fails.
RecvEof(e) ==
    /\ receiver[e].at = "run" /\ CanEndShort(e)
    /\ receiver' = [receiver EXCEPT ![e] = Idle("stop")]
    /\ UNCHANGED <<incoming, mem>> /\ LookupUnchanged

RecvStep(e) ==
    \/ \E k \in Receivable(e) : RecvPostInfo(e, k) \/ RecvAck(e, k) \/ RecvData(e, k)
    \/ RecvRead(e) \/ RecvCallback(e) \/ RecvAddr(e) \/ RecvFind(e) \/ RecvAcquire(e)
    \/ RecvPayload(e) \/ RecvRelease(e) \/ RecvComplete(e) \/ RecvSendAck(e) \/ RecvEof(e)
=============================================================================
