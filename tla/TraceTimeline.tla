---------------------------- MODULE TraceTimeline ---------------------------
(***************************************************************************)
(* TraceRecorder and the first half of the Chrome trace exporter: the       *)
(* recorder turns the stages of a post into events, the ring buffer hands   *)
(* some of them to the exporter in any order, and AssembleTimelines groups  *)
(* them by handle into post, request and chunk timelines.                   *)
(***************************************************************************)
EXTENDS Integers, Sequences, FiniteSets

CONSTANTS
    Stamps,       \* timestamps; 0 in a cleared slot
    Handles,      \* handles; 0 is kInvalidHandle
    ReqIds,       \* request ids; 0 is kInvalidReqId
    ChunkIdxs,    \* chunk indices
    Workers,      \* worker ids
    MaxEvents     \* bound: events of a snapshot

ASSUME TimelineAssumption ==
    /\ 0 \in Stamps /\ 0 \in Handles /\ Stamps \cup Handles \cup ReqIds \cup ChunkIdxs \subseteq Nat
    /\ Workers \subseteq Int /\ MaxEvents \in Nat

VARIABLES
    snapshot,   \* the set of events grouped so far
    posts       \* PostState of each handle met

timelineVars == <<snapshot, posts>>

kNoChunk == -1
noEvent == [ts |-> 0, handle |-> 0, reqid |-> 0, stage |-> "none", metadata |-> 0,
            worker_id |-> 0, chunk_idx |-> kNoChunk, metric1 |-> 0, metric2 |-> 0]

-----------------------------------------------------------------------------
\* The events of the recorder.

RecordConnSetupStage(ts, handle, metric1, stage) ==
    [noEvent EXCEPT !.ts = ts, !.handle = handle, !.stage = stage, !.metric1 = metric1]
RecordSendChunkStage(ts, handle, reqid, index, len, worker, stage) ==
    [noEvent EXCEPT !.ts = ts, !.handle = handle, !.reqid = reqid, !.stage = stage,
                    !.worker_id = worker, !.chunk_idx = index, !.metric1 = len]
RecordCompletionStage(ts, handle, reqid, index, worker, stage) ==
    [noEvent EXCEPT !.ts = ts, !.handle = handle, !.reqid = reqid, !.stage = stage,
                    !.worker_id = worker, !.chunk_idx = index]
RecordEngineEnqueued(ts, handle, n, stage) ==
    [noEvent EXCEPT !.ts = ts, !.handle = handle, !.stage = stage, !.metric1 = n]
RecordEngineDequeued(ts, handle, reqid, op, len) ==
    [noEvent EXCEPT !.ts = ts, !.handle = handle, !.reqid = reqid,
                    !.stage = "kEngineDequeued", !.metadata = op, !.metric1 = len]
RecordTxAckRcvd(ts, handle, reqid, index, worker, payload, acquire) ==
    [noEvent EXCEPT !.ts = ts, !.handle = handle, !.reqid = reqid, !.stage = "kTxAckRcvd",
                    !.worker_id = -worker, !.chunk_idx = index,
                    !.metric1 = payload, !.metric2 = acquire]
RecordPickup(ts, handle, worker, stage) ==
    [noEvent EXCEPT !.ts = ts, !.handle = handle, !.stage = stage, !.worker_id = worker]

Events ==
    UNION {UNION {
        {RecordEngineEnqueued(ts, h, 1, stage) : stage \in {"kPostEntry", "kEngineEnqueued"}},
        {RecordConnSetupStage(ts, h, 2, stage) :
            stage \in {"kConnSetupStart", "kGetPeerHostInfoDone", "kConnSetupDone"}},
        {RecordPickup(ts, h, 1, "kCallbackDone"), RecordPickup(ts, h, 0, "kPollReaped")},
        {RecordEngineDequeued(ts, h, r, 1, 4) : r \in ReqIds},
        {RecordSendChunkStage(ts, h, r, c, 2, w, stage) : r \in ReqIds, c \in ChunkIdxs, w \in Workers,
            stage \in {"kWorkerEnqueued", "kWorkerDequeued", "kTxWriteDone"}},
        {RecordTxAckRcvd(ts, h, r, c, w, w, ts) : r \in ReqIds, c \in ChunkIdxs, w \in Workers},
        {RecordCompletionStage(ts, h, r, c, w, stage) : r \in ReqIds, c \in ChunkIdxs, w \in Workers,
            stage \in {"kRequestDone", "kAllRequestsDone"}}}
        : ts \in Stamps, h \in Handles}

-----------------------------------------------------------------------------
\* Timelines of a chunk, a request and a post when nothing was captured.

noChunk == [size |-> 0, send_worker_id |-> 0, recv_worker_id |-> 0, t_enqueued |-> 0,
            t_dequeued |-> 0, t_tx_done |-> 0, t_ack |-> 0, rx_acquire |-> 0, rx_payload |-> 0]
noRequest == [op |-> 0, len |-> 0, t_dequeued |-> 0, t_done |-> 0, done_worker_id |-> 0,
              chunks |-> <<>>]
noPost == [t_entry |-> 0, t_enqueued |-> 0, t_conn_start |-> 0, t_host_info_done |-> 0,
           t_conn_done |-> 0, num_channels |-> 0, t_all_done |-> 0, all_done_worker_id |-> 0,
           t_completed |-> 0, mode |-> "kUnknown", requests |-> <<>>]

IsEarliest_latest(ts, recorded) == recorded = 0 \/ ts > recorded
IsEarliest(ts, recorded) == recorded = 0 \/ ts < recorded

\* operator[] of a map: the value of a key, or the default.
At(map, key, default) == IF key \in DOMAIN map THEN map[key] ELSE default
With(map, key, value) == [k \in DOMAIN map \cup {key} |-> IF k = key THEN value ELSE map[k]]

\* The request and the chunk of an event, added if they are new.
FindOrAddRequest(post, ev) == At(post.requests, ev.reqid, noRequest)
FindOrAddChunk(post, ev) == At(FindOrAddRequest(post, ev).chunks, ev.chunk_idx, noChunk)
PutRequest(post, ev, req) ==
    IF ev.reqid = 0 THEN post ELSE [post EXCEPT !.requests = With(@, ev.reqid, req)]
PutChunk(post, ev, c) ==
    IF ev.chunk_idx = kNoChunk THEN post
    ELSE LET req == FindOrAddRequest(post, ev)
         IN  PutRequest(post, ev, [req EXCEPT !.chunks = With(@, ev.chunk_idx, c)])

SendStages == [kWorkerEnqueued |-> "t_enqueued", kWorkerDequeued |-> "t_dequeued",
               kTxWriteDone |-> "t_tx_done"]
RecordSendStage(post, ev) ==
    LET c == FindOrAddChunk(post, ev)
    IN  PutChunk(post, ev, [c EXCEPT !.size = ev.metric1, !.send_worker_id = ev.worker_id,
                                     ![SendStages[ev.stage]] = ev.ts])

\* ProcessEvent, one operator for each kind of stage.
PostStages == [kPostEntry |-> "t_entry", kEngineEnqueued |-> "t_enqueued",
               kConnSetupStart |-> "t_conn_start", kGetPeerHostInfoDone |-> "t_host_info_done",
               kConnSetupDone |-> "t_conn_done", kCallbackDone |-> "t_completed",
               kPollReaped |-> "t_completed"]
Pickups == [kCallbackDone |-> "kCallback", kPollReaped |-> "kPoll"]

ProcessPostStage(post, ev) ==
    LET stamped == [post EXCEPT ![PostStages[ev.stage]] = ev.ts]
    IN  IF ev.stage = "kConnSetupDone" THEN [stamped EXCEPT !.num_channels = ev.metric1]
        ELSE IF ev.stage \in DOMAIN Pickups THEN [stamped EXCEPT !.mode = Pickups[ev.stage]]
        ELSE stamped

ProcessAllRequestsDone(post, ev) ==
    IF IsEarliest(ev.ts, post.t_all_done)
    THEN [post EXCEPT !.t_all_done = ev.ts, !.all_done_worker_id = ev.worker_id]
    ELSE post

ProcessRequestStage(post, ev) ==
    LET req == FindOrAddRequest(post, ev)
    IN  PutRequest(post, ev,
            IF ev.stage = "kEngineDequeued"
            THEN [req EXCEPT !.op = ev.metadata, !.len = ev.metric1, !.t_dequeued = ev.ts]
            ELSE IF IsEarliest(ev.ts, req.t_done)
            THEN [req EXCEPT !.t_done = ev.ts, !.done_worker_id = ev.worker_id]
            ELSE req)

ProcessTxAckRcvd(post, ev) ==
    LET c == FindOrAddChunk(post, ev)
    IN  PutChunk(post, ev,
            IF IsEarliest(ev.ts, c.t_ack)
            THEN [c EXCEPT !.t_ack = ev.ts, !.recv_worker_id = ev.worker_id,
                           !.rx_payload = ev.metric1, !.rx_acquire = ev.metric2]
            ELSE c)

ProcessEvent(post, ev) ==
    CASE ev.stage \in DOMAIN PostStages -> ProcessPostStage(post, ev)
      [] ev.stage = "kAllRequestsDone" -> ProcessAllRequestsDone(post, ev)
      [] ev.stage \in {"kEngineDequeued", "kRequestDone"} -> ProcessRequestStage(post, ev)
      [] ev.stage \in DOMAIN SendStages -> RecordSendStage(post, ev)
      [] ev.stage = "kTxAckRcvd" -> ProcessTxAckRcvd(post, ev)
      [] OTHER -> post

TimelineInit == snapshot = {} /\ posts = <<>>

\* One turn of GroupEventsByHandle: cleared slots are skipped.
GroupEvent(ev) ==
    /\ ev.handle # 0 /\ ev.ts # 0
    /\ snapshot' = snapshot \cup {ev}
    /\ posts' = With(posts, ev.handle, ProcessEvent(At(posts, ev.handle, noPost), ev))

TimelineNext == Cardinality(snapshot) < MaxEvents /\ \E ev \in Events \ snapshot : GroupEvent(ev)

-----------------------------------------------------------------------------
Of(stage) == {e \in snapshot : e.stage = stage}

\* A timestamp and the value recorded with it are those of an earliest event.
FromEarliest(events, ts, value, valueOf) ==
    IF events = {} THEN ts = 0
    ELSE \E e \in events : /\ ts = e.ts /\ value = valueOf[e]
                           /\ \A o \in events : e.ts <= o.ts

(* AssembleTimelines "keeps the earliest" acknowledgement of a chunk and
   completion of a request and of a post, with the worker and the timings that
   came with it, in whatever order the ring buffer yields the events. *)
EarliestIsKept ==
    \A h \in DOMAIN posts :
        LET post == posts[h]
            worker == [e \in snapshot |-> e.worker_id]
            ofReq(r, stage) == {e \in Of(stage) : e.handle = h /\ e.reqid = r}
        IN  /\ FromEarliest({e \in Of("kAllRequestsDone") : e.handle = h},
                            post.t_all_done, post.all_done_worker_id, worker)
            /\ \A r \in DOMAIN post.requests :
                 LET req == post.requests[r]
                 IN  /\ FromEarliest(ofReq(r, "kRequestDone"), req.t_done, req.done_worker_id, worker)
                     /\ \A c \in DOMAIN req.chunks :
                          FromEarliest({e \in ofReq(r, "kTxAckRcvd") : e.chunk_idx = c}, req.chunks[c].t_ack,
                              <<req.chunks[c].recv_worker_id, req.chunks[c].rx_payload>>,
                              [e \in snapshot |-> <<e.worker_id, e.metric1>>])

=============================================================================
