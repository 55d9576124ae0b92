---------------------------- MODULE TraceRenderer ---------------------------
(***************************************************************************)
(* TimelineRenderer of the Chrome trace exporter: it walks the assembled    *)
(* timelines of the posts and emits slices on tracks (pid, tid), moving a   *)
(* slice behind the one before it on its track; the arrows between slices   *)
(* are left out.  Timestamps of a timeline are 0 when a stage was not       *)
(* captured and otherwise any value: stages come from different threads.    *)
(***************************************************************************)
EXTENDS Integers, Sequences, FiniteSets

CONSTANTS
    PostStamps,     \* the stamps a post may have: entry, enqueued, connection setup started,
                    \* host info received, setup done, dequeued; all but the first may be 0
    RequestStamps,  \* of a request: dequeued, last chunk enqueued
    ChunkStamps,    \* of a chunk: enqueued, dequeued, sent, acknowledged; and the receiver's
                    \* times to acquire the chunk and to read its payload, from the ACK
    DoneStamps,     \* of a completion: all requests done, picked up
    SendIds,      \* worker ids of the sender's stages; 0 is unknown
    RecvIds,      \* worker ids piggybacked on ACKs
    MaxPosts,     \* bound: posts rendered
    MaxRequests,  \* bound: requests of a post
    MaxChunks     \* bound: chunk indices of a request

ASSUME RendererAssumption ==
    /\ PostStamps \subseteq [1 .. 6 -> Nat] /\ \A p \in PostStamps : p[1] > 0
    /\ RequestStamps \subseteq [1 .. 2 -> Nat] /\ ChunkStamps \subseteq [1 .. 6 -> Nat]
    /\ DoneStamps \subseteq [1 .. 2 -> Nat] /\ SendIds \subseteq Int /\ RecvIds \subseteq Int
    /\ MaxPosts \in Nat /\ MaxRequests \in Nat /\ MaxChunks \in Nat

VARIABLES
    rend,     \* the renderer: its *_end_us_ members, and what the last step emitted
    busy,     \* the largest end of a slice emitted before, of each track
    at,       \* what is rendered next
    count     \* posts and the entry of the last one, requests of it rendered; the least
              \* index of the next chunk

rendererVars == <<rend, busy, at, count>>

Larger(a, b) == IF a > b THEN a ELSE b
Elapsed(start, end) == IF start > 0 /\ end > start THEN end - start ELSE 0
ClampSliceDur(dur) == Larger(1, dur)
ClampedElapsed(start, end) == ClampSliceDur(Elapsed(start, end))

\* Tracks, and the end of the last slice of a worker's track.
kCallerTrack == <<1, 1>>
kEngineTrack == <<1, 2>>
SendTrack(idx) == <<1, 100 + idx>>
RecvTrack(idx) == <<2, 200 + idx>>
AckTrack(idx) == <<1, 300 + idx>>
EndOf(ends, idx) == IF idx \in DOMAIN ends THEN ends[idx] ELSE 0
WithEnd(ends, idx, end) == [i \in DOMAIN ends \cup {idx} |-> IF i = idx THEN end ELSE ends[i]]

SendWorkerIdx(c) == IF c.send_worker_id > 0 THEN c.send_worker_id ELSE c.index + 1
RecvWorkerIdx(c) == IF c.recv_worker_id < 0 THEN -c.recv_worker_id ELSE SendWorkerIdx(c)
AckWorkerIdx(id) == Larger(1, IF id < 0 THEN -id ELSE id)

\* What a step emits.
AddSlice(r, track, ts, dur) ==
    [r EXCEPT !.slices = @ \cup {[track |-> track, from |-> ts, to |-> ts + dur]}]

RendererInit ==
    /\ rend = [caller_end |-> 0, engine_end |-> 0, send_end |-> <<>>, rx_end |-> <<>>,
               ack_end |-> <<>>, fanout |-> 0, slices |-> {}]
    /\ busy = <<>> /\ at = "post" /\ count = [posts |-> 0, entry |-> 0, requests |-> 0, chunks |-> 0]

\* The step before is over: its slices only matter by the end they leave on a track.
Settle(r) == [r EXCEPT !.slices = {}]
BusyAfter ==
    [t \in DOMAIN busy \cup {s.track : s \in rend.slices} |->
        LET ends == {s.to : s \in {s \in rend.slices : s.track = t}}
                    \cup {IF t \in DOMAIN busy THEN busy[t] ELSE 0}
        IN  CHOOSE e \in ends : \A o \in ends : o <= e]

-----------------------------------------------------------------------------
\* EmitPost, up to its requests.

EmitPostEnqueue_early(r, post) ==
    LET dur == ClampedElapsed(post.t_entry, post.t_enqueued)
    IN  AddSlice([r EXCEPT !.caller_end = post.t_entry + dur], kCallerTrack, post.t_entry, dur)
EmitPostEnqueue(r, post) ==
    LET t_entry == Larger(post.t_entry, r.caller_end)
        dur == ClampedElapsed(t_entry, post.t_enqueued)
    IN  AddSlice([r EXCEPT !.caller_end = t_entry + dur], kCallerTrack, t_entry, dur)

\* EngineStartUs: T_ConnSetupStart, or the first T_EngineDequeued.
EngineStartUs(post) == IF post.t_conn_start > 0 THEN post.t_conn_start ELSE post.t_dequeued

EmitEngineQueueWait(r, post) ==
    LET start == EngineStartUs(post)
        q_start == Larger(r.caller_end, r.engine_end)
        cur == Larger(q_start, start)
        waits == cur > q_start \/ Elapsed(post.t_enqueued, start) > 0
        dur == ClampSliceDur(cur - q_start)
        engine_end == IF waits THEN q_start + dur ELSE cur
        emitted == IF waits THEN AddSlice(r, kEngineTrack, q_start, dur) ELSE r
    IN  [emitted EXCEPT !.engine_end = engine_end]

EmitConnSetup(r, post) ==
    LET dur == ClampedElapsed(r.engine_end, post.t_conn_done)
        host_info == Elapsed(post.t_conn_start, post.t_host_info_done)
        connect == Elapsed(Larger(post.t_conn_start, post.t_host_info_done), post.t_conn_done)
        whole == AddSlice(r, kEngineTrack, r.engine_end, dur)
        control == IF host_info > 0 /\ host_info <= dur
                   THEN AddSlice(whole, kEngineTrack, r.engine_end, host_info) ELSE whole
        socket == IF connect > 0 /\ host_info + connect <= dur
                  THEN AddSlice(control, kEngineTrack, r.engine_end + host_info, connect) ELSE control
    IN  IF post.t_conn_start = 0 /\ post.t_conn_done = 0 THEN r
        ELSE [socket EXCEPT !.engine_end = @ + dur]

\* Timelines come sorted by their entry.
EmitPost(post) ==
    /\ at = "post" /\ count.posts < MaxPosts /\ count.entry <= post.t_entry
    /\ busy' = BusyAfter
    /\ rend' = EmitConnSetup(EmitEngineQueueWait(EmitPostEnqueue(Settle(rend), post), post), post)
    /\ at' = "request" /\ count' = [posts |-> count.posts + 1, entry |-> post.t_entry,
                                     requests |-> 0, chunks |-> 0]

-----------------------------------------------------------------------------
\* EmitRequest: the fan-out of the request, its chunks, and its completion.

EmitRequestFanout(t_dequeued, t_last_enqueued) ==
    LET start == Larger(rend.engine_end, t_dequeued)
        dur == ClampedElapsed(start, t_last_enqueued)
    IN  /\ at = "request" /\ count.requests < MaxRequests
        /\ busy' = BusyAfter
        /\ rend' = AddSlice([Settle(rend) EXCEPT !.engine_end = start + dur, !.fanout = start],
                            kEngineTrack, start, dur)
        /\ at' = "chunk" /\ count' = [count EXCEPT !.requests = @ + 1, !.chunks = 0]

\* The slices of the receiver, inferred from the timings the ACK carries.
EmitRemoteRecv(r, c, t_dequeued, t_ack) ==
    LET idx == RecvWorkerIdx(c)
        track == RecvTrack(idx)
        total == c.rx_acquire + c.rx_payload
        rtt == IF t_ack > t_dequeued THEN t_ack - t_dequeued ELSE ClampSliceDur(total)
        transit == IF rtt > total THEN rtt - total ELSE 0
        start == Larger(t_dequeued + transit \div 2, EndOf(r.rx_end, idx))
        acquired == start + ClampSliceDur(c.rx_acquire)
        done == acquired + ClampSliceDur(c.rx_payload)
        outer == AddSlice([r EXCEPT !.rx_end = WithEnd(@, idx, done)], track, start, done - start)
        acquire == AddSlice(outer, track, start, acquired - start)
    IN  AddSlice(acquire, track, acquired, done - acquired)

EmitChunkAck(r, c, t_dequeued, t_tx_done) ==
    LET idx == SendWorkerIdx(c)
        t_ack == IF c.t_ack >= t_tx_done THEN c.t_ack
                 ELSE Larger(t_tx_done, t_dequeued + Elapsed(c.t_dequeued, c.t_ack))
        start == Larger(EndOf(r.ack_end, idx), IF t_ack > 1 THEN t_ack - 1 ELSE t_ack)
        dur == IF t_ack >= start THEN t_ack - start + 1 ELSE 1
        received == EmitRemoteRecv(r, c, t_dequeued, t_ack)
    IN  IF c.t_ack = 0 THEN r
        ELSE AddSlice([received EXCEPT !.ack_end = WithEnd(@, idx, start + dur)],
                      AckTrack(idx), start, dur)

EmitChunk(c) ==
    LET r == Settle(rend)
        idx == SendWorkerIdx(c)
        track == SendTrack(idx)
        enqueued == IF c.t_enqueued > 0 THEN Larger(c.t_enqueued, r.fanout) ELSE r.fanout
        q_start == Larger(enqueued, EndOf(r.send_end, idx))
        q_dur == Elapsed(q_start, Larger(q_start, c.t_dequeued))
        waits == q_dur > 0 \/ Elapsed(c.t_enqueued, c.t_dequeued) > 0
        dequeued == IF waits THEN q_start + ClampSliceDur(q_dur) ELSE Larger(q_start, c.t_dequeued)
        tx_done == dequeued + ClampedElapsed(c.t_dequeued, c.t_tx_done)
        queued == IF waits THEN AddSlice(r, track, q_start, dequeued - q_start) ELSE r
        sent == AddSlice([queued EXCEPT !.send_end = WithEnd(@, idx, tx_done)],
                         track, dequeued, tx_done - dequeued)
    IN  /\ at = "chunk"
        /\ busy' = BusyAfter
        /\ rend' = EmitChunkAck(sent, c, dequeued, tx_done)
        /\ count' = [count EXCEPT !.chunks = c.index + 1] /\ UNCHANGED at

\* kRequestDone is an instant: it leaves the ends alone.
EndRequest ==
    /\ at = "chunk" /\ at' = "request"
    /\ UNCHANGED <<rend, busy, count>>

-----------------------------------------------------------------------------
\* EmitCompletion: the callback on the worker's track, or the poll on the caller's.

EmitCompletion(post) ==
    LET r == Settle(rend)
        idx == AckWorkerIdx(post.all_done_worker_id)
        t_all_done == Larger(post.t_all_done, EndOf(r.ack_end, idx))
        cb_dur == ClampedElapsed(t_all_done, post.t_completed)
        wait_start == Larger(t_all_done, r.caller_end)
        t_completed == Larger(wait_start, post.t_completed)
        wait_dur == Elapsed(wait_start, t_completed)
        waited == IF wait_dur > 0 THEN AddSlice(r, kCallerTrack, wait_start, wait_dur) ELSE r
    IN  /\ at = "request" /\ at' = "post"
        /\ busy' = BusyAfter
        /\ rend' =
             IF post.t_all_done = 0 \/ post.mode = "unknown" THEN r
             ELSE IF post.mode = "callback"
             THEN AddSlice([r EXCEPT !.ack_end = WithEnd(@, idx, t_all_done + cb_dur)],
                           AckTrack(idx), t_all_done, cb_dur)
             ELSE AddSlice([waited EXCEPT !.caller_end = t_completed + 1],
                           kCallerTrack, t_completed, 1)
        /\ UNCHANGED count

RendererNext ==
    \/ \E p \in PostStamps :
          EmitPost([t_entry |-> p[1], t_enqueued |-> p[2], t_conn_start |-> p[3],
                    t_host_info_done |-> p[4], t_conn_done |-> p[5], t_dequeued |-> p[6]])
    \/ \E q \in RequestStamps : EmitRequestFanout(q[1], q[2])
    \/ \E index \in count.chunks .. MaxChunks - 1, c \in ChunkStamps, sw \in SendIds, rw \in RecvIds :
          EmitChunk([index |-> index, send_worker_id |-> sw, recv_worker_id |-> rw,
                     t_enqueued |-> c[1], t_dequeued |-> c[2], t_tx_done |-> c[3],
                     t_ack |-> c[4], rx_acquire |-> c[5], rx_payload |-> c[6]])
    \/ EndRequest
    \/ \E d \in DoneStamps, mode \in {"unknown", "callback", "poll"}, w \in SendIds :
          EmitCompletion([t_all_done |-> d[1], t_completed |-> d[2], mode |-> mode,
                          all_done_worker_id |-> w])

-----------------------------------------------------------------------------
\* Two slices of a track are nested or share no instant.
Nested(a, b) ==
    \/ a.to <= b.from \/ b.to <= a.from
    \/ a.from <= b.from /\ b.to <= a.to
    \/ b.from <= a.from /\ a.to <= b.to

(* Slices never partially overlap: whatever the timestamps of the stages, a
   slice begins after every slice that an earlier step left on its track, and
   the slices of one step nest; none is empty. *)
SlicesNest ==
    \A a \in rend.slices :
        /\ a.from < a.to
        /\ a.track \in DOMAIN busy => busy[a.track] <= a.from
        /\ \A b \in rend.slices : a.track = b.track => Nested(a, b)

=============================================================================
