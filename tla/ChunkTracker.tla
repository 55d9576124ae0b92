---------------------------- MODULE ChunkTracker ----------------------------
(***************************************************************************)
(* The receive threads of several channels that share the ChunkTracker of   *)
(* one request (Transfer::recvDataStream / recvDataMsg, from Acquire on).   *)
(* Any thread may be handed any chunk at any time, so duplicates and        *)
(* retransmissions on another channel are included.  A read of the payload  *)
(* into the destination may fail half way, leaving the bytes torn.          *)
(***************************************************************************)
EXTENDS ChunkState

CONSTANTS N,        \* RequestInfo::nchunks
          Writers   \* the receive threads

ASSUME NAssumption == N \in Nat \ {0}

VARIABLES tracker,      \* the shared ChunkTracker
          thread,       \* [Writers -> where each thread is in the handler]
          mem,          \* [chunk -> contents of its bytes at the destination]
          acked,        \* the chunks an ack was sent for
          completions   \* how often OnReqComplete was called for the request

trackerVars == <<tracker, thread, mem, acked, completions>>

Chunks == ChunkIndices(N)

IdleWriter == [at |-> "idle", chunk |-> 0]

\* Where a thread is between Acquire and Release: before, during and after the
\* read of the payload, which returned all of it ("full") or less ("short").
Holding == {"acquired", "reading", "full", "short"}

\* The values of the tracker, of the receive threads and of the memory they write.
TrackerTypeOK ==
    /\ tracker \in [total : {N}, done : SUBSET Chunks, busy : SUBSET Chunks]
    /\ thread \in [Writers -> [at : {"idle", "complete", "ack"} \cup Holding, chunk : Chunks]]
    /\ mem \in [Chunks -> {"old", "torn", "data"}]
    /\ acked \in SUBSET Chunks
    /\ completions \in Nat

TrackerInit ==
    /\ tracker = NewChunks(N)
    /\ thread = [w \in Writers |-> IdleWriter]
    /\ mem = [i \in Chunks |-> "old"]
    /\ acked = {}
    /\ completions = 0

\* A data header for chunk i arrives on w's channel: Acquire decides whether
\* the payload is read in place (kEmpty), drained and acked again (kDone), or
\* drained without an ack (kBusy).
RecvChunk_ackBusy(w, i) ==
    /\ thread[w].at = "idle"
    /\ tracker' = Acquire(tracker, i)
    /\ thread' = [thread EXCEPT ![w] =
         [at |-> IF AcquireStatus(tracker, i) = "kEmpty" THEN "acquired" ELSE "ack", chunk |-> i]]
    /\ UNCHANGED <<mem, acked, completions>>
RecvChunk(w, i) ==
    /\ thread[w].at = "idle"
    /\ tracker' = Acquire(tracker, i)
    /\ thread' = [thread EXCEPT ![w] =
         CASE AcquireStatus(tracker, i) = "kEmpty" ->
                  [at |-> "acquired", chunk |-> i]
           [] AcquireStatus(tracker, i) = "kDone" ->
                  [at |-> "ack", chunk |-> i]
           [] OTHER -> IdleWriter]
    /\ UNCHANGED <<mem, acked, completions>>

\* The payload starts to land in the destination buffer.
BeginRead(w) ==
    /\ thread[w].at = "acquired"
    /\ thread' = [thread EXCEPT ![w].at = "reading"]
    /\ mem' = [mem EXCEPT ![thread[w].chunk] = "torn"]
    /\ UNCHANGED <<tracker, acked, completions>>

\* The read of the payload returns, with all of it or short.
EndRead(w) ==
    /\ thread[w].at = "reading"
    /\ \/ /\ thread' = [thread EXCEPT ![w].at = "full"]
          /\ mem' = [mem EXCEPT ![thread[w].chunk] = "data"]
       \/ /\ thread' = [thread EXCEPT ![w].at = "short"]
          /\ UNCHANGED mem
    /\ UNCHANGED <<tracker, acked, completions>>

\* Release the chunk; only the thread that filled the bitset goes on to call
\* OnReqComplete, and a failed read ends the handler without an ack.
ReleaseChunk(w) ==
    LET i == thread[w].chunk
        success == thread[w].at = "full"
    IN  /\ thread[w].at \in {"full", "short"}
        /\ tracker' = Release(tracker, i, success)
        /\ thread' = [thread EXCEPT ![w] =
             CASE ~success -> IdleWriter
               [] ReleaseIsLast(tracker, i, success) -> [at |-> "complete", chunk |-> i]
               [] OTHER -> [at |-> "ack", chunk |-> i]]
        /\ UNCHANGED <<mem, acked, completions>>

CompleteRequest(w) ==
    /\ thread[w].at = "complete"
    /\ completions' = completions + 1
    /\ thread' = [thread EXCEPT ![w].at = "ack"]
    /\ UNCHANGED <<tracker, mem, acked>>

SendAck(w) ==
    /\ thread[w].at = "ack"
    /\ acked' = acked \cup {thread[w].chunk}
    /\ thread' = [thread EXCEPT ![w] = IdleWriter]
    /\ UNCHANGED <<tracker, mem, completions>>

Step(w) ==
    \/ \E i \in Chunks : RecvChunk(w, i)
    \/ BeginRead(w) \/ EndRead(w) \/ ReleaseChunk(w)
    \/ CompleteRequest(w) \/ SendAck(w)

TrackerNext == \E w \in Writers : Step(w)

TrackerSpec == TrackerInit /\ [][TrackerNext]_trackerVars

-----------------------------------------------------------------------------
(***************************************************************************)
(* Properties.                                                              *)
(***************************************************************************)

\* Chunk data writing is exclusive: two receive threads that are between
\* Acquire and Release never hold the same chunk, and exactly the held chunks
\* are busy, so no chunk stays BUSY without a thread that will release it.
ExclusiveWriter ==
    /\ \A w, v \in Writers :
         /\ thread[w].at \in Holding
         /\ thread[v].at \in Holding
         /\ thread[w].chunk = thread[v].chunk
         => w = v
    /\ tracker.busy = {thread[w].chunk : w \in {u \in Writers : thread[u].at \in Holding}}

\* A chunk that is DONE, or that was acknowledged to the sender, has all of its
\* payload at the destination: a late duplicate or a failed read on another
\* channel never tears it.
DoneIsIntact == \A i \in tracker.done \cup acked : mem[i] = "data"

\* OnReqComplete is called for a request at most once, and only when every
\* chunk is in place; when all chunks are DONE it has been called or a thread is
\* about to call it (no completion is lost when two threads finish together).
CompletedOnce ==
    /\ completions <= 1
    /\ completions = 1 => tracker.done = Chunks
    /\ tracker.done = Chunks
         => completions = 1 \/ \E w \in Writers : thread[w].at = "complete"

\* DONE is final: no step clears a bit or touches the bytes of a DONE chunk.
DoneIsFinal ==
    [][\A k \in tracker.done : k \in tracker'.done /\ mem'[k] = mem[k]]_trackerVars

Delivery == INSTANCE ChunkDelivery
    WITH delivered <- tracker.done, completed <- completions > 0

\* The receive threads together implement the delivery of one request.
ImplementsDelivery == Delivery!Spec
=============================================================================
