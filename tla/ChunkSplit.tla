----------------------------- MODULE ChunkSplit -----------------------------
(***************************************************************************)
(* How Engine::processWrite cuts one request into chunks and deals them to  *)
(* the send workers (internal/engine/engine.cc).  One step is one iteration *)
(* of its loop.  The initiator of a post chooses nchunks = min(#workers,    *)
(* len) in Engine::process; the responder of a read uses the initiator's    *)
(* nchunks with a worker count of its own, so here nchunks is any value in  *)
(* 1 .. len and nworkers any positive number.                               *)
(*                                                                          *)
(* The definitions whose name ends in _ plus a word are faulty variants of  *)
(* the definition that follows them, used to show that a property can fail. *)
(***************************************************************************)
EXTENDS Naturals

CONSTANTS Lens,          \* the request lengths considered
          WorkerCounts   \* the numbers of send workers considered

ASSUME RangeAssumption ==
    Lens \subseteq Nat \ {0} /\ WorkerCounts \subseteq Nat \ {0}

VARIABLES len, nchunks, nworkers, i, offset, chunks

splitVars == <<len, nchunks, nworkers, i, offset, chunks>>

\* The values of the loop variables of processWrite and of the chunks it has made.
SplitTypeOK ==
    /\ len \in Nat \ {0} /\ nchunks \in 1 .. len /\ nworkers \in Nat \ {0}
    /\ i \in 0 .. nchunks /\ offset \in Nat
    /\ chunks \in SUBSET [index : Nat, offset : Nat, size : Nat, worker : Nat]

SplitInit ==
    /\ len \in Lens
    /\ nchunks \in 1 .. len
    /\ nworkers \in WorkerCounts
    /\ i = 0 /\ offset = 0 /\ chunks = {}

\* The length of chunk number k: the first len % nchunks chunks get one byte
\* more than the others.  (A chunk of 2^32 bytes or more ends the process; lengths
\* here are shorter.)
ChunkSize(k) ==
    IF k < len % nchunks THEN len \div nchunks + 1 ELSE len \div nchunks

\* One iteration: the chunk goes to worker i % #workers.
EnqueueChunk_stride ==
    /\ i < nchunks
    /\ chunks' = chunks \cup {[index |-> i, offset |-> i * (len \div nchunks),
                               size |-> ChunkSize(i), worker |-> i % nworkers]}
    /\ offset' = offset + ChunkSize(i)
    /\ i' = i + 1
    /\ UNCHANGED <<len, nchunks, nworkers>>
EnqueueChunk ==
    /\ i < nchunks
    /\ chunks' = chunks \cup {[index |-> i, offset |-> offset,
                               size |-> ChunkSize(i), worker |-> i % nworkers]}
    /\ offset' = offset + ChunkSize(i)
    /\ i' = i + 1
    /\ UNCHANGED <<len, nchunks, nworkers>>

\* The loop has ended.
Done == i = nchunks /\ UNCHANGED splitVars

SplitNext == EnqueueChunk \/ Done

SplitSpec == SplitInit /\ [][SplitNext]_splitVars

-----------------------------------------------------------------------------
Covers(c, byte) == c.offset <= byte /\ byte < c.offset + c.size

\* No chunk is empty.  A data header with len = 0 is an acknowledgement
\* (HeaderBase::IsAck), so an empty chunk would be taken for one.
NoEmptyChunk == \A c \in chunks : c.size >= 1

\* The chunks enqueued so far cover the first `offset` bytes of the request,
\* each byte in exactly one chunk, and nothing beyond them; none is empty.
ChunksTileBuffer ==
    /\ NoEmptyChunk
    /\ \A byte \in 0 .. offset - 1 : \E c \in chunks : Covers(c, byte)
    /\ \A c, d \in chunks : \A byte \in 0 .. offset :
         Covers(c, byte) /\ Covers(d, byte) => c = d
    /\ \A c \in chunks : c.offset + c.size <= offset

\* When the loop ends, the chunks are the whole request: DCHECK_EQ(offset, len).
SplitIsExact == i = nchunks => offset = len

\* The work is spread evenly: chunk sizes differ by at most one byte.  This is
\* what holds in place of the equal sizes of kBufferIsDividedIntoFixedSizeChunks
\* (assumptions.h): four bytes in three chunks are 2, 1 and 1.
ChunksBalanced == \A c, d \in chunks : c.size <= d.size + 1
=============================================================================
