----------------------------- MODULE ChunkState -----------------------------
(***************************************************************************)
(* The state of one ChunkTracker (internal/chunk/chunk_tracker.{h,cc}) and  *)
(* the effect of each of its methods, which run under the tracker's own     *)
(* mutex and are therefore atomic.  The bitset chunks_ is the set `done` of *)
(* the indices whose bit is set, busy_chunks_ is the set `busy`; the        *)
(* duplicate counter num_chunks_dup_ is only printed and is left out.       *)
(*                                                                          *)
(* The operators whose name ends in _ plus a word are faulty variants of    *)
(* the operator that follows them, used to show that a property can fail.   *)
(***************************************************************************)
EXTENDS Naturals

\* The indices isValidChunk accepts for a tracker of n chunks.
ChunkIndices(n) == 0 .. n - 1

NewChunks(n) == [total |-> n, done |-> {}, busy |-> {}]

\* IsDone(): every bit of the bitset is set (Bitset::IsFull).
IsDone_anyBit(t) == t.done # {}
IsDone(t) == t.done = ChunkIndices(t.total)

\* What Acquire(index) answers: the bit wins over the busy set.
AcquireStatus_noBusy(t, i) == IF i \in t.done THEN "kDone" ELSE "kEmpty"
AcquireStatus(t, i) ==
    IF i \in t.done THEN "kDone" ELSE IF i \in t.busy THEN "kBusy" ELSE "kEmpty"

Acquire(t, i) ==
    IF AcquireStatus(t, i) = "kEmpty" THEN [t EXCEPT !.busy = @ \cup {i}] ELSE t

\* Release(index, success): the chunk leaves BUSY for DONE or back for EMPTY.
Release(t, i, success) ==
    [total |-> t.total, done |-> IF success THEN t.done \cup {i} ELSE t.done,
     busy |-> t.busy \ {i}]

\* The value Release returns: this success filled the bitset.
ReleaseIsLast(t, i, success) == success /\ IsDone(Release(t, i, success))

\* Set(index), used by the sender when a chunk is acknowledged.
SetChunk(t, i) == [t EXCEPT !.done = @ \cup {i}]
=============================================================================
