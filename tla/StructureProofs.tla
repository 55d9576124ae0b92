-------------------------- MODULE StructureProofs ---------------------------
(***************************************************************************)
(* What the threads of one process share. A request is cut into chunks, for *)
(* every length, number of chunks and number of workers; the tracker of its *)
(* chunks is right for every set of receive threads; and a process has the  *)
(* transports it asked for, for any number of instances, threads and ports. *)
(***************************************************************************)
EXTENDS ChunkSplit, ChunkTracker, InstancePool, TLAPS

\* Cutting a request.

Quotient == len \div nchunks
Remainder == len % nchunks

\* The accumulated offset has a closed form, which is what makes the loop end
\* exactly at len.
ClosedForm == offset = i * Quotient + (IF i < Remainder THEN i ELSE Remainder)

\* Each chunk enqueued so far lies inside the first `offset` bytes, has the size
\* the loop gives its index, and the chunks are in the order of their index.
ChunksInOrder ==
    \A c \in chunks :
      /\ c.size \in {Quotient, Quotient + 1}
      /\ c.offset + c.size <= offset
      /\ \A d \in chunks : c # d => \/ c.offset + c.size <= d.offset
                                    \/ d.offset + d.size <= c.offset

Covered == \A byte \in 0 .. offset - 1 : \E c \in chunks : Covers(c, byte)

\* The inductive invariant.
SplitInv == SplitTypeOK /\ ClosedForm /\ ChunksInOrder /\ Covered

\* Euclidean division of the request length by the number of chunks.
LEMMA Division ==
  ASSUME NEW a \in Nat, NEW b \in Nat \ {0}
  PROVE  /\ a \div b \in Nat /\ a % b \in Nat /\ a % b < b
         /\ a = b * (a \div b) + (a % b)
<1>1. a % b \in 0 .. (b - 1)
  OBVIOUS
<1>2. a = b * (a \div b) + (a % b)
  OBVIOUS
<1>3. a \div b \in Nat
  OBVIOUS
<1> QED
  BY <1>1, <1>2, <1>3

\* The quotient is at least one when there are no more chunks than bytes.
LEMMA QuotientPositive ==
  ASSUME NEW a \in Nat, NEW b \in Nat \ {0}, b <= a
  PROVE  a \div b >= 1
<1>1. a \div b \in Nat /\ a % b < b /\ a % b \in Nat /\ a = b * (a \div b) + (a % b)
  BY Zenon, Division
<1>2. CASE a \div b = 0
  BY <1>1, <1>2
<1> QED
  BY <1>1, <1>2

\* What the provers need to know of Quotient and Remainder.
LEMMA QuotientFacts ==
  ASSUME SplitTypeOK
  PROVE  /\ Quotient \in Nat /\ Quotient >= 1 /\ Remainder \in Nat /\ Remainder < nchunks
         /\ len = nchunks * Quotient + Remainder
         /\ \A k \in Nat : ChunkSize(k) = IF k < Remainder THEN Quotient + 1 ELSE Quotient
<1>1. len \in Nat /\ nchunks \in Nat \ {0} /\ nchunks <= len
  BY DEF SplitTypeOK
<1> QED
  BY Zenon, <1>1, Division, QuotientPositive DEF Quotient, Remainder, ChunkSize

\* The first chunk has not been enqueued yet.
LEMMA SplitInitInv == SplitInit => SplitInv
<1> SUFFICES ASSUME SplitInit PROVE SplitInv
  OBVIOUS
<1>1. SplitTypeOK
  BY RangeAssumption DEF SplitInit, SplitTypeOK
<1>2. Quotient \in Nat /\ Remainder \in Nat
  BY Zenon, <1>1, QuotientFacts
<1>3. ClosedForm
  BY <1>2 DEF SplitInit, ClosedForm
<1> QED
  BY <1>1, <1>3 DEF SplitInit, SplitInv, ChunksInOrder, Covered

\* One iteration of the loop preserves the inductive invariant.
LEMMA EnqueueIInv ==
  ASSUME SplitInv, EnqueueChunk
  PROVE  SplitInv'
<1> DEFINE s == ChunkSize(i)
           new == [index |-> i, offset |-> offset, size |-> s, worker |-> i % nworkers]
<1>1. /\ SplitTypeOK /\ i \in Nat /\ i < nchunks /\ offset \in Nat /\ nchunks \in Nat
      /\ nworkers \in Nat \ {0}
      /\ i' = i + 1 /\ offset' = offset + s /\ chunks' = chunks \cup {new}
      /\ UNCHANGED <<len, nchunks, nworkers>>
  BY DEF SplitInv, SplitTypeOK, EnqueueChunk
<1>2. /\ Quotient \in Nat /\ Quotient >= 1 /\ Remainder \in Nat /\ Remainder < nchunks
      /\ s = IF i < Remainder THEN Quotient + 1 ELSE Quotient
  BY Zenon, <1>1, QuotientFacts
<1>3. s \in Nat /\ s \in {Quotient, Quotient + 1} /\ s >= 1
  BY <1>2
<1>4. i % nworkers \in Nat
  BY Zenon, <1>1, Division
<1>5. Quotient' = Quotient /\ Remainder' = Remainder
  BY Zenon, <1>1 DEF Quotient, Remainder
<1> HIDE DEF s
<1>6. SplitTypeOK'
  BY <1>1, <1>3, <1>4 DEF SplitInv, SplitTypeOK
<1>7. ClosedForm'
  <2>1. (i + 1) * Quotient = i * Quotient + Quotient /\ i * Quotient \in Nat
    BY <1>1, <1>2
  <2> QED
    BY <1>1, <1>2, <1>5, <2>1 DEF SplitInv, ClosedForm
<1>8. new.offset = offset /\ new.size = s
  OBVIOUS
<1> HIDE DEF new
<1>9. \A c \in chunks : c.offset \in Nat /\ c.size \in Nat /\ c.offset + c.size <= offset
  BY Zenon DEF SplitInv, SplitTypeOK, ChunksInOrder
<1>10. ChunksInOrder'
  BY <1>1, <1>3, <1>5, <1>8, <1>9 DEF SplitInv, ChunksInOrder
<1>11. Covered'
  <2> SUFFICES ASSUME NEW byte \in 0 .. offset' - 1
               PROVE  \E c \in chunks' : Covers(c, byte)
    BY Zenon DEF Covered, Covers
  <2>1. CASE byte < offset
    BY <1>1, <1>3, <2>1 DEF SplitInv, Covered
  <2>2. CASE byte >= offset
    BY <1>1, <1>3, <1>8, <2>2 DEF Covers
  <2> QED
    BY <1>1, <1>3, <2>1, <2>2
<1> QED
  BY Zenon, <1>6, <1>7, <1>10, <1>11 DEF SplitInv

\* Every step, the end of the loop included, preserves the invariant.
LEMMA SplitNextInv == SplitInv /\ [SplitNext]_splitVars => SplitInv'
<1>1. SplitInv /\ UNCHANGED splitVars => SplitInv'
  BY Zenon DEF splitVars, SplitInv, SplitTypeOK, ClosedForm, Quotient, Remainder, ChunksInOrder, Covered, Covers
<1> QED
  BY Zenon, <1>1, EnqueueIInv DEF SplitNext, Done

\* The invariant holds throughout the loop.
LEMMA SplitInvHolds == SplitSpec => []SplitInv
  BY SplitInitInv, SplitNextInv, PTL DEF SplitSpec

\* The loop variables keep their types.
THEOREM SplitTypeCorrect == SplitSpec => []SplitTypeOK
<1>1. SplitInv => SplitTypeOK
  BY Zenon DEF SplitInv
<1> QED
  BY <1>1, SplitInvHolds, PTL

\* For every length and number of chunks, the chunks partition the bytes
\* enqueued so far, and none is empty: no data chunk looks like an ack.
THEOREM SplitTilesBuffer == SplitSpec => []ChunksTileBuffer
<1>1. SplitInv => ChunksTileBuffer
  <2> SUFFICES ASSUME SplitInv PROVE ChunksTileBuffer
    OBVIOUS
  <2>1. NoEmptyChunk
    BY QuotientFacts DEF SplitInv, ChunksInOrder, NoEmptyChunk
  <2>2. /\ \A byte \in 0 .. offset - 1 : \E c \in chunks : Covers(c, byte)
        /\ \A c, d \in chunks : \A byte \in 0 .. offset :
             Covers(c, byte) /\ Covers(d, byte) => c = d
        /\ \A c \in chunks : c.offset + c.size <= offset
    BY DEF SplitInv, SplitTypeOK, ChunksInOrder, Covered, Covers
  <2> QED
    BY Zenon, <2>1, <2>2 DEF ChunksTileBuffer
<1> QED
  BY <1>1, SplitInvHolds, PTL

\* For every length and number of chunks, the loop ends exactly at len, so the
\* DCHECK after it never fails.
THEOREM SplitEndsAtLen == SplitSpec => []SplitIsExact
<1>1. SplitInv => SplitIsExact
  <2> SUFFICES ASSUME SplitInv, i = nchunks PROVE offset = len
    BY Zenon DEF SplitIsExact
  <2>1. SplitTypeOK /\ ClosedForm
    BY Zenon DEF SplitInv
  <2>2. Quotient \in Nat /\ Remainder \in Nat /\ Remainder < nchunks /\ len = nchunks * Quotient + Remainder
    BY Zenon, <2>1, QuotientFacts
  <2>3. offset = nchunks * Quotient + Remainder
    BY <2>1, <2>2 DEF ClosedForm, SplitTypeOK
  <2> QED
    BY Zenon, <2>2, <2>3
<1> QED
  BY <1>1, SplitInvHolds, PTL

\* The chunks of any request differ by at most one byte.
THEOREM SplitIsBalanced == SplitSpec => []ChunksBalanced
<1>1. SplitInv => ChunksBalanced
  BY QuotientFacts DEF SplitInv, ChunksInOrder, ChunksBalanced
<1> QED
  BY <1>1, SplitInvHolds, PTL

-----------------------------------------------------------------------------
\* Tracking its chunks.

\* Where a thread is decides what it knows about its chunk.
ThreadKnows ==
    \A w \in Writers :
      /\ thread[w].at \in Holding => thread[w].chunk \in tracker.busy
      /\ thread[w].at = "full" => mem[thread[w].chunk] = "data"
      /\ thread[w].at \in {"ack", "complete"} => thread[w].chunk \in tracker.done
      /\ thread[w].at = "complete" => tracker.done = Chunks /\ completions = 0

OneHolder ==
    \A w, v \in Writers :
      /\ thread[w].at \in Holding
      /\ thread[v].at \in Holding
      /\ thread[w].chunk = thread[v].chunk
      => w = v

OneCompleter ==
    \A w, v \in Writers :
      thread[w].at = "complete" /\ thread[v].at = "complete" => w = v

BusyIsHeld ==
    \A k \in tracker.busy :
      \E w \in Writers : thread[w].at \in Holding /\ thread[w].chunk = k

ChunkStates ==
    /\ tracker.busy \cap tracker.done = {}
    /\ acked \subseteq tracker.done
    /\ \A k \in tracker.done : mem[k] = "data"

\* The inductive invariant.
TrackerInv ==
    TrackerTypeOK /\ ThreadKnows /\ OneHolder /\ OneCompleter /\ BusyIsHeld
      /\ ChunkStates /\ CompletedOnce

\* The chunk range is not empty, so no fresh tracker is already complete.
LEMMA ChunksNonEmpty == 0 \in Chunks
  BY NAssumption DEF Chunks, ChunkIndices

\* The initial state satisfies the inductive invariant.
LEMMA TrackerInitInv == TrackerInit => TrackerInv
  BY ChunksNonEmpty
  DEF TrackerInit, TrackerInv, TrackerTypeOK, ThreadKnows, OneHolder, OneCompleter, BusyIsHeld,
      ChunkStates, CompletedOnce, IdleWriter, Holding, NewChunks

\* A step in which thread w moves to r and the other threads stay: what the
\* inductive invariant needs to know of the step, as a function of r and of the
\* new chunk states.
Turns(w, r, dn, bs) ==
    /\ tracker' = [total |-> N, done |-> dn, busy |-> bs]
    /\ thread' = [thread EXCEPT ![w] = r]

\* Such a step replaces exactly the fields it names.
LEMMA MovesEffect ==
  ASSUME TrackerTypeOK, NEW w \in Writers, NEW r, NEW dn, NEW bs, Turns(w, r, dn, bs)
  PROVE  /\ tracker'.done = dn /\ tracker'.busy = bs /\ tracker'.total = N
         /\ thread'[w] = r
         /\ \A v \in Writers : v # w => thread'[v] = thread[v]
  BY Zenon DEF Turns, TrackerTypeOK

\* Receiving a chunk preserves the inductive invariant: Acquire hands the chunk
\* out only when it is neither DONE nor BUSY.
LEMMA RecvChunkIInv ==
  ASSUME TrackerInv, NEW w \in Writers, NEW k \in Chunks, RecvChunk(w, k)
  PROVE  TrackerInv'
<1> USE DEF Holding
<1>0. TrackerTypeOK /\ thread[w].at = "idle" /\ UNCHANGED <<mem, acked, completions>>
  BY Zenon DEF TrackerInv, RecvChunk
<1>1. CASE AcquireStatus(tracker, k) = "kEmpty"
  <2> DEFINE r == [at |-> "acquired", chunk |-> k]
  <2>1. k \notin tracker.done /\ k \notin tracker.busy
    BY Zenon, <1>1 DEF AcquireStatus
  <2>2. Turns(w, r, tracker.done, tracker.busy \cup {k})
    BY Zenon, <1>0, <1>1 DEF RecvChunk, Acquire, Turns, TrackerTypeOK
  <2> HIDE DEF r
  <2>3. /\ tracker'.done = tracker.done /\ tracker'.busy = tracker.busy \cup {k}
        /\ thread'[w] = r /\ \A v \in Writers : v # w => thread'[v] = thread[v]
    BY <1>0, <2>2, MovesEffect
  <2>4. r.at = "acquired" /\ r.chunk = k
    BY Zenon DEF r
  <2>5. TrackerTypeOK'
    BY Zenon, <1>0, <2>2 DEF TrackerTypeOK, Turns, r
  <2>6. ThreadKnows'
    BY <1>0, <2>1, <2>3, <2>4 DEF TrackerInv, ThreadKnows
  <2>7. OneHolder' /\ OneCompleter' /\ BusyIsHeld'
    BY <1>0, <2>1, <2>3, <2>4
    DEF TrackerInv, ThreadKnows, OneHolder, OneCompleter, BusyIsHeld
  <2>8. ChunkStates' /\ CompletedOnce'
    BY Zenon, <1>0, <2>1, <2>3, <2>4 DEF TrackerInv, ChunkStates, CompletedOnce
  <2> QED
    BY Zenon, <2>5, <2>6, <2>7, <2>8 DEF TrackerInv
<1>2. CASE AcquireStatus(tracker, k) # "kEmpty"
  <2> DEFINE r == IF AcquireStatus(tracker, k) = "kDone"
                  THEN [at |-> "ack", chunk |-> k] ELSE IdleWriter
  <2>1. r.at = "idle" \/ (r.at = "ack" /\ r.chunk = k /\ k \in tracker.done)
    <3>1. AcquireStatus(tracker, k) = "kDone" => k \in tracker.done
      BY Zenon DEF AcquireStatus
    <3>2. CASE AcquireStatus(tracker, k) = "kDone"
      BY Zenon, <3>1, <3>2
    <3>3. CASE AcquireStatus(tracker, k) # "kDone"
      <4>1. r = IdleWriter
        BY Zenon, <3>3
      <4> HIDE DEF r
      <4> QED
        BY Zenon, <4>1 DEF IdleWriter
    <3> QED
      BY Zenon, <3>2, <3>3
  <2>2. Turns(w, r, tracker.done, tracker.busy)
    BY Zenon, <1>0, <1>2 DEF RecvChunk, Acquire, Turns, TrackerTypeOK
  <2>5. TrackerTypeOK'
    BY Zenon, <1>0, <2>2, ChunksNonEmpty DEF TrackerTypeOK, Turns, IdleWriter
  <2> HIDE DEF r
  <2>3. /\ tracker'.done = tracker.done /\ tracker'.busy = tracker.busy
        /\ thread'[w] = r /\ \A v \in Writers : v # w => thread'[v] = thread[v]
    BY <1>0, <2>2, MovesEffect
  <2>6. ThreadKnows'
    BY Zenon, <1>0, <2>1, <2>3 DEF TrackerInv, ThreadKnows
  <2>7. OneHolder' /\ OneCompleter' /\ BusyIsHeld'
    BY <1>0, <2>1, <2>3 DEF TrackerInv, OneHolder, OneCompleter, BusyIsHeld
  <2>8. ChunkStates' /\ CompletedOnce'
    BY Zenon, <1>0, <2>1, <2>3 DEF TrackerInv, ChunkStates, CompletedOnce
  <2> QED
    BY Zenon, <2>5, <2>6, <2>7, <2>8 DEF TrackerInv
<1> QED
  BY Zenon, <1>1, <1>2

\* Writing the payload touches only a BUSY chunk, which is not DONE.
LEMMA ReadIInv ==
  ASSUME TrackerInv, NEW w \in Writers, BeginRead(w) \/ EndRead(w)
  PROVE  TrackerInv'
<1> USE DEF Holding
<1> DEFINE r == thread'[w]
<1>0. TrackerTypeOK /\ thread[w].chunk \in Chunks
  BY Zenon DEF TrackerInv, TrackerTypeOK
<1>1. /\ Turns(w, r, tracker.done, tracker.busy)
      /\ r \in [at : {"reading", "full", "short"}, chunk : {thread[w].chunk}]
      /\ \A j \in Chunks : j # thread[w].chunk => mem'[j] = mem[j]
      /\ r.at = "full" => mem'[thread[w].chunk] = "data"
      /\ mem' \in [Chunks -> {"old", "torn", "data"}]
      /\ UNCHANGED <<acked, completions>>
      /\ thread[w].at \in Holding
  BY <1>0 DEF BeginRead, EndRead, Turns, TrackerTypeOK
<1> HIDE DEF r
<1>2. /\ TrackerTypeOK /\ thread[w].chunk \in tracker.busy /\ thread[w].chunk \notin tracker.done
      /\ tracker.done \subseteq Chunks
  BY Zenon, <1>1 DEF TrackerInv, TrackerTypeOK, ThreadKnows, ChunkStates
<1>3. /\ tracker'.done = tracker.done /\ tracker'.busy = tracker.busy
      /\ thread'[w] = r /\ \A v \in Writers : v # w => thread'[v] = thread[v]
      /\ r.at \in {"reading", "full", "short"} /\ r.chunk = thread[w].chunk
  BY <1>1, <1>2, MovesEffect
<1>4. TrackerTypeOK'
  BY <1>1, <1>2 DEF TrackerTypeOK, Turns, r
<1>5. ThreadKnows'
  <2> SUFFICES ASSUME NEW v \in Writers
               PROVE /\ thread'[v].at \in Holding => thread'[v].chunk \in tracker'.busy
                     /\ thread'[v].at = "full" => mem'[thread'[v].chunk] = "data"
                     /\ thread'[v].at \in {"ack", "complete"} => thread'[v].chunk \in tracker'.done
                     /\ thread'[v].at = "complete" => tracker'.done = Chunks /\ completions' = 0
    BY Zenon DEF ThreadKnows, Chunks
  <2>1. CASE v = w
    BY Zenon, <2>1, <1>1, <1>2, <1>3 DEF TrackerInv, ThreadKnows
  <2>2. CASE v # w
    <3>1. thread[v].at \in Holding => thread[v].chunk # thread[w].chunk
      BY Zenon, <1>1, <2>2 DEF TrackerInv, OneHolder
    <3>2. thread[v].chunk \in Chunks
      BY Zenon, <1>2 DEF TrackerTypeOK
    <3> QED
      BY ZenonT(60), <2>2, <1>1, <1>3, <3>1, <3>2 DEF TrackerInv, ThreadKnows
  <2> QED
    BY Zenon, <2>1, <2>2
<1>6. OneHolder' /\ OneCompleter' /\ BusyIsHeld'
  BY <1>1, <1>3 DEF TrackerInv, OneHolder, OneCompleter, BusyIsHeld
<1>7. ChunkStates' /\ CompletedOnce'
  BY ZenonT(60), <1>1, <1>2, <1>3 DEF TrackerInv, ChunkStates, CompletedOnce
<1> QED
  BY Zenon, <1>4, <1>5, <1>6, <1>7 DEF TrackerInv

\* Releasing a chunk preserves the inductive invariant; the thread that fills
\* the bitset is the only one that goes on to complete the request.
LEMMA ReleaseIInv ==
  ASSUME TrackerInv, NEW w \in Writers, ReleaseChunk(w)
  PROVE  TrackerInv'
<1> USE DEF Holding
<1> DEFINE k == thread[w].chunk
           full == thread[w].at = "full"
           d == IF full THEN tracker.done \cup {k} ELSE tracker.done
           r == CASE ~full -> IdleWriter
                  [] ReleaseIsLast(tracker, k, full) -> [at |-> "complete", chunk |-> k]
                  [] OTHER -> [at |-> "ack", chunk |-> k]
<1>1. /\ thread[w].at \in {"full", "short"} /\ TrackerTypeOK
      /\ k \in Chunks /\ k \in tracker.busy /\ k \notin tracker.done
      /\ full => mem[k] = "data"
      /\ tracker.done # Chunks /\ tracker.done \subseteq Chunks
      /\ completions = 0
      /\ \A v \in Writers : thread[v].at # "complete"
      /\ UNCHANGED <<mem, acked, completions>>
  <2>1. thread[w].at \in {"full", "short"} /\ TrackerTypeOK /\ UNCHANGED <<mem, acked, completions>>
    BY Zenon DEF ReleaseChunk, TrackerInv
  <2>2. k \in Chunks /\ tracker.done \subseteq Chunks
    BY Zenon, <2>1 DEF TrackerTypeOK
  <2>3. k \in tracker.busy /\ k \notin tracker.done /\ (full => mem[k] = "data")
    BY Zenon, <2>1 DEF TrackerInv, ThreadKnows, ChunkStates
  <2>4. tracker.done # Chunks
    BY Zenon, <2>2, <2>3
  <2>5. completions = 0
    BY <2>1, <2>4 DEF TrackerInv, CompletedOnce, TrackerTypeOK
  <2>6. \A v \in Writers : thread[v].at # "complete"
    BY Zenon, <2>4 DEF TrackerInv, ThreadKnows
  <2> QED
    BY Zenon, <2>1, <2>2, <2>3, <2>4, <2>5, <2>6
<1>a. Release(tracker, k, full) = [total |-> N, done |-> d, busy |-> tracker.busy \ {k}]
  BY Zenon, <1>1 DEF Release, TrackerTypeOK
<1>b. ReleaseIsLast(tracker, k, full) <=> full /\ d = Chunks
  BY <1>a DEF ReleaseIsLast, IsDone, Chunks
<1>2. Turns(w, r, d, tracker.busy \ {k})
  BY Zenon, <1>a DEF ReleaseChunk, Turns
<1>c. \/ ~full /\ r = IdleWriter /\ d = tracker.done
      \/ full /\ d = Chunks /\ r = [at |-> "complete", chunk |-> k]
      \/ full /\ d # Chunks /\ r = [at |-> "ack", chunk |-> k]
  BY Zenon, <1>b
<1>4. /\ r.at = "complete" => r.chunk = k /\ full /\ d = Chunks
      /\ r.at = "ack" => r.chunk = k /\ full
      /\ r.at \in {"idle", "ack", "complete"} /\ r.chunk \in Chunks
      /\ r \in [at : {"idle", "ack", "complete"}, chunk : Chunks]
      /\ d = Chunks => full /\ r.at = "complete"
  BY <1>1, <1>c, ChunksNonEmpty DEF IdleWriter
<1>d. /\ tracker.done \subseteq d /\ (full => k \in d) /\ d \subseteq Chunks
      /\ \A j \in d : j \in tracker.done \/ (full /\ j = k)
  <2>1. CASE full
    BY Zenon, <1>1, <2>1
  <2>2. CASE ~full
    BY Zenon, <1>1, <2>2
  <2> QED
    BY Zenon, <2>1, <2>2
<1> HIDE DEF r, d, full
<1>3. TrackerTypeOK'
  BY Zenon, <1>1, <1>2, <1>4, <1>d DEF TrackerTypeOK, Turns
<1>5. /\ tracker'.done = d /\ tracker'.busy = tracker.busy \ {k}
      /\ thread'[w] = r /\ \A v \in Writers : v # w => thread'[v] = thread[v]
  BY <1>1, <1>2, MovesEffect
<1>6. ThreadKnows'
  BY <1>1, <1>4, <1>d, <1>5 DEF TrackerInv, ThreadKnows, OneHolder
<1>7. OneHolder' /\ OneCompleter' /\ BusyIsHeld'
  BY <1>1, <1>4, <1>d, <1>5 DEF TrackerInv, OneHolder, OneCompleter, BusyIsHeld
<1>8. ChunkStates' /\ CompletedOnce'
  BY Zenon, <1>1, <1>4, <1>d, <1>5 DEF TrackerInv, ChunkStates, CompletedOnce
<1> QED
  BY Zenon, <1>3, <1>6, <1>7, <1>8 DEF TrackerInv

\* Completing the request and acknowledging a chunk preserve the invariant.
LEMMA FinishIInv ==
  ASSUME TrackerInv, NEW w \in Writers, CompleteRequest(w) \/ SendAck(w)
  PROVE  TrackerInv'
<1> USE DEF Holding
<1>1. CASE CompleteRequest(w)
  BY <1>1 DEF CompleteRequest, TrackerInv, TrackerTypeOK, ThreadKnows, OneHolder, OneCompleter,
              BusyIsHeld, ChunkStates, CompletedOnce
<1>2. CASE SendAck(w)
  BY <1>2, ChunksNonEmpty
  DEF SendAck, TrackerInv, TrackerTypeOK, ThreadKnows, OneHolder, OneCompleter, BusyIsHeld,
      ChunkStates, CompletedOnce, IdleWriter
<1> QED
  BY Zenon, <1>1, <1>2

\* Every step of every receive thread preserves the inductive invariant.
LEMMA TrackerNextInv == TrackerInv /\ [TrackerNext]_trackerVars => TrackerInv'
<1> SUFFICES ASSUME TrackerInv, [TrackerNext]_trackerVars PROVE TrackerInv'
  OBVIOUS
<1>1. CASE UNCHANGED trackerVars
  BY Zenon, <1>1 DEF trackerVars, TrackerInv, TrackerTypeOK, ThreadKnows, OneHolder, OneCompleter, BusyIsHeld,
              ChunkStates, CompletedOnce
<1>2. CASE TrackerNext
  <2>1. PICK w \in Writers : Step(w)
    BY Zenon, <1>2 DEF TrackerNext
  <2> QED
    BY Zenon, <2>1, RecvChunkIInv, ReadIInv, ReleaseIInv, FinishIInv DEF Step
<1> QED
  BY Zenon, <1>1, <1>2

\* The invariant holds in every state of every behaviour.
LEMMA TrackerInvHolds == TrackerSpec => []TrackerInv
  BY TrackerInitInv, TrackerNextInv, PTL DEF TrackerSpec

\* The tracker, the threads and the destination keep their types.
THEOREM TypeCorrect == TrackerSpec => []TrackerTypeOK
<1>1. TrackerInv => TrackerTypeOK
  BY Zenon DEF TrackerInv
<1> QED
  BY <1>1, TrackerInvHolds, PTL

\* At most one receive thread writes a chunk, and only held chunks are BUSY.
THEOREM WritersAreExclusive == TrackerSpec => []ExclusiveWriter
<1>1. TrackerInv => ExclusiveWriter
  <2> SUFFICES ASSUME TrackerInv PROVE ExclusiveWriter
    OBVIOUS
  <2>1. tracker.busy \subseteq
          {thread[w].chunk : w \in {u \in Writers : thread[u].at \in Holding}}
    BY Zenon DEF TrackerInv, BusyIsHeld
  <2>2. {thread[w].chunk : w \in {u \in Writers : thread[u].at \in Holding}}
          \subseteq tracker.busy
    BY Zenon DEF TrackerInv, ThreadKnows
  <2> QED
    BY Zenon, <2>1, <2>2 DEF TrackerInv, OneHolder, ExclusiveWriter
<1> QED
  BY <1>1, TrackerInvHolds, PTL

\* DONE and acknowledged chunks have their whole payload at the destination.
THEOREM DoneChunksAreIntact == TrackerSpec => []DoneIsIntact
<1>1. TrackerInv => DoneIsIntact
  BY Zenon DEF TrackerInv, ChunkStates, DoneIsIntact
<1> QED
  BY <1>1, TrackerInvHolds, PTL

\* Exactly one thread reports the request complete, after its last chunk.
THEOREM RequestCompletesOnce == TrackerSpec => []CompletedOnce
<1>1. TrackerInv => CompletedOnce
  BY Zenon DEF TrackerInv, CompletedOnce
<1> QED
  BY <1>1, TrackerInvHolds, PTL

\* A DONE chunk stays DONE and its bytes are never written again.
THEOREM DoneNeverChanges == TrackerSpec => DoneIsFinal
<1> DEFINE A == \A k \in tracker.done : k \in tracker'.done /\ mem'[k] = mem[k]
<1>1. TrackerInv /\ [TrackerNext]_trackerVars => [A]_trackerVars
  <2> SUFFICES ASSUME TrackerInv, NEW w \in Writers, Step(w) PROVE A
    BY Zenon DEF TrackerNext
  <2> USE DEF Holding
  <2>1. ASSUME NEW k \in Chunks, RecvChunk(w, k) PROVE A
    BY Zenon, <2>1 DEF RecvChunk, Acquire, TrackerInv, TrackerTypeOK
  <2>2. CASE BeginRead(w)
    BY Zenon, <2>2 DEF BeginRead, TrackerInv, TrackerTypeOK, ThreadKnows, ChunkStates
  <2>3. CASE EndRead(w)
    BY <2>3 DEF EndRead, TrackerInv, TrackerTypeOK, ThreadKnows, ChunkStates
  <2>4. CASE ReleaseChunk(w)
    BY Zenon, <2>4 DEF ReleaseChunk, Release, TrackerInv, TrackerTypeOK
  <2>5. CASE CompleteRequest(w) \/ SendAck(w)
    BY Zenon, <2>5 DEF CompleteRequest, SendAck
  <2> QED
    BY Zenon, <2>1, <2>2, <2>3, <2>4, <2>5 DEF Step
<1> QED
  BY <1>1, TrackerInvHolds, PTL DEF TrackerSpec, DoneIsFinal

\* Any number of receive threads on one ChunkTracker implements ChunkDelivery:
\* every step delivers a chunk, acknowledges one, completes the request, or is
\* invisible to the abstract specification.
THEOREM TrackerImplementsDelivery == TrackerSpec => ImplementsDelivery
<1> USE DEF Delivery!Init, Delivery!Next, Delivery!Deliver, Delivery!Ack, Delivery!Complete
<1>1. TrackerInit => Delivery!Init
  BY DEF TrackerInit, NewChunks
<1>2. TrackerInv /\ [TrackerNext]_trackerVars
        => [Delivery!Next]_<<tracker.done, acked, completions > 0>>
  <2> SUFFICES ASSUME TrackerInv, [TrackerNext]_trackerVars
               PROVE  \/ Delivery!Next
                      \/ UNCHANGED <<tracker.done, acked, completions > 0>>
    BY Zenon
  <2>0. CASE UNCHANGED trackerVars
    BY Zenon, <2>0 DEF trackerVars
  <2>1. ASSUME NEW w \in Writers, NEW k \in Chunks, RecvChunk(w, k)
        PROVE  UNCHANGED <<tracker.done, acked, completions > 0>>
    BY Zenon, <2>1 DEF RecvChunk, Acquire, TrackerInv, TrackerTypeOK
  <2>2. ASSUME NEW w \in Writers, BeginRead(w) \/ EndRead(w)
        PROVE  UNCHANGED <<tracker.done, acked, completions > 0>>
    BY Zenon, <2>2 DEF BeginRead, EndRead
  <2>3. ASSUME NEW w \in Writers, ReleaseChunk(w)
        PROVE  \/ Delivery!Next
               \/ UNCHANGED <<tracker.done, acked, completions > 0>>
    BY <2>3 DEF ReleaseChunk, Release, TrackerInv, TrackerTypeOK, ThreadKnows, Holding, Chunks, ChunkIndices
  <2>4. ASSUME NEW w \in Writers, CompleteRequest(w)
        PROVE  Delivery!Next
    BY <2>4 DEF CompleteRequest, TrackerInv, TrackerTypeOK, ThreadKnows, Chunks, ChunkIndices
  <2>5. ASSUME NEW w \in Writers, SendAck(w)
        PROVE  Delivery!Next
    BY Zenon, <2>5 DEF SendAck, TrackerInv, TrackerTypeOK, ThreadKnows, Chunks, ChunkIndices
  <2> QED
    BY Zenon, <2>0, <2>1, <2>2, <2>3, <2>4, <2>5 DEF TrackerNext, Step
<1> QED
  BY <1>1, <1>2, TrackerInvHolds, PTL DEF TrackerSpec, ImplementsDelivery, Delivery!Spec

-----------------------------------------------------------------------------
\* The transports of a process.

\* Where a thread holds an index, and where it holds a port that is no instance's yet.
Working == {"check", "bind", "transport", "register", "fail", "unregister", "reset"}
HoldsPort == {"transport", "register"}
Spots == [pc : Working \cup {"draw", "end"}, idx : Indices \cup {0}, attempt : Nat, port : Nat]

\* The places of a thread in each phase.
Places(p) ==
    IF p = "create" THEN {"draw", "check", "bind", "transport", "register", "fail", "end"}
    ELSE IF p = "destroy" THEN {"draw", "check", "unregister", "reset", "end"} ELSE {"end"}

InstTypes ==
    /\ phase \in {"create", "running", "destroy", "end"}
    /\ next_index \in Nat /\ next_port \in Nat \ {0} /\ first_error \in BOOLEAN
    /\ workers \in [Threads -> Spots]
    /\ instances \in [Indices -> {NoPort} \cup 1 .. next_port - 1]

\* What a thread has drawn is below the counters; it creates an instance where there is
\* none, on a port that no instance has; it ends for lack of indices or on an error.
ThreadOK(t) ==
    /\ workers[t].pc \in Places(phase)
    /\ workers[t].pc \in Working => workers[t].idx \in Indices /\ workers[t].idx < next_index
    /\ workers[t].pc \in Working /\ phase = "create" => instances[workers[t].idx] = NoPort
    /\ workers[t].pc \in HoldsPort =>
         workers[t].port \in 1 .. next_port - 1 /\ \A n \in Indices : instances[n] # workers[t].port
    /\ workers[t].pc = "end" => first_error \/ next_index >= NumInstances

\* No two threads have drawn the same index or port.
ThreadsApart ==
    \A t, u \in Threads : t # u =>
        /\ workers[t].pc \in Working /\ workers[u].pc \in Working => workers[t].idx # workers[u].idx
        /\ workers[t].pc \in HoldsPort /\ workers[u].pc \in HoldsPort => workers[t].port # workers[u].port

\* Instances have ports of their own.
InstancesApart ==
    \A n, m \in Indices : n # m /\ instances[n] # NoPort => instances[n] # instances[m]

\* The live transports are those of instances and of threads about to register one.
BoundOK ==
    \A p : p \in bound <=> \/ p # NoPort /\ \E n \in Indices : instances[n] = p
                           \/ \E t \in Threads : workers[t].pc = "register" /\ workers[t].port = p

\* The buffer knows the instances, except those that are being destroyed.
RegisteredOK ==
    \A p : p \in registered <=>
        p # NoPort /\ \E n \in Indices :
            instances[n] = p /\ ~\E t \in Threads : workers[t].pc = "reset" /\ workers[t].idx = n

\* What has been done for an index that was drawn, and for one that was not.
IndexOK(n) ==
    /\ phase = "create" /\ n >= next_index => instances[n] = NoPort
    /\ phase = "create" /\ n < next_index =>
         \/ first_error \/ instances[n] # NoPort
         \/ \E t \in Threads : workers[t].pc \in Working /\ workers[t].idx = n
    /\ phase = "running" => instances[n] # NoPort
    /\ phase = "destroy" /\ n < next_index =>
         \/ instances[n] = NoPort
         \/ \E t \in Threads : workers[t].pc \in Working /\ workers[t].idx = n
    /\ phase = "end" => instances[n] = NoPort

InstInv ==
    /\ InstTypes /\ \A t \in Threads : ThreadOK(t)
    /\ ThreadsApart /\ InstancesApart /\ BoundOK /\ RegisteredOK
    /\ \A n \in Indices : IndexOK(n)
    /\ phase = "destroy" => ~first_error
\* At the start nothing has been drawn.
LEMMA InstInit == InstancesInit => InstInv
<1> SUFFICES ASSUME InstancesInit PROVE InstInv
  OBVIOUS
<1>1. InstTypes
  <2>1. Fresh \in Spots
    BY Zenon DEF Fresh, At, Spots, NoPort
  <2>2. next_index \in Nat /\ next_port \in Nat \ {0}
    BY Zenon, InstancesAssumption DEF InstancesInit
  <2>3. instances \in [Indices -> {NoPort} \cup 1 .. next_port - 1]
    BY Zenon DEF InstancesInit
  <2> QED BY Zenon, <2>1, <2>2 DEF InstancesInit, InstTypes
<1>2. \A t \in Threads : workers[t].pc = "draw"
  BY Zenon DEF InstancesInit, Fresh, At
<1>3. \A t \in Threads : ThreadOK(t)
  BY Zenon, <1>2 DEF InstancesInit, ThreadOK, Places, Working, HoldsPort
<1>4. ThreadsApart /\ InstancesApart /\ BoundOK /\ RegisteredOK
  BY Zenon, <1>2 DEF InstancesInit, ThreadsApart, InstancesApart, BoundOK, RegisteredOK, Working,
     HoldsPort
<1>5. \A n \in Indices : IndexOK(n)
  BY DEF InstancesInit, IndexOK, Indices
<1> QED BY Zenon, <1>1, <1>3, <1>4, <1>5 DEF InstInv, InstancesInit

\* A thread that moves to another place leaves the others where they are.
LEMMA MovesOne ==
    ASSUME InstTypes, NEW t \in Threads, NEW s \in Spots, Moves(t, s)
    PROVE  /\ workers' \in [Threads -> Spots] /\ workers'[t] = s
           /\ \A u \in Threads : u # t => workers'[u] = workers[u]
BY Zenon DEF InstTypes, Moves

\* A step in which a thread keeps its index changes nothing for any index.
LEMMA IndexStays ==
    ASSUME InstInv, NEW t \in Threads, UNCHANGED <<phase, next_index, first_error, instances>>,
           workers'[t].pc \in Working /\ workers'[t].idx = workers[t].idx,
           \A u \in Threads : u # t => workers'[u] = workers[u]
    PROVE  \A n \in Indices : IndexOK(n)'
<1>1. ASSUME NEW n \in Indices, NEW u \in Threads, workers[u].pc \in Working /\ workers[u].idx = n
      PROVE  \E v \in Threads : workers'[v].pc \in Working /\ workers'[v].idx = n
  BY Zenon, <1>1
<1> QED BY Zenon, <1>1 DEF InstInv, IndexOK

\* A thread draws an index that no other has drawn, or ends for lack of one.
LEMMA DrawIndexKeeps ==
    ASSUME InstInv, NEW t \in Threads, DrawIndex(t) PROVE InstInv'
<1>0. InstTypes /\ ThreadOK(t) /\ workers[t] \in Spots
  BY Zenon DEF InstInv, InstTypes
<1>1. PICK s \in Spots :
             /\ Moves(t, s)
             /\ \/ next_index >= NumInstances /\ s.pc = "end"
                \/ next_index < NumInstances /\ s.pc = "check" /\ s.idx = next_index
  <2>1. next_index \in Nat /\ NumInstances \in Nat
    BY Zenon, <1>0, InstancesAssumption DEF InstTypes
  <2>2. CASE next_index >= NumInstances
    <3>1. At("end", 0, 0, NoPort) \in Spots /\ At("end", 0, 0, NoPort).pc = "end"
      BY Zenon DEF At, Spots, NoPort
    <3> QED BY Zenon, <2>2, <3>1 DEF DrawIndex
  <2>3. CASE ~(next_index >= NumInstances)
    <3>1. next_index < NumInstances /\ next_index \in Indices
      BY <2>1, <2>3 DEF Indices
    <3>2. /\ At("check", next_index, 0, NoPort) \in Spots
          /\ At("check", next_index, 0, NoPort).pc = "check"
          /\ At("check", next_index, 0, NoPort).idx = next_index
      BY Zenon, <3>1 DEF At, Spots, NoPort, Working
    <3> QED BY Zenon, <2>3, <3>1, <3>2 DEF DrawIndex
  <2> QED BY Zenon, <2>2, <2>3
<1>2. /\ workers' \in [Threads -> Spots] /\ workers'[t] = s
      /\ \A u \in Threads : u # t => workers'[u] = workers[u]
  BY Zenon, <1>0, <1>1, MovesOne
<1>3. InstTypes'
  BY <1>0, <1>2 DEF DrawIndex, InstTypes
<1>4. ASSUME NEW u \in Threads PROVE ThreadOK(u)'
  <2>0. ThreadOK(u) /\ workers[u] \in Spots
    BY Zenon DEF InstInv, InstTypes
  <2>3. \A n \in Indices : IndexOK(n)
    BY Zenon DEF InstInv
  <2>1. CASE u = t
    BY InstancesAssumption, <1>0, <1>1, <1>2, <2>1, <2>3 DEF DrawIndex, InstTypes, ThreadOK,
       IndexOK, Places, HoldsPort, Working, Indices
  <2>2. CASE u # t
    <3>1. /\ \A m \in Indices : m < next_index => m < next_index'
          /\ next_index >= NumInstances => next_index' >= NumInstances
      BY <1>0, InstancesAssumption DEF DrawIndex, InstTypes, Indices
    <3> QED BY Zenon, <1>2, <2>0, <2>2, <3>1 DEF DrawIndex, ThreadOK
  <2> QED BY Zenon, <2>1, <2>2
<1>5. ThreadsApart'
  BY <1>1, <1>2 DEF InstInv, InstTypes, ThreadOK, ThreadsApart, HoldsPort, Working
<1>6. InstancesApart'
  BY ZenonT(60) DEF InstInv, DrawIndex, InstancesApart
<1>7. BoundOK'
  BY <1>1, <1>2 DEF InstInv, DrawIndex, BoundOK
<1>8. RegisteredOK'
  BY <1>1, <1>2 DEF InstInv, DrawIndex, RegisteredOK
<1>9. ASSUME NEW n \in Indices PROVE IndexOK(n)'
  BY InstancesAssumption, <1>1, <1>2 DEF InstInv, DrawIndex, InstTypes, IndexOK, Working, Indices
<1>10. (phase = "destroy" => ~first_error)'
  BY Zenon DEF InstInv, DrawIndex
<1> QED BY <1>3, <1>4, <1>5, <1>6, <1>7, <1>8, <1>9, <1>10 DEF InstInv

\* A thread that sees an error ends; there is none while instances are destroyed.
LEMMA CheckErrorKeeps ==
    ASSUME InstInv, NEW t \in Threads, CheckError(t) PROVE InstInv'
<1>0. InstTypes /\ ThreadOK(t) /\ workers[t] \in Spots
  BY Zenon DEF InstInv, InstTypes
<1>1. PICK s \in Spots :
             /\ Moves(t, s)
             /\ \/ first_error /\ s.pc = "end"
                \/ phase = "create" /\ s.pc = "bind" /\ s.idx = workers[t].idx
                \/ phase = "destroy" /\ s.pc = "unregister" /\ s.idx = workers[t].idx
  <2>1. CASE first_error
    <3>1. At("end", 0, 0, NoPort) \in Spots /\ At("end", 0, 0, NoPort).pc = "end"
      BY Zenon DEF At, Spots, NoPort
    <3> QED BY Zenon, <2>1, <3>1 DEF CheckError
  <2>2. CASE ~first_error
    <3> DEFINE new == [workers[t] EXCEPT !.pc = IF phase = "create" THEN "bind" ELSE "unregister"]
    <3>1. new \in Spots /\ new.idx = workers[t].idx
          /\ new.pc = IF phase = "create" THEN "bind" ELSE "unregister"
      BY Zenon, <1>0 DEF Spots, Working
    <3>2. phase \in {"create", "destroy"}
      BY Zenon, <1>0 DEF CheckError, ThreadOK, Places
    <3>3. Moves(t, new)
      BY Zenon, <2>2 DEF CheckError
    <3> HIDE DEF new
    <3> QED BY Zenon, <3>1, <3>2, <3>3
  <2> QED BY Zenon, <2>1, <2>2
<1>2. /\ workers' \in [Threads -> Spots] /\ workers'[t] = s
      /\ \A u \in Threads : u # t => workers'[u] = workers[u]
  BY Zenon, <1>0, <1>1, MovesOne
<1>3. InstTypes'
  BY Zenon, <1>0, <1>2 DEF CheckError, InstTypes
<1>4. ASSUME NEW u \in Threads PROVE ThreadOK(u)'
  <2>0. ThreadOK(u) /\ workers[u] \in Spots
    BY Zenon DEF InstInv, InstTypes
  <2>1. CASE u = t
    BY Zenon, <1>0, <1>1, <1>2, <2>1 DEF CheckError, ThreadOK, Places, HoldsPort, Working
  <2>2. CASE u # t
    BY Zenon, <1>2, <2>0, <2>2 DEF CheckError, ThreadOK
  <2> QED BY Zenon, <2>1, <2>2
<1>5. ThreadsApart'
  BY <1>1, <1>2 DEF InstInv, CheckError, ThreadsApart, HoldsPort, Working
<1>6. InstancesApart'
  BY Zenon DEF InstInv, CheckError, InstancesApart
<1>7. BoundOK'
  BY <1>1, <1>2 DEF InstInv, CheckError, BoundOK
<1>8. RegisteredOK'
  BY <1>1, <1>2 DEF InstInv, CheckError, RegisteredOK
<1>9. ASSUME NEW n \in Indices PROVE IndexOK(n)'
  <2>0. IndexOK(n) /\ phase' = phase /\ next_index' = next_index /\ first_error' = first_error
    BY Zenon DEF InstInv, CheckError
  <2>1. phase = "destroy" => ~first_error
    BY Zenon DEF InstInv
  <2>2. CASE \E u \in Threads : u # t /\ workers[u].pc \in Working /\ workers[u].idx = n
    BY Zenon, <1>2, <2>0, <2>2 DEF CheckError, IndexOK
  <2>3. CASE workers[t].idx = n
    BY <1>1, <1>2, <2>0, <2>1 DEF CheckError, IndexOK, Working
  <2>4. CASE workers[t].idx # n /\ ~\E u \in Threads : u # t /\ workers[u].pc \in Working /\ workers[u].idx = n
    BY <2>0, <2>4 DEF CheckError, IndexOK
  <2> QED BY Zenon, <2>2, <2>3, <2>4
<1>10. (phase = "destroy" => ~first_error)'
  BY Zenon DEF InstInv, CheckError
<1> QED BY Zenon, <1>3, <1>4, <1>5, <1>6, <1>7, <1>8, <1>9, <1>10 DEF InstInv

\* A thread draws a port that no other has drawn.
LEMMA DrawPortKeeps ==
    ASSUME InstInv, NEW t \in Threads, DrawPort(t) PROVE InstInv'
<1>0. InstTypes /\ ThreadOK(t) /\ workers[t] \in Spots
  BY Zenon DEF InstInv, InstTypes
<1>1. PICK s \in Spots :
             /\ Moves(t, s)
             /\ s.pc \in {"fail", "transport"} /\ s.idx = workers[t].idx /\ s.port = next_port
  <2> DEFINE new == [workers[t] EXCEPT !.pc = IF next_port > LastPort THEN "fail" ELSE "transport",
                                      !.attempt = @ + 1, !.port = next_port]
  <2>1. new \in Spots /\ new.pc \in {"fail", "transport"} /\ new.idx = workers[t].idx /\ new.port = next_port
    <3>1. workers[t].attempt + 1 \in Nat /\ next_port \in Nat
      BY <1>0 DEF Spots, InstTypes
    <3> QED BY Zenon, <1>0, <3>1 DEF Spots, Working
  <2>2. Moves(t, new)
    BY Zenon DEF DrawPort
  <2> HIDE DEF new
  <2> QED BY Zenon, <2>1, <2>2
<1>2. /\ workers' \in [Threads -> Spots] /\ workers'[t] = s
      /\ \A u \in Threads : u # t => workers'[u] = workers[u]
  BY Zenon, <1>0, <1>1, MovesOne
<1>3. InstTypes'
  BY <1>0, <1>2 DEF DrawPort, InstTypes
<1>4. ASSUME NEW u \in Threads PROVE ThreadOK(u)'
  <2>0. ThreadOK(u) /\ workers[u] \in Spots
    BY Zenon DEF InstInv, InstTypes
  <2>1. CASE u = t
    BY <1>0, <1>1, <1>2, <2>1 DEF DrawPort, InstTypes, ThreadOK, Places, Working, NoPort
  <2>2. CASE u # t
    BY <1>0, <1>2, <2>0, <2>2 DEF DrawPort, InstTypes, ThreadOK
  <2> QED BY Zenon, <2>1, <2>2
<1>5. ThreadsApart'
  BY <1>1, <1>2 DEF InstInv, DrawPort, ThreadOK, ThreadsApart, Working
<1>6. InstancesApart'
  BY Zenon DEF InstInv, DrawPort, InstancesApart
<1>7. BoundOK'
  BY <1>1, <1>2 DEF InstInv, DrawPort, BoundOK
<1>8. RegisteredOK'
  BY <1>1, <1>2 DEF InstInv, DrawPort, RegisteredOK
<1>9. \A n \in Indices : IndexOK(n)'
  BY Zenon, <1>1, <1>2, IndexStays DEF DrawPort, Working
<1>10. (phase = "destroy" => ~first_error)'
  BY Zenon, <1>0 DEF DrawPort, ThreadOK, Places
<1> QED BY Zenon, <1>3, <1>4, <1>5, <1>6, <1>7, <1>8, <1>9, <1>10 DEF InstInv

\* A body that fails leaves its index to the destruction that follows.
LEMMA BodyFailsKeeps ==
    ASSUME InstInv, NEW t \in Threads, BodyFails(t) PROVE InstInv'
<1>0. InstTypes /\ ThreadOK(t) /\ workers[t] \in Spots
  BY Zenon DEF InstInv, InstTypes
<1>1. PICK s \in Spots :
             /\ Moves(t, s)
             /\ s.pc = "end"
  BY DEF BodyFails, At, Spots, NoPort
<1>2. /\ workers' \in [Threads -> Spots] /\ workers'[t] = s
      /\ \A u \in Threads : u # t => workers'[u] = workers[u]
  BY Zenon, <1>0, <1>1, MovesOne
<1>3. InstTypes'
  BY ZenonT(60), <1>0, <1>2 DEF BodyFails, InstTypes
<1>4. ASSUME NEW u \in Threads PROVE ThreadOK(u)'
  BY SMTT(60), <1>1, <1>2 DEF InstInv, BodyFails, ThreadOK, Places, HoldsPort, Working
<1>5. ThreadsApart'
  BY <1>1, <1>2 DEF InstInv, ThreadsApart, HoldsPort, Working
<1>6. InstancesApart'
  BY ZenonT(60) DEF InstInv, BodyFails, InstancesApart
<1>7. BoundOK'
  BY <1>1, <1>2 DEF InstInv, BodyFails, BoundOK
<1>8. RegisteredOK'
  BY <1>1, <1>2 DEF InstInv, BodyFails, RegisteredOK
<1>9. ASSUME NEW n \in Indices PROVE IndexOK(n)'
  BY Zenon DEF InstInv, BodyFails, ThreadOK, IndexOK, Places
<1>10. (phase = "destroy" => ~first_error)'
  BY Zenon, <1>0 DEF BodyFails, ThreadOK, Places
<1> QED BY Zenon, <1>3, <1>4, <1>5, <1>6, <1>7, <1>8, <1>9, <1>10 DEF InstInv

\* The buffer forgets an instance before its transport goes.
LEMMA UnregisterFromKeeps ==
    ASSUME InstInv, NEW t \in Threads, UnregisterFrom(t) PROVE InstInv'
<1>0. InstTypes /\ ThreadOK(t) /\ workers[t] \in Spots
  BY Zenon DEF InstInv, InstTypes
<1>1. PICK s \in Spots :
             /\ Moves(t, s)
             /\ s.pc = "reset" /\ s.idx = workers[t].idx
  BY <1>0 DEF UnregisterFrom, Spots, Working
<1>2. /\ workers' \in [Threads -> Spots] /\ workers'[t] = s
      /\ \A u \in Threads : u # t => workers'[u] = workers[u]
  BY Zenon, <1>0, <1>1, MovesOne
<1>3. InstTypes'
  BY Zenon, <1>0, <1>2 DEF UnregisterFrom, InstTypes
<1>4. ASSUME NEW u \in Threads PROVE ThreadOK(u)'
  BY Zenon, <1>1, <1>2 DEF InstInv, UnregisterFrom, ThreadOK, Places, HoldsPort, Working
<1>5. ThreadsApart'
  BY <1>1, <1>2 DEF InstInv, UnregisterFrom, ThreadsApart, HoldsPort, Working
<1>6. InstancesApart'
  BY Zenon DEF InstInv, UnregisterFrom, InstancesApart
<1>7. BoundOK'
  BY <1>1, <1>2 DEF InstInv, UnregisterFrom, BoundOK
<1>8. RegisteredOK'
  BY <1>1, <1>2 DEF InstInv, UnregisterFrom, ThreadOK, InstancesApart, RegisteredOK, Working
<1>9. \A n \in Indices : IndexOK(n)'
  BY Zenon, <1>1, <1>2, IndexStays DEF UnregisterFrom, Working
<1>10. (phase = "destroy" => ~first_error)'
  BY Zenon DEF InstInv, UnregisterFrom
<1> QED BY Zenon, <1>3, <1>4, <1>5, <1>6, <1>7, <1>8, <1>9, <1>10 DEF InstInv

\* A transport is created on a port of its own, or another port is tried.
LEMMA CreateTransportKeeps ==
    ASSUME InstInv, NEW t \in Threads, CreateTransport(t) PROVE InstInv'
<1>0. InstTypes /\ ThreadOK(t) /\ workers[t] \in Spots
  BY Zenon DEF InstInv, InstTypes
<1>1. PICK s \in Spots :
             /\ Moves(t, s)
             /\ /\ s.idx = workers[t].idx
                /\ \/ s.pc = "register" /\ s.port = workers[t].port /\ bound' = bound \cup {workers[t].port}
                   \/ s.pc \in {"bind", "fail"} /\ bound' = bound
  BY <1>0 DEF CreateTransport, Spots, Working
<1>2. /\ workers' \in [Threads -> Spots] /\ workers'[t] = s
      /\ \A u \in Threads : u # t => workers'[u] = workers[u]
  BY Zenon, <1>0, <1>1, MovesOne
<1>3. InstTypes'
  BY Zenon, <1>0, <1>2 DEF CreateTransport, InstTypes
<1>4. ASSUME NEW u \in Threads PROVE ThreadOK(u)'
  <2>0. ThreadOK(u)
    BY Zenon DEF InstInv
  <2>1. CASE u = t
    BY Zenon, <1>0, <1>1, <1>2, <2>1 DEF CreateTransport, ThreadOK, Places, HoldsPort, Working
  <2>2. CASE u # t
    BY Zenon, <1>2, <2>0, <2>2 DEF CreateTransport, ThreadOK
  <2> QED BY Zenon, <2>1, <2>2
<1>5. ThreadsApart'
  BY <1>1, <1>2 DEF InstInv, CreateTransport, ThreadsApart, HoldsPort, Working
<1>6. InstancesApart'
  BY Zenon DEF InstInv, CreateTransport, InstancesApart
<1>7. BoundOK'
  BY <1>1, <1>2 DEF InstInv, CreateTransport, BoundOK
<1>8. RegisteredOK'
  BY <1>1, <1>2 DEF InstInv, CreateTransport, RegisteredOK
<1>9. \A n \in Indices : IndexOK(n)'
  BY Zenon, <1>1, <1>2, IndexStays DEF CreateTransport, Working
<1>10. (phase = "destroy" => ~first_error)'
  BY Zenon, <1>0 DEF CreateTransport, ThreadOK, Places
<1> QED BY Zenon, <1>3, <1>4, <1>5, <1>6, <1>7, <1>8, <1>9, <1>10 DEF InstInv

\* An instance is complete when it is registered; one that cannot be is taken back.
LEMMA RegisterWithKeeps ==
    ASSUME InstInv, NEW t \in Threads, RegisterWith(t) PROVE InstInv'
<1>0. InstTypes /\ ThreadOK(t) /\ workers[t] \in Spots
  BY Zenon DEF InstInv, InstTypes
<1>1. PICK s \in Spots :
             /\ Moves(t, s)
             /\ \/ /\ s.pc = "draw" /\ registered' = registered \cup {workers[t].port} /\ bound' = bound
                   /\ instances' = [instances EXCEPT ![workers[t].idx] = workers[t].port]
                \/ /\ s.pc = "fail" /\ s.idx = workers[t].idx /\ registered' = registered
                   /\ bound' = bound \ {workers[t].port} /\ instances' = instances
  BY <1>0 DEF RegisterWith, Fresh, At, Spots, Working, NoPort
<1>2. /\ workers' \in [Threads -> Spots] /\ workers'[t] = s
      /\ \A u \in Threads : u # t => workers'[u] = workers[u]
  BY Zenon, <1>0, <1>1, MovesOne
<1>3. InstTypes'
  BY Zenon, <1>0, <1>2 DEF RegisterWith, InstTypes, ThreadOK, HoldsPort
<1>4. ASSUME NEW u \in Threads PROVE ThreadOK(u)'
  <2>0. ThreadOK(u) /\ workers[u] \in Spots
    BY Zenon DEF InstInv, InstTypes
  <2>1. CASE u = t
    BY Zenon, <1>0, <1>1, <1>2, <2>1 DEF RegisterWith, ThreadOK, Places, HoldsPort, Working
  <2>2. CASE u # t
    BY <1>2, <2>2 DEF InstInv, RegisterWith, InstTypes, ThreadOK, ThreadsApart, HoldsPort, Working
  <2> QED BY Zenon, <2>1, <2>2
<1>5. ThreadsApart'
  BY <1>1, <1>2 DEF InstInv, RegisterWith, ThreadsApart, HoldsPort, Working
<1>6. InstancesApart'
  BY DEF InstInv, RegisterWith, InstTypes, ThreadOK, InstancesApart, HoldsPort
<1>7. BoundOK'
  BY <1>1, <1>2 DEF InstInv, RegisterWith, InstTypes, ThreadOK, ThreadsApart, BoundOK, Places,
     HoldsPort, Working
<1>8. RegisteredOK'
  BY <1>1, <1>2 DEF InstInv, RegisterWith, InstTypes, ThreadOK, RegisteredOK, Places, HoldsPort,
     Working
<1>9. ASSUME NEW n \in Indices PROVE IndexOK(n)'
  <2>0. IndexOK(n) /\ phase' = phase /\ next_index' = next_index /\ first_error' = first_error
    BY Zenon DEF InstInv, RegisterWith
  <2>1. phase = "destroy" => ~first_error
    BY Zenon DEF InstInv
  <2>2. CASE \E u \in Threads : u # t /\ workers[u].pc \in Working /\ workers[u].idx = n
    <3>1. \E u \in Threads : workers'[u].pc \in Working /\ workers'[u].idx = n
      BY Zenon, <1>2, <2>2
    <3>2. workers[t].idx # n
      BY Zenon, <2>2 DEF InstInv, ThreadsApart, RegisterWith, Working
    <3>3. instances'[n] = instances[n]
      BY Zenon, <1>0, <1>1, <3>2 DEF InstTypes
    <3> QED BY Zenon, <2>0, <3>1, <3>3 DEF IndexOK
  <2>3. CASE workers[t].idx = n
    BY SMTT(60), InstancesAssumption, <1>0, <1>1, <1>2, <2>0, <2>3 DEF RegisterWith, IndexOK, InstTypes,
       ThreadOK, Places, Working, HoldsPort, Indices
  <2>4. CASE workers[t].idx # n /\ ~\E u \in Threads : u # t /\ workers[u].pc \in Working /\ workers[u].idx = n
    <3>1. instances'[n] = instances[n]
      BY Zenon, <1>0, <1>1, <2>4 DEF InstTypes
    <3>2. ~\E u \in Threads : workers[u].pc \in Working /\ workers[u].idx = n
      BY Zenon, <2>4
    <3> QED BY Zenon, <2>0, <3>1, <3>2 DEF IndexOK
  <2> QED BY Zenon, <2>2, <2>3, <2>4
<1>10. (phase = "destroy" => ~first_error)'
  BY Zenon, <1>0 DEF RegisterWith, ThreadOK, Places
<1> QED BY Zenon, <1>3, <1>4, <1>5, <1>6, <1>7, <1>8, <1>9, <1>10 DEF InstInv

\* An instance that is gone has no transport.
LEMMA ResetTransportKeeps ==
    ASSUME InstInv, NEW t \in Threads, ResetTransport(t) PROVE InstInv'
<1>0. InstTypes /\ ThreadOK(t) /\ workers[t] \in Spots
  BY Zenon DEF InstInv, InstTypes
<1>1. PICK s \in Spots :
             /\ Moves(t, s)
             /\ s.pc = "draw"
  BY DEF ResetTransport, Fresh, At, Spots, NoPort
<1>2. /\ workers' \in [Threads -> Spots] /\ workers'[t] = s
      /\ \A u \in Threads : u # t => workers'[u] = workers[u]
  BY Zenon, <1>0, <1>1, MovesOne
<1>3. InstTypes'
  BY Zenon, <1>0, <1>2 DEF ResetTransport, InstTypes
<1>4. ASSUME NEW u \in Threads PROVE ThreadOK(u)'
  BY Zenon, <1>1, <1>2 DEF InstInv, ResetTransport, ThreadOK, Places, HoldsPort, Working
<1>5. ThreadsApart'
  BY <1>1, <1>2 DEF InstInv, ThreadsApart, HoldsPort, Working
<1>6. InstancesApart'
  BY Zenon DEF InstInv, ResetTransport, InstTypes, InstancesApart
<1>7. BoundOK'
  BY <1>1, <1>2 DEF InstInv, ResetTransport, InstTypes, ThreadOK, InstancesApart, BoundOK,
     HoldsPort, Working
<1>8. RegisteredOK'
  BY SMTT(60), <1>1, <1>2 DEF InstInv, ResetTransport, InstTypes, RegisteredOK
<1>9. ASSUME NEW n \in Indices PROVE IndexOK(n)'
  BY <1>2 DEF InstInv, ResetTransport, InstTypes, ThreadOK, IndexOK, Places
<1>10. (phase = "destroy" => ~first_error)'
  BY Zenon DEF InstInv, ResetTransport
<1> QED BY Zenon, <1>3, <1>4, <1>5, <1>6, <1>7, <1>8, <1>9, <1>10 DEF InstInv

\* The threads of the next ParallelFor() start afresh, on all indices.
LEMMA StartsDestroying ==
    ASSUME InstInv, phase' = "destroy", next_index' = 0, first_error' = FALSE,
           workers' = [t \in Threads |-> Fresh], \A t \in Threads : workers[t].pc = "end",
           UNCHANGED <<next_port, instances, bound, busy, registered>>
    PROVE  InstInv'
<1>1. InstTypes'
  <2>1. Fresh \in Spots
    BY Zenon DEF Fresh, At, Spots, NoPort
  <2> QED BY Zenon, <2>1 DEF InstInv, InstTypes
<1>2. \A t \in Threads : workers'[t].pc = "draw"
  BY Zenon DEF Fresh, At
<1>3. (\A t \in Threads : ThreadOK(t))' /\ ThreadsApart'
  BY ZenonT(60), <1>2 DEF ThreadOK, ThreadsApart, Places, Working, HoldsPort
<1>4. InstancesApart' /\ BoundOK' /\ RegisteredOK'
  BY <1>2 DEF InstInv, InstancesApart, BoundOK, RegisteredOK
<1>5. (\A n \in Indices : IndexOK(n))'
  BY DEF IndexOK, Indices
<1> QED BY Zenon, <1>1, <1>3, <1>4, <1>5 DEF InstInv

\* When all threads have ended without an error every index has been drawn and dealt with.
LEMMA EndsComplete ==
    ASSUME InstInv, \A t \in Threads : workers[t].pc = "end", ~first_error, NEW n \in Indices
    PROVE  /\ phase = "create" => instances[n] # NoPort
           /\ phase = "destroy" => instances[n] = NoPort
<1>1. next_index >= NumInstances
  BY Zenon, InstancesAssumption DEF InstInv, ThreadOK
<1>2. n < next_index
  BY <1>1, InstancesAssumption DEF InstInv, InstTypes, Indices
<1> QED BY Zenon, <1>2 DEF InstInv, IndexOK, Working

\* What is complete stays as it is.
LEMMA JoinKeeps == ASSUME InstInv, Join PROVE InstInv'
<1>1. CASE phase' = "destroy"
  BY Zenon, <1>1, StartsDestroying DEF Join
<1>2. CASE phase' # "destroy"
  <2>0. /\ \/ phase = "create" /\ phase' = "running"
           \/ phase = "destroy" /\ phase' = "end"
        /\ ~first_error /\ \A t \in Threads : workers[t].pc = "end"
        /\ UNCHANGED <<next_index, first_error, workers, next_port, instances, bound, busy, registered>>
    BY Zenon, <1>2 DEF Join, InstInv
  <2>1. InstTypes' /\ ThreadsApart' /\ InstancesApart' /\ BoundOK' /\ RegisteredOK'
    BY ZenonT(60), <2>0 DEF InstInv, InstTypes, ThreadsApart, InstancesApart, BoundOK, RegisteredOK
  <2>2. (\A t \in Threads : ThreadOK(t))'
    BY Zenon, <2>0 DEF InstInv, ThreadOK, Places
  <2>3. (\A n \in Indices : IndexOK(n))'
    BY Zenon, <2>0, EndsComplete DEF IndexOK
  <2> QED BY Zenon, <2>0, <2>1, <2>2, <2>3 DEF InstInv
<1> QED BY Zenon, <1>1, <1>2

\* The destructor of a node that runs starts with all threads at rest.
LEMMA DestroyKeeps == ASSUME InstInv, DestroyInstances PROVE InstInv'
<1>1. \A t \in Threads : workers[t].pc = "end"
  BY Zenon DEF InstInv, DestroyInstances, ThreadOK, Places
<1> QED BY Zenon, <1>1, StartsDestroying DEF DestroyInstances

\* Every step keeps the invariant.
LEMMA InstStep == InstInv /\ [InstancesNext]_instanceVars => InstInv'
<1> SUFFICES ASSUME InstInv, [InstancesNext]_instanceVars PROVE InstInv'
  OBVIOUS
<1>1. CASE UNCHANGED instanceVars
  BY <1>1 DEF instanceVars, InstInv, InstTypes, ThreadOK, ThreadsApart, InstancesApart, BoundOK,
              RegisteredOK, IndexOK
<1>2. ASSUME NEW t \in Threads, ThreadStep(t) PROVE InstInv'
  BY Zenon, <1>2, DrawIndexKeeps, CheckErrorKeeps, DrawPortKeeps, CreateTransportKeeps,
     RegisterWithKeeps,
     BodyFailsKeeps, UnregisterFromKeeps, ResetTransportKeeps DEF ThreadStep
<1> QED BY Zenon, <1>1, <1>2, JoinKeeps, DestroyKeeps DEF InstancesNext

\* The invariant of the instances of a node.
LEMMA InstInvHolds == InstancesSpec => []InstInv
BY InstInit, InstStep, PTL DEF InstancesSpec

\* The buffer never keeps a pointer to a destroyed transport, for any number of instances and
\* threads, whichever creations and registrations fail (RegisteredBuffer::UnregisterFrom).
THEOREM BufferPointersAreLive == InstancesSpec => []BufferReferencesLive
<1>1. InstInv => BufferReferencesLive
  BY ZenonT(60) DEF InstInv, BoundOK, RegisteredOK, BufferReferencesLive
<1> QED BY <1>1, InstInvHolds, PTL

\* A node whose CreateInstances() succeeded has all its instances, on ports of their own, and
\* registered, although threads draw indices and ports at the same time.
THEOREM CreatedIsComplete == InstancesSpec => []RunningIsComplete
<1>1. InstInv => RunningIsComplete
  BY Zenon DEF InstInv, ThreadOK, Places, InstancesApart, RegisteredOK, IndexOK, RunningIsComplete
<1> QED BY <1>1, InstInvHolds, PTL

\* When DestroyInstances() returns, after a failed creation too, no transport and no
\* registration is left.
THEOREM DestructionIsComplete == InstancesSpec => []EndIsEmpty
<1>1. InstInv => EndIsEmpty
  BY DEF InstInv, ThreadOK, Places, BoundOK, RegisteredOK, IndexOK, EndIsEmpty
<1> QED BY <1>1, InstInvHolds, PTL

=============================================================================
