---------------------------- MODULE TraceBuffer -----------------------------
(***************************************************************************)
(* The lock-free ring of trace events.                                     *)
(* Threads record events word by word; one thread takes snapshots, one      *)
(* clears.  Words other than the last are stored and loaded with relaxed    *)
(* ordering, so in any order; the last word is stored after them (release)  *)
(* and loaded before them (acquire).                                        *)
(***************************************************************************)
EXTENDS Integers, Sequences, FiniteSets

CONSTANTS
    Recorders,     \* threads that record
    Capacity,      \* kCapacity, a power of two
    NumWords,      \* Slot::kNumWords
    MaxRecords,    \* bound: events recorded
    MaxClears      \* bound: calls of Clear

ASSUME TraceAssumption ==
    /\ Capacity \in Nat \ {0} /\ NumWords \in Nat \ {0, 1}
    /\ MaxRecords \in Nat /\ MaxClears \in Nat

\* An event is the number of the call that recorded it; 0 is a cleared word.
Slots == 0 .. Capacity - 1
Words == 1 .. NumWords
Relaxed == 1 .. NumWords - 1
SlotOf(idx) == idx % Capacity      \* idx & kMask

VARIABLES
    words,       \* events_: the words of each slot
    writeIdx,    \* write_idx_
    recorder,    \* where each Record() is
    reader,      \* where Snapshot() is
    clearer,     \* where Clear() is
    recorded,    \* events recorded so far
    log,         \* the event of each index reserved since the last Clear
    disturbed,   \* a Record reserved a slot while another was still storing to it, or
                 \* while a Clear was running
    clears       \* calls of Clear so far

traceVars == <<words, writeIdx, recorder, reader, clearer, recorded, log, disturbed, clears>>

NotRecording == [slot |-> -1, event |-> 0, todo |-> {}]
NotReading == [at |-> "idle", total |-> 0, i |-> 0, raw |-> <<>>, todo |-> {}, out |-> <<>>,
               quiet |-> TRUE, expect |-> <<>>]
NotClearing == [at |-> "idle", todo |-> {}]

TraceInit ==
    /\ words = [s \in Slots |-> [w \in Words |-> 0]] /\ writeIdx = 0
    /\ recorder = [t \in Recorders |-> NotRecording]
    /\ reader = NotReading /\ clearer = NotClearing
    /\ recorded = 0 /\ log = <<>> /\ disturbed = FALSE /\ clears = 0

Recording(t) == recorder[t].event # 0

-----------------------------------------------------------------------------
\* Record: fetch_add, the relaxed stores, the release store.

Reserve(t) ==
    /\ ~Recording(t) /\ recorded < MaxRecords /\ recorded' = recorded + 1
    /\ writeIdx' = writeIdx + 1 /\ log' = Append(log, recorded + 1)
    /\ recorder' = [recorder EXCEPT ![t] =
         [slot |-> SlotOf(writeIdx), event |-> recorded + 1, todo |-> Relaxed]]
    /\ disturbed' = \/ disturbed \/ clearer.at # "idle"
                    \/ \E u \in Recorders : Recording(u) /\ recorder[u].slot = SlotOf(writeIdx)
    /\ reader' = [reader EXCEPT !.quiet = FALSE]
    /\ UNCHANGED <<words, clearer, clears>>

Store(t, w) == words' = [words EXCEPT ![recorder[t].slot][w] = recorder[t].event]

StoreRelaxed(t, w) ==
    /\ Recording(t) /\ w \in recorder[t].todo /\ Store(t, w)
    /\ recorder' = [recorder EXCEPT ![t].todo = @ \ {w}]
    /\ UNCHANGED <<writeIdx, reader, clearer, recorded, log, disturbed, clears>>

StoreRelease(t) ==
    /\ Recording(t) /\ recorder[t].todo = {} /\ Store(t, NumWords)
    /\ recorder' = [recorder EXCEPT ![t] = NotRecording]
    /\ UNCHANGED <<writeIdx, reader, clearer, recorded, log, disturbed, clears>>

-----------------------------------------------------------------------------
\* Snapshot: load write_idx_, then every slot of the last events, last word first.
\* One call is enough: it may begin at any time.

Oldest_more(total) == IF total > Capacity THEN total - Capacity - 1 ELSE 0
Oldest(total) == IF total > Capacity THEN total - Capacity ELSE 0

BeginSnapshot(s) == [at |-> IF s = 0 THEN "done" ELSE "last", total |-> s, i |-> Oldest(s),
                     raw |-> [w \in Words |-> 0], todo |-> Relaxed, out |-> <<>>,
                     quiet |-> clearer.at = "idle" /\ \A t \in Recorders : ~Recording(t),
                     expect |-> SubSeq(log, Oldest(s) + 1, s)]

LoadTotal ==
    /\ reader.at = "idle"
    /\ reader' = BeginSnapshot(writeIdx)
    /\ UNCHANGED <<words, writeIdx, recorder, clearer, recorded, log, disturbed, clears>>

LoadAcquire ==
    /\ reader.at = "last"
    /\ reader' = [reader EXCEPT !.at = "relaxed", !.todo = Relaxed,
                    !.raw = [@ EXCEPT ![NumWords] = words[SlotOf(reader.i)][NumWords]]]
    /\ UNCHANGED <<words, writeIdx, recorder, clearer, recorded, log, disturbed, clears>>

LoadRelaxed(w) ==
    LET raw == [reader.raw EXCEPT ![w] = words[SlotOf(reader.i)][w]]
        last == reader.todo = {w}
    IN  /\ reader.at = "relaxed" /\ w \in reader.todo
        /\ reader' = [reader EXCEPT
             !.raw = raw, !.todo = @ \ {w},
             !.at = IF ~last THEN @ ELSE IF reader.i + 1 < reader.total THEN "last" ELSE "done",
             !.i = IF last THEN @ + 1 ELSE @,
             !.out = IF last THEN Append(@, raw) ELSE @]
        /\ UNCHANGED <<words, writeIdx, recorder, clearer, recorded, log, disturbed, clears>>

-----------------------------------------------------------------------------
\* Clear: reset write_idx_, then zero the slots.

BeginClear ==
    /\ clearer.at = "idle" /\ clears < MaxClears /\ clears' = clears + 1
    /\ writeIdx' = 0 /\ log' = <<>>
    /\ clearer' = [at |-> "zero", todo |-> Slots \X Words]
    /\ reader' = [reader EXCEPT !.quiet = FALSE]
    /\ UNCHANGED <<words, recorder, recorded, disturbed>>

\* Slot by slot, the words of a slot in any order.
ZeroWord(s, w) ==
    /\ clearer.at = "zero" /\ <<s, w>> \in clearer.todo
    /\ \A sw \in clearer.todo : s <= sw[1]
    /\ words' = [words EXCEPT ![s][w] = 0]
    /\ clearer' = IF clearer.todo = {<<s, w>>} THEN NotClearing
                  ELSE [clearer EXCEPT !.todo = @ \ {<<s, w>>}]
    /\ UNCHANGED <<writeIdx, recorder, reader, recorded, log, disturbed, clears>>

-----------------------------------------------------------------------------
TraceNext ==
    \/ \E t \in Recorders : Reserve(t) \/ StoreRelease(t) \/ \E w \in Relaxed : StoreRelaxed(t, w)
    \/ LoadTotal \/ LoadAcquire \/ \E w \in Relaxed : LoadRelaxed(w)
    \/ BeginClear \/ \E s \in Slots, w \in Words : ZeroWord(s, w)

\* A snapshot that no Record and no Clear overlaps holds exactly the last events
\* recorded, whole and in the order of their indices, unless at some time before a
\* Record was lapped by the ring, or overlapped a Clear.
QuietSnapshotIsExact ==
    reader.at = "done" /\ reader.quiet /\ ~disturbed =>
        reader.out = [k \in DOMAIN reader.expect |-> [w \in Words |-> reader.expect[k]]]

=============================================================================
