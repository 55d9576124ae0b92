----------------------------- MODULE RateLimiter ----------------------------
(***************************************************************************)
(* BlockingRateLimiter: threads reserve a slot on a shared timeline under   *)
(* mu_ and sleep until it ends.  Time is a natural number; a thread may be  *)
(* delayed at any point, so it may return later than the end of its slot.   *)
(***************************************************************************)
EXTENDS Integers

CONSTANTS
    Consumers,    \* threads
    Sizes,        \* the sizes of the Consume calls
    NsPerByte,    \* ns_per_byte_
    MaxConsumes,  \* bound: calls altogether
    MaxIdle       \* bound: the time at which the clock stops unless a thread sleeps

ASSUME RateAssumption ==
    Sizes \subseteq Nat /\ NsPerByte \in Nat /\ MaxConsumes \in Nat /\ MaxIdle \in Nat

VARIABLES
    now,        \* MonotonicNow()
    deadline,   \* deadline_
    slot,       \* the slot each sleeping thread has reserved
    done,       \* the slots of the calls that have returned, with the time they did
    consumes    \* calls so far

rateVars == <<now, deadline, slot, done, consumes>>

NoSlot == [start |-> -1, from |-> -1, to |-> -1]
Sleeping(t) == slot[t] # NoSlot

RateInit ==
    /\ now = 0 /\ deadline = -1       \* -InfiniteDuration
    /\ slot = [t \in Consumers |-> NoSlot] /\ done = {} /\ consumes = 0

\* Consume up to the call of SleepFor: reserve appends the slot to the timeline.
Consume_lost(t, bytes) ==
    LET from == now
        to == from + bytes * NsPerByte
    IN  /\ ~Sleeping(t) /\ consumes < MaxConsumes /\ consumes' = consumes + 1
        /\ \/ bytes = 0 /\ UNCHANGED <<deadline, slot>>
           \/ /\ bytes >= 1 /\ deadline' = to
              /\ slot' = [slot EXCEPT ![t] = [start |-> now, from |-> from, to |-> to]]
        /\ UNCHANGED <<now, done>>
Consume(t, bytes) ==
    LET from == IF now > deadline THEN now ELSE deadline
        to == from + bytes * NsPerByte
    IN  /\ ~Sleeping(t) /\ consumes < MaxConsumes /\ consumes' = consumes + 1
        /\ \/ bytes = 0 /\ UNCHANGED <<deadline, slot>>
           \/ /\ bytes >= 1 /\ deadline' = to
              /\ slot' = [slot EXCEPT ![t] = [start |-> now, from |-> from, to |-> to]]
        /\ UNCHANGED <<now, done>>

\* SleepFor returns, at the end of the slot or later.
Wake(t) ==
    /\ Sleeping(t) /\ now >= slot[t].to
    /\ done' = done \cup {[start |-> slot[t].start, from |-> slot[t].from, to |-> slot[t].to, end |-> now]}
    /\ slot' = [slot EXCEPT ![t] = NoSlot]
    /\ UNCHANGED <<now, deadline, consumes>>

Tick ==
    /\ now < MaxIdle \/ \E t \in Consumers : Sleeping(t) /\ now < slot[t].to
    /\ now' = now + 1
    /\ UNCHANGED <<deadline, slot, done, consumes>>

RateNext ==
    \/ \E t \in Consumers : Wake(t) \/ \E bytes \in Sizes : Consume(t, bytes)
    \/ Tick

RateSpec == RateInit /\ [][RateNext]_rateVars

-----------------------------------------------------------------------------
\* The values of the limiter's clock, deadline and reservations.
RateTypeOK ==
    /\ now \in Nat /\ deadline \in Nat \cup {-1} /\ consumes \in 0 .. MaxConsumes
    /\ slot \in [Consumers -> {NoSlot} \cup [start : Nat, from : Nat, to : Nat]]
    /\ done \subseteq [start : Nat, from : Nat, to : Nat, end : Nat]

Slots == {[from |-> c.from, to |-> c.to] : c \in done}
         \cup {[from |-> slot[t].from, to |-> slot[t].to] : t \in {t \in Consumers : Sleeping(t)}}
\* The slots of the timeline that reserve() has given to calls, sleeping or returned, do not
\* overlap and end by the deadline: no two callers are paced by the same stretch of time.
SlotsDisjoint ==
    /\ \A c \in Slots : c.from <= c.to /\ c.to <= deadline
    /\ \A t, u \in Consumers : t # u /\ Sleeping(t) /\ Sleeping(u) =>
         slot[t].to <= slot[u].from \/ slot[u].to <= slot[t].from
    /\ \A c \in done : \A t \in Consumers : Sleeping(t) =>
         c.to <= slot[t].from \/ slot[t].to <= c.from

=============================================================================
