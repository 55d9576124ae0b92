--------------------------- MODULE ChunkDelivery ----------------------------
(***************************************************************************)
(* What a receiver promises for one request of N chunks, whatever number of *)
(* channels, duplicates and failed reads it takes: chunks are delivered one *)
(* at a time and for good, only a delivered chunk is acknowledged, and the  *)
(* request is reported complete once, after its last chunk.                 *)
(***************************************************************************)
EXTENDS Naturals

CONSTANT N

VARIABLES delivered, acked, completed

Init == delivered = {} /\ acked = {} /\ completed = FALSE

Deliver(i) ==
    /\ i \notin delivered
    /\ delivered' = delivered \cup {i}
    /\ UNCHANGED <<acked, completed>>

Ack(i) ==
    /\ i \in delivered
    /\ acked' = acked \cup {i}
    /\ UNCHANGED <<delivered, completed>>

Complete ==
    /\ delivered = 0 .. N - 1
    /\ ~completed
    /\ completed' = TRUE
    /\ UNCHANGED <<delivered, acked>>

Next == Complete \/ \E i \in 0 .. N - 1 : Deliver(i) \/ Ack(i)

Spec == Init /\ [][Next]_<<delivered, acked, completed>>
=============================================================================
