---------------------------- MODULE PostService -----------------------------
(***************************************************************************)
(* What the transport promises the users of Post() (api/transport.h): a     *)
(* post is accepted or refused, its bytes reach their destination, and only *)
(* then is its user told, once, that it succeeded, and the user of the peer *)
(* told, at most once, that a post arrived.                                 *)
(***************************************************************************)
CONSTANT Posts

VARIABLES status,      \* what the user of each post has been told
          delivered,   \* whether the bytes of each post are all at their destination
          notified     \* whether the peer's user has been told of the post

vars == <<status, delivered, notified>>

Init ==
    /\ status = [p \in Posts |-> "none"]
    /\ delivered = [p \in Posts |-> FALSE]
    /\ notified = [p \in Posts |-> FALSE]

Submit(p) ==
    /\ status[p] = "none" /\ status'[p] \in {"pending", "rejected"}
    /\ status' = [status EXCEPT ![p] = status'[p]]
    /\ UNCHANGED <<delivered, notified>>

Deliver(p) ==
    /\ status[p] = "pending" /\ ~delivered[p] /\ delivered'[p]
    /\ delivered' = [delivered EXCEPT ![p] = TRUE]
    /\ UNCHANGED <<status, notified>>

Notify(p) ==
    /\ ~notified[p] /\ notified'[p] /\ delivered[p]
    /\ notified' = [notified EXCEPT ![p] = TRUE]
    /\ UNCHANGED <<status, delivered>>

Complete(p) ==
    /\ status[p] = "pending" /\ status'[p] = "success" /\ delivered[p]
    /\ status' = [status EXCEPT ![p] = "success"]
    /\ UNCHANGED <<delivered, notified>>

Next == \E p \in Posts : Submit(p) \/ Deliver(p) \/ Notify(p) \/ Complete(p)

Spec == Init /\ [][Next]_vars
=============================================================================
