--------------------------- MODULE RequestTracker ---------------------------
(***************************************************************************)
(* The state of a RequestTracker (internal/request/request_tracker.{h,cc})  *)
(* and the effect of its methods.  A tracker is a function from keys        *)
(* <<peer, handle>> to PostTracker records; each method runs under          *)
(* trackers_mu_ and is atomic, its callbacks run after the unlock and are   *)
(* steps of their own in the modules that use these operators.              *)
(* Metrics, trace contexts and metadata payloads are left out; a request's  *)
(* metadata is kept as the argument of resolve_addr_callback_, which is the *)
(* function `resolve` here.                                                 *)
(***************************************************************************)
EXTENDS ChunkState, Integers, Sequences, Functions

CONSTANTS NoPeer,     \* Endpoint{}: the key of locally initiated posts
          NullAddr    \* addr_t(0)

NoCallback == [kind |-> "none", peer |-> NoPeer]

NewPostTracker(on_complete, is_initiator) ==
    [req_map |-> <<>>, pending_reqs |-> 0,
     on_complete |-> on_complete, is_initiator |-> is_initiator]

Put(trackers, key, pt) ==
    [k \in DOMAIN trackers \cup {key} |-> IF k = key THEN pt ELSE trackers[k]]

Erase(trackers, key) == Restrict(trackers, DOMAIN trackers \ {key})

\* A post without request descriptors yet is not complete.
isComplete(pt) ==
    /\ DOMAIN pt.req_map # {}
    /\ \A r \in DOMAIN pt.req_map : IsDone(pt.req_map[r].chunks)

Check(trackers, handle, peer) ==
    IF <<peer, handle>> \notin DOMAIN trackers THEN "kNotFound"
    ELSE IF isComplete(trackers[<<peer, handle>>]) THEN "kSuccess" ELSE "kInProgress"

\* Add(handle, on_complete): registers a locally initiated post; it is refused
\* when the handle is already in the tracker.
CanAdd(trackers, handle) == <<NoPeer, handle>> \notin DOMAIN trackers

AddHandle(trackers, handle, on_complete) ==
    Put(trackers, <<NoPeer, handle>>, NewPostTracker(on_complete, TRUE))

-----------------------------------------------------------------------------
\* Add(handle, reqs, peer): the descriptors of a post, announced by the main
\* thread for its own posts or by a PostInfo from a peer on every channel.

EntryFor(trackers, handle, peer) ==
    IF <<peer, handle>> \in DOMAIN trackers THEN trackers[<<peer, handle>>]
    ELSE NewPostTracker(NoCallback, FALSE)

ResolvedAddr(req, resolve) ==
    IF req.raddr = NullAddr THEN resolve[req.meta] ELSE req.raddr

AddOutcome(trackers, handle, reqs, peer, resolve) ==
    LET pt == EntryFor(trackers, handle, peer)
    IN  IF DOMAIN pt.req_map # {} THEN "populated"
        ELSE IF pt.is_initiator THEN "added"
        ELSE IF \E j \in DOMAIN reqs : ResolvedAddr(reqs[j], resolve) = NullAddr THEN "unresolved"
        ELSE IF reqs[1].op = "read" THEN "recv_read" ELSE "added"

NewReqMap(reqs, resolve) ==
    [reqid \in {reqs[j].reqid : j \in DOMAIN reqs} |->
       LET req == CHOOSE q \in Range(reqs) : q.reqid = reqid
       IN  [chunks |-> NewChunks(req.nchunks), raddr |-> ResolvedAddr(req, resolve)]]

\* A responder counts a whole read as one pending request, finished by the
\* callback of its reply; a write counts one per request.
PendingReqs_perRequest(reqs, outcome) == Len(reqs)
PendingReqs_one(reqs, outcome) == 1
PendingReqs(reqs, outcome) == IF outcome = "recv_read" THEN 1 ELSE Len(reqs)

AddReqs(trackers, handle, reqs, peer, resolve) ==
    LET key == <<peer, handle>>
        pt == EntryFor(trackers, handle, peer)
        outcome == AddOutcome(trackers, handle, reqs, peer, resolve)
    IN  CASE outcome = "populated" -> trackers
          [] outcome = "unresolved" ->
               IF key \in DOMAIN trackers
               THEN Put(trackers, key, [pt EXCEPT !.req_map = <<>>, !.pending_reqs = 0])
               ELSE trackers
          [] OTHER -> Put(trackers, key,
               [pt EXCEPT !.req_map = NewReqMap(reqs, resolve),
                          !.pending_reqs = PendingReqs(reqs, outcome)])

-----------------------------------------------------------------------------
\* Update(handle, reqid, index): an acknowledged (or, one-sided, a completed)
\* chunk of a locally initiated post.  req_map.at(reqid) aborts the process when
\* the request is missing.

UpdateAborts(trackers, handle, reqid) ==
    /\ <<NoPeer, handle>> \in DOMAIN trackers
    /\ reqid \notin DOMAIN trackers[<<NoPeer, handle>>].req_map

AfterSet(trackers, handle, reqid, index) ==
    [trackers[<<NoPeer, handle>>] EXCEPT !.req_map[reqid].chunks = SetChunk(@, index)]

\* The callback Update moves out of the entry it erases, if it does.
UpdateCallback(trackers, handle, reqid, index) ==
    IF /\ <<NoPeer, handle>> \in DOMAIN trackers
       /\ isComplete(AfterSet(trackers, handle, reqid, index))
    THEN trackers[<<NoPeer, handle>>].on_complete ELSE NoCallback

Update(trackers, handle, reqid, index) ==
    IF <<NoPeer, handle>> \notin DOMAIN trackers THEN trackers
    ELSE IF UpdateCallback(trackers, handle, reqid, index) # NoCallback
    THEN Erase(trackers, <<NoPeer, handle>>)
    ELSE Put(trackers, <<NoPeer, handle>>, AfterSet(trackers, handle, reqid, index))

-----------------------------------------------------------------------------
\* OnReqComplete(handle, peer): one request of an incoming post has all of its
\* chunks.  pending_reqs is unsigned: decrementing zero would not end at zero,
\* which -1 stands for.

IsLastReq_anyRequest(trackers, handle, peer) == <<peer, handle>> \in DOMAIN trackers
IsLastReq(trackers, handle, peer) ==
    /\ <<peer, handle>> \in DOMAIN trackers
    /\ trackers[<<peer, handle>>].pending_reqs = 1

OnReqComplete_evicts(trackers, handle, peer) ==
    IF <<peer, handle>> \notin DOMAIN trackers THEN trackers
    ELSE IF IsLastReq(trackers, handle, peer) THEN Erase(trackers, <<peer, handle>>)
    ELSE [trackers EXCEPT ![<<peer, handle>>].pending_reqs = @ - 1]
OnReqComplete(trackers, handle, peer) ==
    LET key == <<peer, handle>>
    IN  IF key \notin DOMAIN trackers THEN trackers
        ELSE IF /\ IsLastReq(trackers, handle, peer)
                /\ trackers[key].is_initiator
                /\ trackers[key].on_complete # NoCallback
        THEN Erase(trackers, key)
        ELSE [trackers EXCEPT ![key].pending_reqs = @ - 1]

-----------------------------------------------------------------------------
\* The lookups of the receive path.

HasReq(trackers, handle, reqid, peer) ==
    /\ <<peer, handle>> \in DOMAIN trackers
    /\ reqid \in DOMAIN trackers[<<peer, handle>>].req_map

\* GetChunkAddr without the byte offset: the base address or null.
GetChunkAddr(trackers, handle, reqid, peer) ==
    IF HasReq(trackers, handle, reqid, peer)
    THEN trackers[<<peer, handle>>].req_map[reqid].raddr ELSE NullAddr

\* The tracker with the chunks of one request replaced, through the reference
\* that Find returned.
WithChunks(trackers, handle, reqid, peer, chunks) ==
    [trackers EXCEPT ![<<peer, handle>>].req_map[reqid].chunks = chunks]
=============================================================================
