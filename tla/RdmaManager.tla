----------------------------- MODULE RdmaManager -----------------------------
(***************************************************************************)
(* RDMA connection setup between hosts (rdma/rdma_manager.cc over           *)
(* rdma/rdma_qpair.cc and the control plane's RDMA handler).  The main      *)
(* thread of a host runs Connect(), a gRPC thread of its peer runs          *)
(* handleConnect() under rdma_handler_mu_, and the engine's destructor runs *)
(* ~RdmaManager, which clears the handler under the same lock.  Every verbs *)
(* call may fail, and a call may be lost before or after it was handled.    *)
(***************************************************************************)
EXTENDS Naturals, FiniteSets

CONSTANTS
    RdmaHosts,
    NumConns    \* num_conns of each Connect()

VARIABLES
    life,       \* "alive", then "dropped" (handler cleared), then "destroyed"
    handlerMu,  \* rdma_handler_mu_: "free", or "held" by a running handler
    mu_,        \* mu_ of the manager: "free" or "main"
    qpairs,     \* the queue pairs a host has
    nextQpn,    \* the number the device gives to the next one
    main,       \* the main thread's Connect()
    requests    \* RdmaConnReq calls the network or a gRPC thread holds

rdmaVars == <<life, handlerMu, mu_, qpairs, nextQpn, main, requests>>

\* The device hands out queue pair numbers 1, 2, ...; 0 is no queue pair.
NoQp == 0
NoPsn == <<"none", 0>>
NoResp == [qpn |-> NoQp, psn |-> NoPsn]

----------------------------------------------------------------------------
(* Queue pairs *)

\* RdmaQPair::Create and Init.
NewQPair(h) == [qpn |-> nextQpn[h], state |-> "init", dest |-> NoQp, rq |-> NoPsn, sq |-> NoPsn]

\* genPsn(): a random number, here one unlike all the others.
genPsn(h) == <<h, nextQpn[h]>>

\* RdmaQPair::Connect: Rtr then Rts; a queue pair whose transition fails is of no use.
ConnectQPair(qp, remote_qpn, remote_psn, local_psn) ==
    [qp EXCEPT !.state = "rts", !.dest = remote_qpn, !.rq = remote_psn, !.sq = local_psn]

QPair(h, n) == CHOOSE qp \in qpairs[h] : qp.qpn = n

RdmaInit ==
    /\ life = [h \in RdmaHosts |-> "alive"]
    /\ handlerMu = [h \in RdmaHosts |-> "free"]
    /\ mu_ = [h \in RdmaHosts |-> "free"]
    /\ qpairs = [h \in RdmaHosts |-> {}]
    /\ nextQpn = [h \in RdmaHosts |-> 1]
    /\ main = [h \in RdmaHosts |-> [at |-> "idle"]]
    /\ requests = {}

----------------------------------------------------------------------------
(* Connect: up to twice as many attempts as connections wanted *)

\* The peer's HostInfo is resolved and lists RDMA interfaces, or Connect returns at once.
BeginConnect(h, p) ==
    /\ main[h].at = "idle" /\ life[h] = "alive" /\ h # p
    /\ \/ main' = [main EXCEPT ![h] = [at |-> "attempt", peer |-> p, i |-> 0, conns |-> {}]]
       \/ main' = [main EXCEPT ![h] = [at |-> "done", peer |-> p, i |-> 0, conns |-> {}]]
    /\ UNCHANGED <<life, handlerMu, mu_, qpairs, nextQpn, requests>>

More(h) == main[h].i < 2 * NumConns /\ Cardinality(main[h].conns) < NumConns

NextAttempt(h) == [at |-> "attempt", peer |-> main[h].peer, i |-> main[h].i + 1, conns |-> main[h].conns]

CreateFails(h) ==
    /\ main[h].at = "attempt" /\ More(h)
    /\ main' = [main EXCEPT ![h] = NextAttempt(h)]
    /\ UNCHANGED <<life, handlerMu, mu_, qpairs, nextQpn, requests>>

\* A queue pair and a packet sequence number; then mu_ is taken to look up the keys.
CreateLocal(h) ==
    /\ main[h].at = "attempt" /\ More(h) /\ mu_[h] = "free"
    /\ qpairs' = [qpairs EXCEPT ![h] = @ \cup {NewQPair(h)}]
    /\ nextQpn' = [nextQpn EXCEPT ![h] = @ + 1]
    /\ mu_' = [mu_ EXCEPT ![h] = "main"]
    /\ main' = [main EXCEPT ![h] =
                  [at |-> "keys", peer |-> main[h].peer, i |-> main[h].i,
                   conns |-> main[h].conns, qpn |-> nextQpn[h], psn |-> genPsn(h)]]
    /\ UNCHANGED <<life, handlerMu, requests>>

ConnectRdmaPeer_locked(h) ==
    /\ main[h].at = "keys"
    /\ main' = [main EXCEPT ![h].at = "waiting"]
    /\ requests' = requests \cup {[from |-> h, to |-> main[h].peer, qpn |-> main[h].qpn,
                                   psn |-> main[h].psn, at |-> "sent", resp |-> NoResp]}
    /\ UNCHANGED <<life, handlerMu, mu_, qpairs, nextQpn>>

\* mu_ is released before the RPC is made.
ConnectRdmaPeer(h) ==
    /\ main[h].at = "keys"
    /\ mu_' = [mu_ EXCEPT ![h] = "free"]
    /\ main' = [main EXCEPT ![h].at = "waiting"]
    /\ requests' = requests \cup {[from |-> h, to |-> main[h].peer, qpn |-> main[h].qpn,
                                   psn |-> main[h].psn, at |-> "sent", resp |-> NoResp]}
    /\ UNCHANGED <<life, handlerMu, qpairs, nextQpn>>

IsReplyTo(r, h) == r.from = h /\ main[h].at = "waiting" /\ r.qpn = main[h].qpn

ReceiveResponse_swapped(h, r) ==
    /\ IsReplyTo(r, h) /\ r.at = "answered"
    /\ requests' = requests \ {r}
    /\ LET qp == QPair(h, r.qpn)
           connected == ConnectQPair(qp, r.resp.qpn, main[h].psn, r.resp.psn)
       IN \/ /\ qpairs' = [qpairs EXCEPT ![h] = (@ \ {qp}) \cup {connected}]
             /\ main' = [main EXCEPT ![h] = [NextAttempt(h) EXCEPT !.conns = @ \cup {connected.qpn}]]
          \/ /\ qpairs' = [qpairs EXCEPT ![h] = @ \ {qp}]
             /\ main' = [main EXCEPT ![h] = NextAttempt(h)]
    /\ UNCHANGED <<life, handlerMu, mu_, nextQpn>>

\* The response connects the local queue pair, or the attempt fails and destroys it.
ReceiveResponse(h, r) ==
    /\ IsReplyTo(r, h) /\ r.at = "answered"
    /\ requests' = requests \ {r}
    /\ LET qp == QPair(h, r.qpn)
           connected == ConnectQPair(qp, r.resp.qpn, r.resp.psn, main[h].psn)
       IN \/ /\ qpairs' = [qpairs EXCEPT ![h] = (@ \ {qp}) \cup {connected}]
             /\ main' = [main EXCEPT ![h] = [NextAttempt(h) EXCEPT !.conns = @ \cup {connected.qpn}]]
          \/ /\ qpairs' = [qpairs EXCEPT ![h] = @ \ {qp}]
             /\ main' = [main EXCEPT ![h] = NextAttempt(h)]
    /\ UNCHANGED <<life, handlerMu, mu_, nextQpn>>

\* The RPC fails: refused, or the connection breaks at any point of the call.
RequestFails(h, r) ==
    /\ IsReplyTo(r, h)
    /\ requests' = IF r.at \in {"sent", "running"} THEN requests ELSE requests \ {r}
    /\ qpairs' = [qpairs EXCEPT ![h] = @ \ {QPair(h, r.qpn)}]
    /\ main' = [main EXCEPT ![h] = NextAttempt(h)]
    /\ UNCHANGED <<life, handlerMu, mu_, nextQpn>>

ConnectReturns(h) ==
    /\ main[h].at = "attempt" /\ ~More(h)
    /\ main' = [main EXCEPT ![h].at = "done"]
    /\ UNCHANGED <<life, handlerMu, mu_, qpairs, nextQpn, requests>>

----------------------------------------------------------------------------
(* The peer's gRPC thread *)

\* The answer to a call its caller has given up goes nowhere.
Answer(r, reply) == (requests \ {r}) \cup {x \in {reply} : IsReplyTo(r, r.from)}

\* Control::handleRdmaConnect takes rdma_handler_mu_; without a handler the call fails.
handleRdmaConnect(r) ==
    /\ r.at = "sent" /\ handlerMu[r.to] = "free"
    /\ IF life[r.to] = "alive"
       THEN /\ handlerMu' = [handlerMu EXCEPT ![r.to] = "held"]
            /\ requests' = (requests \ {r}) \cup {[r EXCEPT !.at = "running"]}
       ELSE requests' = Answer(r, [r EXCEPT !.at = "refused"]) /\ UNCHANGED handlerMu
    /\ UNCHANGED <<life, mu_, qpairs, nextQpn, main>>

\* A queue pair is created and connected to the caller's, and kept; or some step fails.
handleConnect(r) ==
    /\ r.at = "running" /\ mu_[r.to] = "free"
    /\ handlerMu' = [handlerMu EXCEPT ![r.to] = "free"]
    /\ \/ LET qp == ConnectQPair(NewQPair(r.to), r.qpn, r.psn, genPsn(r.to))
          IN /\ qpairs' = [qpairs EXCEPT ![r.to] = @ \cup {qp}]
             /\ nextQpn' = [nextQpn EXCEPT ![r.to] = @ + 1]
             /\ requests' =
                  Answer(r, [r EXCEPT !.at = "answered", !.resp = [qpn |-> qp.qpn, psn |-> qp.sq]])
       \/ /\ requests' = Answer(r, [r EXCEPT !.at = "refused"])
          /\ UNCHANGED <<qpairs, nextQpn>>
    /\ UNCHANGED <<life, mu_, main>>

----------------------------------------------------------------------------
(* ~RdmaManager: the engine has joined the main thread and freed the channels *)

\* control_.SetRdmaConnHandler(nullptr)
DropHandler(h) ==
    /\ life[h] = "alive" /\ main[h].at \in {"idle", "done"} /\ handlerMu[h] = "free"
    /\ life' = [life EXCEPT ![h] = "dropped"]
    /\ qpairs' = [qpairs EXCEPT ![h] = {qp \in @ : main[h].at = "idle" \/ qp.qpn \notin main[h].conns}]
    /\ UNCHANGED <<handlerMu, mu_, nextQpn, main, requests>>

\* The members go: inbound_rdma_qps_, memory_, device_.
DestroyManager(h) ==
    /\ life[h] = "dropped"
    /\ life' = [life EXCEPT ![h] = "destroyed"]
    /\ qpairs' = [qpairs EXCEPT ![h] = {}]
    /\ UNCHANGED <<handlerMu, mu_, nextQpn, main, requests>>

ConnectorStep(h) ==
    \/ CreateFails(h) \/ CreateLocal(h) \/ ConnectRdmaPeer(h) \/ ConnectReturns(h)
    \/ \E r \in requests : ReceiveResponse(h, r) \/ (RequestFails(h, r) /\ r.at = "refused")

HandlerStep(p) == \E r \in requests : r.to = p /\ (handleRdmaConnect(r) \/ handleConnect(r))

RdmaNext ==
    \/ \E h, p \in RdmaHosts : BeginConnect(h, p)
    \/ \E h \in RdmaHosts : ConnectorStep(h) \/ HandlerStep(h) \/ DropHandler(h) \/ DestroyManager(h)
    \/ \E h \in RdmaHosts, r \in requests : RequestFails(h, r)

----------------------------------------------------------------------------
\* Every connection Connect() has made has its counterpart at the peer, connected back
\* to it, each side sending with the sequence number the other expects, and no two
\* connections share one; whatever calls failed, were lost or are still being handled.
ConnectionsMatch ==
    \A h \in RdmaHosts : main[h].at # "idle" /\ life[h] = "alive" =>
        \A c \in main[h].conns :
            LET mine == QPair(h, c)
                p == main[h].peer
            IN /\ mine.state = "rts"
               /\ life[p] # "destroyed" =>
                    \E yours \in qpairs[p] :
                        /\ yours.state = "rts" /\ yours.qpn = mine.dest /\ yours.dest = mine.qpn
                        /\ yours.rq = mine.sq /\ yours.sq = mine.rq
               /\ \A d \in main[h].conns \ {c} : QPair(h, d).dest # mine.dest

\* No handler runs in a manager that is being destroyed: ~RdmaManager waits for the
\* running one and no other starts after it.
HandlersOutlived ==
    \A r \in requests : r.at = "running" => life[r.to] = "alive"

\* The queue pairs a host has are connections, the one an attempt is making, and those
\* its peers asked for: a failed attempt leaves nothing behind at its own side.
NoStrayQPairs ==
    \A h \in RdmaHosts :
        \A qp \in qpairs[h] :
            \/ qp.state = "rts"
            \/ main[h].at \in {"keys", "waiting"} /\ qp.qpn = main[h].qpn

\* Connect() returns, even when two hosts connect to each other at the same time: no
\* lock is held across the RPC that the peer's handler needs.
ConnectsReturn == \A h \in RdmaHosts : main[h].at = "attempt" ~> main[h].at = "done"
=============================================================================
