------------------------------- MODULE Control -------------------------------
(***************************************************************************)
(* The control plane of a transport (control/control.cc): how a host comes  *)
(* up, serves its HostInfo to peers and caches theirs.  The engine's main   *)
(* thread calls GetPeerHostInfo(), gRPC threads run handleHostInfoExchange, *)
(* and the thread that creates the transport runs Start().  A process may   *)
(* die and be replaced by one with other data-plane listeners: `inc` counts *)
(* the replacements.  Calls may be lost on the way out or on the way back;  *)
(* a call its caller has given up may still be handled.                     *)
(***************************************************************************)
EXTENDS Naturals

CONSTANTS Hosts, MaxRestarts

VARIABLES
    phase,        \* how far TransportImpl::Create has come on each host
    self_,        \* HostInfo shared by control plane and engine
    peer_hosts_,  \* the cache, under peer_hosts_mu_
    caller,       \* the main thread's GetPeerHostInfo call
    rpcs          \* HostInfo exchanges the network or a server thread holds

controlVars == <<phase, self_, peer_hosts_, caller, rpcs>>

None == [host |-> "none"]
Ports == {"zero", "bound", "torn"}
NewInfo(h, n) == [host |-> h, inc |-> n, port |-> "zero", nics |-> FALSE]
Idle == [at |-> "idle"]

IsValid(info) == info.port # "zero" /\ info.nics

\* Start() writes the port while gRPC threads may already run: a thread that reads
\* self_ then races with the write.
SelfAsRead(h) ==
    IF phase[h] = "listening" THEN {self_[h], [self_[h] EXCEPT !.port = "torn"]} ELSE {self_[h]}

ControlInit ==
    /\ phase = [h \in Hosts |-> "created"]
    /\ self_ = [h \in Hosts |-> NewInfo(h, 0)]
    /\ peer_hosts_ = [h \in Hosts |-> [p \in Hosts |-> None]]
    /\ caller = [h \in Hosts |-> Idle]
    /\ rpcs = {}

----------------------------------------------------------------------------
(* TransportImpl::Create: the engine fills in the listeners, then Start()   *)

CreateEngine(h) ==
    /\ phase[h] = "created"
    /\ phase' = [phase EXCEPT ![h] = "populated"]
    /\ self_' = [self_ EXCEPT ![h].nics = TRUE]
    /\ UNCHANGED <<peer_hosts_, caller, rpcs>>

\* GrpcServer::Create: from here on requests reach handleAllRequest.
CreateServer(h) ==
    /\ phase[h] = "populated"
    /\ phase' = [phase EXCEPT ![h] = "listening"]
    /\ UNCHANGED <<self_, peer_hosts_, caller, rpcs>>

NotifyServing(h) ==
    /\ phase[h] = "listening"
    /\ phase' = [phase EXCEPT ![h] = "serving"]
    /\ self_' = [self_ EXCEPT ![h].port = "bound"]
    /\ UNCHANGED <<peer_hosts_, caller, rpcs>>

\* The process dies: its calls and the calls it was handling die with it.
Restart(h) ==
    /\ self_[h].inc < MaxRestarts
    /\ phase' = [phase EXCEPT ![h] = "created"]
    /\ self_' = [self_ EXCEPT ![h] = NewInfo(h, self_[h].inc + 1)]
    /\ peer_hosts_' = [peer_hosts_ EXCEPT ![h] = [p \in Hosts |-> None]]
    /\ caller' = [caller EXCEPT ![h] = Idle]
    /\ rpcs' = {IF r.from = h THEN [r EXCEPT !.awaited = FALSE] ELSE r :
                  r \in {r \in rpcs : r.to # h \/ r.at = "answered"}}

----------------------------------------------------------------------------
(* GetPeerHostInfo: cache, else one RPC made without holding peer_hosts_mu_ *)

GetPeerHostInfo(h, p) ==
    /\ phase[h] = "serving" /\ caller[h].at = "idle" /\ h # p
    /\ IF peer_hosts_[h][p] # None
       THEN /\ caller' = [caller EXCEPT ![h] =
                            [at |-> "cached", answer |-> peer_hosts_[h][p]]]
            /\ UNCHANGED rpcs
       ELSE /\ IsValid(self_[h])
            /\ caller' = [caller EXCEPT ![h] =
                            [at |-> "waiting", peer |-> p, since |-> self_[p].inc]]
            /\ rpcs' = rpcs \cup {[from |-> h, to |-> p, at |-> "sent",
                                   info |-> self_[h], awaited |-> TRUE]}
    /\ UNCHANGED <<phase, self_, peer_hosts_>>

\* handleAllRequest and handleHostInfoExchange; a server not serving yet answers
\* Unavailable.
handleHostInfoExchange(r) ==
    /\ r.at = "sent" /\ phase[r.to] \in {"listening", "serving"}
    /\ IF phase[r.to] # "serving"
       THEN rpcs' = (rpcs \ {r}) \cup {[r EXCEPT !.at = "refused"]} /\ UNCHANGED peer_hosts_
       ELSE /\ peer_hosts_' = [peer_hosts_ EXCEPT ![r.to][r.info.host] = r.info]
            /\ \E self \in SelfAsRead(r.to) :
                 rpcs' = (rpcs \ {r}) \cup
                   (IF IsValid(self) THEN {[r EXCEPT !.at = "answered", !.info = self]}
                    ELSE {[r EXCEPT !.at = "refused"]})
    /\ UNCHANGED <<phase, self_, caller>>

ReceiveHostInfo_kept(h, r) ==
    /\ caller[h].at = "waiting" /\ r.from = h /\ r.awaited /\ r.at = "answered"
    /\ rpcs' = rpcs \ {r}
    /\ LET kept == IF peer_hosts_[h][r.to] # None THEN peer_hosts_[h][r.to] ELSE r.info
       IN /\ peer_hosts_' = [peer_hosts_ EXCEPT ![h][r.to] = kept]
          /\ caller' = [caller EXCEPT ![h] =
                          [at |-> "fetched", answer |-> kept, since |-> caller[h].since]]
    /\ UNCHANGED <<phase, self_>>

ReceiveHostInfo(h, r) ==
    /\ caller[h].at = "waiting" /\ r.from = h /\ r.awaited /\ r.at = "answered"
    /\ rpcs' = rpcs \ {r}
    /\ peer_hosts_' = [peer_hosts_ EXCEPT ![h][r.to] = r.info]
    /\ caller' = [caller EXCEPT ![h] =
                    [at |-> "fetched", answer |-> r.info, since |-> caller[h].since]]
    /\ UNCHANGED <<phase, self_>>

\* The call fails: refused, or the connection breaks at any point of it.
RpcFails(h) ==
    /\ caller[h].at = "waiting"
    /\ caller' = [caller EXCEPT ![h] = Idle]
    /\ rpcs' = {IF r.from = h THEN [r EXCEPT !.awaited = FALSE] ELSE r :
                  r \in {r \in rpcs : r.from # h \/ r.at = "sent"}}
    /\ UNCHANGED <<phase, self_, peer_hosts_>>

\* The caller goes on with the answer it got.
UseHostInfo(h) ==
    /\ caller[h].at \in {"cached", "fetched"}
    /\ caller' = [caller EXCEPT ![h] = Idle]
    /\ UNCHANGED <<phase, self_, peer_hosts_, rpcs>>

ControlNext ==
    \/ \E h \in Hosts : CreateEngine(h) \/ CreateServer(h) \/ NotifyServing(h)
                        \/ Restart(h) \/ RpcFails(h) \/ UseHostInfo(h)
    \/ \E h, p \in Hosts : GetPeerHostInfo(h, p)
    \/ \E r \in rpcs : handleHostInfoExchange(r)
    \/ \E h \in Hosts, r \in rpcs : ReceiveHostInfo(h, r)

ControlSpec == ControlInit /\ [][ControlNext]_controlVars

----------------------------------------------------------------------------
Shared == {r.info : r \in rpcs} \cup ({peer_hosts_[h][p] : h, p \in Hosts} \ {None})

\* What a host has told anyone about itself is complete and is what it still is, unless
\* its process has been replaced since: handlers refuse every call until serving_, which
\* Start() notifies after its last write to self_.
SharedIsFinal ==
    \A i \in Shared :
        IsValid(i) /\ (i.inc = self_[i.host].inc => i = self_[i.host])

\* GetPeerHostInfo's slow path never answers with a process that was already dead when
\* it was called, whatever exchanges the peers make meanwhile.  (The fast path may: no
\* cache entry is ever dropped.)
FetchedIsFresh ==
    \A h \in Hosts : caller[h].at = "fetched" => caller[h].answer.inc >= caller[h].since
=============================================================================
