--------------------------- MODULE PeeringProofs ----------------------------
(***************************************************************************)
(* What hosts do to reach each other: the control planes of any number of   *)
(* hosts and restarts, the queue pairs they connect, the writes of an RDMA  *)
(* channel and the table of memory registered with any number of devices.   *)
(***************************************************************************)
EXTENDS Control, RdmaManager, RdmaChannel, RdmaMemory, TLAPS

\* The control plane.

InfoRecords == [host : Hosts, inc : Nat, port : Ports, nics : BOOLEAN]
RpcRecords ==
    [from : Hosts, to : Hosts, at : {"sent", "answered", "refused"}, info : InfoRecords,
     awaited : BOOLEAN]

\* Own infos have the right host, and are complete once the server serves.
SelfOK ==
    /\ phase \in [Hosts -> {"created", "populated", "listening", "serving"}]
    /\ self_ \in [Hosts -> InfoRecords]
    /\ \A h \in Hosts :
         /\ self_[h].host = h
         /\ phase[h] # "created" => self_[h].nics
         /\ phase[h] = "serving" => IsValid(self_[h])

\* An info that has left its host is older than its process, or that of a host that serves.
Final(k) ==
    /\ k \in InfoRecords /\ IsValid(k) /\ k.inc <= self_[k.host].inc
    /\ k.inc = self_[k.host].inc => k = self_[k.host] /\ phase[k.host] = "serving"

\* What calls carry and caches hold is final.
RpcsOK == rpcs \subseteq RpcRecords /\ \A r \in rpcs : Final(r.info)

CacheOK ==
    /\ peer_hosts_ \in [Hosts -> [Hosts -> InfoRecords \cup {None}]]
    /\ \A h, p \in Hosts : peer_hosts_[h][p] # None => Final(peer_hosts_[h][p])

InfoInv == SelfOK /\ RpcsOK /\ CacheOK

(* The invariant implies the property: whatever is shared is in a call or in a cache. *)
LEMMA InvGivesFinal == InfoInv => SharedIsFinal
BY DEF InfoInv, RpcsOK, CacheOK, Final, SharedIsFinal, Shared

(* At first nothing has been shared. *)
LEMMA InitInfo == ControlInit => InfoInv
BY DEF ControlInit, InfoInv, SelfOK, RpcsOK, CacheOK, NewInfo, InfoRecords, Ports, IsValid, None

(* A step of another host, or one that only completes a host that does not serve,
   leaves every info that is already shared final. *)
LEMMA FinalStays ==
    ASSUME SelfOK, SelfOK', NEW k, Final(k),
           \A h \in Hosts : \/ self_'[h] = self_[h] /\ (phase[h] = "serving" => phase'[h] = "serving")
                            \/ phase[h] # "serving" /\ self_'[h].inc = self_[h].inc
                            \/ self_'[h].inc = self_[h].inc + 1
    PROVE  Final(k)'
<1>1. k \in InfoRecords /\ k.host \in Hosts /\ k.inc \in Nat
  BY Zenon DEF Final, InfoRecords
<1>2. self_[k.host].inc \in Nat /\ self_'[k.host].inc \in Nat
  BY Zenon, <1>1 DEF SelfOK, InfoRecords
<1> QED BY <1>1, <1>2 DEF Final, IsValid

(* A host that serves shares a final info. *)
LEMMA OwnInfoIsFinal ==
    ASSUME SelfOK, NEW h \in Hosts, phase[h] = "serving"
    PROVE  Final(self_[h])
BY DEF SelfOK, Final, InfoRecords

(* Every step keeps what is shared final: a host writes self_ only before it serves,
   and a replaced process has a new number. *)
LEMMA InfoStep == InfoInv /\ [ControlNext]_controlVars => InfoInv'
<1> SUFFICES ASSUME InfoInv, [ControlNext]_controlVars PROVE InfoInv'
  OBVIOUS
<1> USE DEF InfoInv
<1>1. ASSUME NEW h \in Hosts, CreateEngine(h) PROVE InfoInv'
  <2>1. SelfOK'
    <3> DEFINE mine == [self_[h] EXCEPT !.nics = TRUE]
    <3>1. mine \in InfoRecords /\ mine.host = h /\ mine.nics
      <4>1. self_[h] \in InfoRecords /\ self_[h].host = h
        BY Zenon DEF SelfOK
      <4>2. mine \in InfoRecords
        BY Zenon, <4>1 DEF InfoRecords
      <4>3. mine.host = h /\ mine.nics = TRUE
        BY Zenon, <4>1 DEF InfoRecords
      <4> QED BY Zenon, <4>2, <4>3
    <3>2. /\ phase' = [phase EXCEPT ![h] = "populated"] /\ self_' = [self_ EXCEPT ![h] = mine]
          /\ phase[h] = "created"
      BY Zenon, <1>1 DEF CreateEngine
    <3> HIDE DEF mine
    <3>3. self_' \in [Hosts -> InfoRecords] /\ self_'[h] = mine /\ phase'[h] = "populated"
      BY Zenon, <3>1, <3>2 DEF SelfOK
    <3>4. \A g \in Hosts \ {h} : self_'[g] = self_[g] /\ phase'[g] = phase[g]
      BY Zenon, <3>2 DEF SelfOK
    <3>5. phase' \in [Hosts -> {"created", "populated", "listening", "serving"}]
      BY Zenon, <3>2 DEF SelfOK
    <3>6. \A g \in Hosts : /\ self_'[g].host = g /\ (phase'[g] # "created" => self_'[g].nics)
                           /\ phase'[g] = "serving" => IsValid(self_'[g])
      BY <3>1, <3>3, <3>4 DEF SelfOK
    <3> QED BY Zenon, <3>3, <3>5, <3>6 DEF SelfOK, IsValid
  <2>2. \A g \in Hosts : \/ self_'[g] = self_[g] /\ (phase[g] = "serving" => phase'[g] = "serving")
                         \/ phase[g] # "serving" /\ self_'[g].inc = self_[g].inc
    BY <1>1 DEF CreateEngine, SelfOK, InfoRecords
  <2>3. \A k : Final(k) => Final(k)'
    BY Zenon, <2>1, <2>2, FinalStays
  <2>4. rpcs' = rpcs /\ peer_hosts_' = peer_hosts_
    BY Zenon, <1>1 DEF CreateEngine
  <2> QED BY Zenon, <2>1, <2>3, <2>4 DEF RpcsOK, CacheOK
<1>2. ASSUME NEW h \in Hosts, CreateServer(h) PROVE InfoInv'
  <2>1. SelfOK'
    BY ZenonT(60), <1>2 DEF CreateServer, SelfOK, InfoRecords, IsValid
  <2>2. \A g \in Hosts : self_'[g] = self_[g] /\ (phase[g] = "serving" => phase'[g] = "serving")
    BY Zenon, <1>2 DEF CreateServer, SelfOK
  <2>3. \A k : Final(k) => Final(k)'
    BY Zenon, <2>1, <2>2, FinalStays
  <2>4. rpcs' = rpcs /\ peer_hosts_' = peer_hosts_
    BY Zenon, <1>2 DEF CreateServer
  <2> QED BY Zenon, <2>1, <2>3, <2>4 DEF RpcsOK, CacheOK
<1>3. ASSUME NEW h \in Hosts, NotifyServing(h) PROVE InfoInv'
  <2>1. SelfOK'
    BY <1>3 DEF NotifyServing, SelfOK, InfoRecords, IsValid, Ports
  <2>2. \A g \in Hosts : \/ self_'[g] = self_[g] /\ (phase[g] = "serving" => phase'[g] = "serving")
                         \/ phase[g] # "serving" /\ self_'[g].inc = self_[g].inc
    BY <1>3 DEF NotifyServing, SelfOK, InfoRecords
  <2>3. \A k : Final(k) => Final(k)'
    BY Zenon, <2>1, <2>2, FinalStays
  <2>4. rpcs' = rpcs /\ peer_hosts_' = peer_hosts_
    BY Zenon, <1>3 DEF NotifyServing
  <2> QED BY Zenon, <2>1, <2>3, <2>4 DEF RpcsOK, CacheOK
<1>4. ASSUME NEW h \in Hosts, Restart(h) PROVE InfoInv'
  <2>1. SelfOK'
    BY <1>4 DEF Restart, SelfOK, InfoRecords, IsValid, NewInfo, Ports
  <2>2. \A g \in Hosts : \/ self_'[g] = self_[g] /\ (phase[g] = "serving" => phase'[g] = "serving")
                         \/ self_'[g].inc = self_[g].inc + 1
    BY ZenonT(60), <1>4 DEF Restart, SelfOK, InfoRecords, NewInfo
  <2>3. \A k : Final(k) => Final(k)'
    BY Zenon, <2>1, <2>2, FinalStays
  <2>4. \A r \in rpcs' : r \in RpcRecords /\ \E q \in rpcs : r.info = q.info
    BY ZenonT(60), <1>4 DEF Restart, RpcsOK, RpcRecords
  <2>5. RpcsOK'
    BY Zenon, <2>3, <2>4 DEF RpcsOK
  <2>6. CacheOK'
    BY Zenon, <1>4, <2>3 DEF Restart, CacheOK
  <2> QED BY Zenon, <2>1, <2>5, <2>6
<1>5. ASSUME NEW h \in Hosts, NEW p \in Hosts, GetPeerHostInfo(h, p) PROVE InfoInv'
  <2>1. self_' = self_ /\ phase' = phase /\ peer_hosts_' = peer_hosts_
    BY Zenon, <1>5 DEF GetPeerHostInfo
  <2>2. rpcs' \subseteq rpcs \cup {[from |-> h, to |-> p, at |-> "sent", info |-> self_[h], awaited |-> TRUE]}
    BY Zenon, <1>5 DEF GetPeerHostInfo
  <2>3. Final(self_[h]) /\ self_[h] \in InfoRecords
    BY Zenon, <1>5, OwnInfoIsFinal DEF GetPeerHostInfo, Final
  <2>4. \A k : Final(k) <=> Final(k)'
    BY Zenon, <2>1 DEF Final
  <2>5. RpcsOK'
    <3> DEFINE mine == [from |-> h, to |-> p, at |-> "sent", info |-> self_[h], awaited |-> TRUE]
    <3>1. mine \in RpcRecords /\ mine.info = self_[h]
      BY Zenon, <2>3 DEF RpcRecords
    <3> HIDE DEF mine
    <3>2. rpcs' \subseteq rpcs \cup {mine}
      BY Zenon, <2>2 DEF mine
    <3> QED BY Zenon, <2>3, <2>4, <3>1, <3>2 DEF RpcsOK
  <2>6. CacheOK' /\ SelfOK'
    BY Zenon, <2>1, <2>4 DEF SelfOK, CacheOK, IsValid
  <2> QED BY Zenon, <2>5, <2>6
<1>6. ASSUME NEW r \in rpcs, handleHostInfoExchange(r) PROVE InfoInv'
  <2>1. self_' = self_ /\ phase' = phase
    BY Zenon, <1>6 DEF handleHostInfoExchange
  <2>2. r \in RpcRecords /\ Final(r.info) /\ r.info \in InfoRecords /\ r.to \in Hosts /\ r.info.host \in Hosts
    BY Zenon DEF RpcsOK, RpcRecords, InfoRecords
  <2>3. \A k : Final(k) <=> Final(k)'
    BY Zenon, <2>1 DEF Final
  <2>4. CASE phase[r.to] # "serving"
    BY SMTT(60), <1>6, <2>1, <2>2, <2>3, <2>4 DEF handleHostInfoExchange, SelfOK, RpcsOK, CacheOK, RpcRecords
  <2>5. CASE phase[r.to] = "serving"
    <3>1. Final(self_[r.to]) /\ self_[r.to] \in InfoRecords
      BY Zenon, <2>2, <2>5, OwnInfoIsFinal DEF Final
    <3>2. rpcs' \subseteq (rpcs \ {r}) \cup {[r EXCEPT !.at = "answered", !.info = self_[r.to]],
                                             [r EXCEPT !.at = "refused"]}
      BY <1>6, <2>5 DEF handleHostInfoExchange, SelfAsRead
    <3>a. \A x \in {[r EXCEPT !.at = "answered", !.info = self_[r.to]], [r EXCEPT !.at = "refused"]} :
             x \in RpcRecords /\ x.info \in {self_[r.to], r.info}
      BY ZenonT(60), <2>2, <3>1 DEF RpcRecords
    <3>3. RpcsOK'
      BY Zenon, <2>2, <2>3, <3>1, <3>2, <3>a DEF RpcsOK
    <3>4. peer_hosts_' = [peer_hosts_ EXCEPT ![r.to][r.info.host] = r.info]
      BY Zenon, <1>6, <2>5 DEF handleHostInfoExchange
    <3>5. CacheOK'
      BY Zenon, <2>2, <2>3, <3>4 DEF CacheOK
    <3> QED BY Zenon, <2>1, <3>3, <3>5 DEF SelfOK
  <2> QED BY Zenon, <2>4, <2>5
<1>7. ASSUME NEW h \in Hosts, NEW r \in rpcs, ReceiveHostInfo(h, r) PROVE InfoInv'
  <2>1. self_' = self_ /\ phase' = phase /\ rpcs' \subseteq rpcs
    BY Zenon, <1>7 DEF ReceiveHostInfo
  <2>2. Final(r.info) /\ r.info \in InfoRecords /\ r.to \in Hosts
    BY Zenon DEF RpcsOK, RpcRecords
  <2>3. peer_hosts_' = [peer_hosts_ EXCEPT ![h][r.to] = r.info]
    BY Zenon, <1>7 DEF ReceiveHostInfo
  <2>4. \A k : Final(k) <=> Final(k)'
    BY Zenon, <2>1 DEF Final
  <2>5. CacheOK'
    BY ZenonT(60), <2>2, <2>3, <2>4 DEF CacheOK
  <2> QED BY Zenon, <2>1, <2>4, <2>5 DEF SelfOK, RpcsOK
<1>8. ASSUME NEW h \in Hosts, RpcFails(h) PROVE InfoInv'
  <2>1. self_' = self_ /\ phase' = phase /\ peer_hosts_' = peer_hosts_
    BY Zenon, <1>8 DEF RpcFails
  <2>2. \A r \in rpcs' : r \in RpcRecords /\ \E q \in rpcs : r.info = q.info
    BY ZenonT(60), <1>8 DEF RpcFails, RpcsOK, RpcRecords
  <2> QED BY <2>1, <2>2 DEF SelfOK, RpcsOK, CacheOK, Final
<1>9. ASSUME NEW h \in Hosts, UseHostInfo(h) PROVE InfoInv'
  BY ZenonT(60), <1>9 DEF UseHostInfo, SelfOK, RpcsOK, CacheOK, Final
<1>10. CASE UNCHANGED controlVars
  BY ZenonT(60), <1>10 DEF controlVars, SelfOK, RpcsOK, CacheOK, Final
<1> QED BY Zenon, <1>1, <1>2, <1>3, <1>4, <1>5, <1>6, <1>7, <1>8, <1>9, <1>10 DEF ControlNext

(* Whatever a host has told anyone about itself is complete, and is what it still
   is unless its process was replaced: Start() notifies serving_ after its last
   write to self_, and handleAllRequest refuses every call before. *)
THEOREM SharedInfoIsFinal == ControlSpec => []SharedIsFinal
BY InitInfo, InfoStep, InvGivesFinal, PTL DEF ControlSpec

-----------------------------------------------------------------------------
\* A call that is waited for is its caller's only one, and was made when the peer was
\* not yet a later process than the one that answers.
Awaited(r) ==
    /\ caller[r.from].at = "waiting" /\ caller[r.from].since \in Nat
    /\ caller[r.from].since <= self_[r.to].inc
    /\ r.at = "answered" => caller[r.from].since <= r.info.inc
AwaitedOK == \A r \in rpcs : r.awaited => Awaited(r)
OneAwaited == \A r, q \in rpcs : r.awaited /\ q.awaited /\ r.from = q.from => r = q
CallerOK == DOMAIN caller = Hosts
FreshInv == CallerOK /\ AwaitedOK /\ OneAwaited /\ FetchedIsFresh

(* At first nobody waits for a call. *)
LEMMA InitFresh == ControlInit => FreshInv
BY DEF ControlInit, FreshInv, CallerOK, AwaitedOK, OneAwaited, FetchedIsFresh, Idle

(* Host h starts another call or gives one up: nothing it waits for is left over. *)
LEMMA CallerIdle ==
    ASSUME InfoInv, FreshInv, NEW h \in Hosts, caller[h].at # "waiting"
    PROVE  \A r \in rpcs : r.awaited => r.from # h
BY Zenon DEF FreshInv, AwaitedOK, Awaited

(* Every step keeps awaited calls recent: only ReceiveHostInfo turns one into an answer,
   and a peer's number never decreases. *)
LEMMA FreshStep == InfoInv /\ InfoInv' /\ FreshInv /\ [ControlNext]_controlVars => FreshInv'
<1> SUFFICES ASSUME InfoInv, InfoInv', FreshInv, [ControlNext]_controlVars PROVE FreshInv'
  OBVIOUS
<1> USE DEF FreshInv
<1>a. \A r \in rpcs : /\ r \in RpcRecords /\ r.from \in Hosts /\ r.to \in Hosts
                     /\ r.info.inc \in Nat /\ self_[r.to].inc \in Nat
  BY ZenonT(60) DEF InfoInv, RpcsOK, SelfOK, RpcRecords, InfoRecords
<1>b. ASSUME UNCHANGED <<rpcs, caller>>, \A h \in Hosts : self_'[h].inc = self_[h].inc PROVE FreshInv'
  BY Zenon, <1>a, <1>b DEF CallerOK, AwaitedOK, Awaited, OneAwaited, FetchedIsFresh
<1>1. ASSUME NEW h \in Hosts, CreateEngine(h) \/ CreateServer(h) \/ NotifyServing(h) PROVE FreshInv'
  <2>1. \A g \in Hosts : self_'[g].inc = self_[g].inc
    BY <1>1 DEF CreateEngine, CreateServer, NotifyServing, InfoInv, SelfOK, InfoRecords
  <2> QED BY Zenon, <1>1, <1>b, <2>1 DEF CreateEngine, CreateServer, NotifyServing
<1>2. ASSUME NEW h \in Hosts, Restart(h) PROVE FreshInv'
  <2>1. \A g \in Hosts : self_'[g].inc \in Nat /\ self_[g].inc <= self_'[g].inc
    BY <1>2 DEF Restart, InfoInv, SelfOK, InfoRecords, NewInfo
  <2>2. \A r \in rpcs' : r.awaited => r \in rpcs /\ r.from # h
    BY Zenon, <1>2, <1>a DEF Restart, RpcRecords
  <2>3. CallerOK' /\ \A g \in Hosts \ {h} : caller'[g] = caller[g]
    BY Zenon, <1>2 DEF Restart, CallerOK
  <2>4. caller'[h].at = "idle"
    BY Zenon, <1>2 DEF Restart, CallerOK, Idle
  <2>5. AwaitedOK'
    BY <1>a, <2>1, <2>2, <2>3 DEF AwaitedOK, Awaited
  <2>6. OneAwaited'
    BY Zenon, <2>2 DEF OneAwaited
  <2>7. FetchedIsFresh'
    BY Zenon, <2>3, <2>4 DEF FetchedIsFresh
  <2> QED BY Zenon, <2>3, <2>5, <2>6, <2>7
<1>3. ASSUME NEW h \in Hosts, NEW p \in Hosts, GetPeerHostInfo(h, p) PROVE FreshInv'
  <2> DEFINE mine == [from |-> h, to |-> p, at |-> "sent", info |-> self_[h], awaited |-> TRUE]
  <2>1. caller[h].at # "waiting" /\ self_' = self_
    BY Zenon, <1>3 DEF GetPeerHostInfo
  <2>2. \A r \in rpcs : r.awaited => r.from # h
    BY Zenon, <2>1, CallerIdle
  <2>3. CallerOK' /\ \A g \in Hosts \ {h} : caller'[g] = caller[g]
    BY Zenon, <1>3 DEF GetPeerHostInfo, CallerOK
  <2>4. FetchedIsFresh'
    BY <1>3, <2>3 DEF GetPeerHostInfo, FetchedIsFresh, CallerOK
  <2>5. CASE rpcs' = rpcs
    BY ZenonT(60), <1>a, <2>1, <2>2, <2>3, <2>4, <2>5 DEF AwaitedOK, Awaited, OneAwaited
  <2>6. CASE rpcs' # rpcs
    <3>1. rpcs' = rpcs \cup {mine}
      BY Zenon, <1>3, <2>6 DEF GetPeerHostInfo
    <3>2. caller'[h].at = "waiting" /\ caller'[h].since = self_[p].inc
      BY <1>3, <2>6 DEF GetPeerHostInfo, CallerOK
    <3>3. self_[p].inc \in Nat
      BY Zenon DEF InfoInv, SelfOK, InfoRecords
    <3>4. mine.from = h /\ mine.to = p /\ mine.at = "sent"
      OBVIOUS
    <3> HIDE DEF mine
    <3>5. AwaitedOK'
      BY <1>a, <2>1, <2>2, <2>3, <3>1, <3>2, <3>3, <3>4 DEF AwaitedOK, Awaited
    <3>6. OneAwaited'
      BY Zenon, <2>2, <3>1, <3>4 DEF OneAwaited
    <3> QED BY Zenon, <2>3, <2>4, <3>5, <3>6
  <2> QED BY Zenon, <2>5, <2>6
<1>4. ASSUME NEW r \in rpcs, handleHostInfoExchange(r) PROVE FreshInv'
  <2>1. self_' = self_ /\ caller' = caller /\ r.at = "sent"
    BY Zenon, <1>4 DEF handleHostInfoExchange
  <2>2. \A x \in rpcs' : \/ x \in rpcs /\ x # r
                        \/ /\ x.from = r.from /\ x.to = r.to /\ x.awaited = r.awaited
                           /\ x.at = "answered" => x.info = self_[r.to]
    <3> DEFINE refused == [r EXCEPT !.at = "refused"]
               answer == [r EXCEPT !.at = "answered", !.info = self_[r.to]]
    <3>1. rpcs' \subseteq (rpcs \ {r}) \cup {refused, answer}
      <4>1. CASE phase[r.to] # "serving"
        BY Zenon, <1>4, <4>1 DEF handleHostInfoExchange
      <4>2. CASE phase[r.to] = "serving"
        BY <1>4, <4>2 DEF handleHostInfoExchange, SelfAsRead
      <4> QED BY Zenon, <4>1, <4>2
    <3>2. /\ refused.from = r.from /\ refused.to = r.to /\ refused.awaited = r.awaited
          /\ refused.at = "refused"
      BY Zenon, <1>a DEF RpcRecords
    <3>3. /\ answer.from = r.from /\ answer.to = r.to /\ answer.awaited = r.awaited
          /\ answer.info = self_[r.to]
      BY Zenon, <1>a DEF RpcRecords
    <3> HIDE DEF refused, answer
    <3> QED BY Zenon, <3>1, <3>2, <3>3
  <2>3. \A x, y \in rpcs' : x \notin rpcs \ {r} /\ y \notin rpcs \ {r} => x = y
    BY Zenon, <1>4 DEF handleHostInfoExchange, SelfAsRead
  <2>4. AwaitedOK'
    BY Zenon, <1>a, <2>1, <2>2 DEF AwaitedOK, Awaited
  <2>5. OneAwaited'
    <3> SUFFICES ASSUME NEW x \in rpcs', NEW y \in rpcs', x.awaited, y.awaited, x.from = y.from
                 PROVE  x = y
      BY Zenon DEF OneAwaited
    <3>1. CASE x \in rpcs \ {r} /\ y \in rpcs \ {r}
      BY Zenon, <3>1 DEF OneAwaited
    <3>2. CASE x \in rpcs \ {r} /\ y \notin rpcs \ {r}
      BY Zenon, <2>2, <3>2 DEF OneAwaited
    <3>3. CASE x \notin rpcs \ {r} /\ y \in rpcs \ {r}
      BY Zenon, <2>2, <3>3 DEF OneAwaited
    <3> QED BY Zenon, <2>3, <3>1, <3>2, <3>3
  <2> QED BY Zenon, <2>1, <2>4, <2>5 DEF CallerOK, FetchedIsFresh
<1>5. ASSUME NEW h \in Hosts, NEW r \in rpcs, ReceiveHostInfo(h, r) PROVE FreshInv'
  <2>1. /\ self_' = self_ /\ rpcs' = rpcs \ {r} /\ r.awaited /\ r.from = h /\ r.at = "answered"
        /\ caller' = [caller EXCEPT ![h] =
                        [at |-> "fetched", answer |-> r.info, since |-> caller[h].since]]
    BY Zenon, <1>5 DEF ReceiveHostInfo
  <2>2. \A x \in rpcs' : x.awaited => x \in rpcs /\ x.from # h
    BY Zenon, <2>1 DEF OneAwaited
  <2>3. /\ CallerOK' /\ \A g \in Hosts \ {h} : caller'[g] = caller[g]
        /\ caller'[h].answer = r.info /\ caller'[h].since = caller[h].since
    BY Zenon, <2>1 DEF CallerOK
  <2>4. caller[h].since \in Nat /\ caller[h].since <= r.info.inc
    BY Zenon, <2>1 DEF AwaitedOK, Awaited
  <2>5. AwaitedOK' /\ OneAwaited'
    BY <1>a, <2>1, <2>2, <2>3 DEF AwaitedOK, Awaited, OneAwaited
  <2>6. FetchedIsFresh'
    BY Zenon, <1>a, <2>3, <2>4 DEF FetchedIsFresh
  <2> QED BY Zenon, <2>3, <2>5, <2>6
<1>6. ASSUME NEW h \in Hosts, RpcFails(h) PROVE FreshInv'
  <2>1. \A r \in rpcs' : r.awaited => r \in rpcs /\ r.from # h
    BY Zenon, <1>6, <1>a DEF RpcFails, RpcRecords
  <2>2. /\ self_' = self_ /\ CallerOK' /\ caller'[h].at = "idle"
        /\ \A g \in Hosts \ {h} : caller'[g] = caller[g]
    BY Zenon, <1>6 DEF RpcFails, CallerOK, Idle
  <2>3. AwaitedOK' /\ OneAwaited'
    BY Zenon, <1>a, <2>1, <2>2 DEF AwaitedOK, Awaited, OneAwaited
  <2> QED BY Zenon, <2>2, <2>3 DEF FetchedIsFresh
<1>7. ASSUME NEW h \in Hosts, UseHostInfo(h) PROVE FreshInv'
  <2>1. \A r \in rpcs : r.awaited => r.from # h
    BY Zenon, <1>7, CallerIdle DEF UseHostInfo
  <2>2. /\ self_' = self_ /\ rpcs' = rpcs /\ CallerOK' /\ caller'[h].at = "idle"
        /\ \A g \in Hosts \ {h} : caller'[g] = caller[g]
    BY Zenon, <1>7 DEF UseHostInfo, CallerOK, Idle
  <2> QED BY <1>a, <2>1, <2>2 DEF AwaitedOK, Awaited, OneAwaited, FetchedIsFresh
<1>8. CASE UNCHANGED controlVars
  BY Zenon, <1>8, <1>b DEF controlVars
<1> QED BY Zenon, <1>1, <1>2, <1>3, <1>4, <1>5, <1>6, <1>7, <1>8 DEF ControlNext

(* The slow path of GetPeerHostInfo answers with the peer's process of the time of
   the call or a later one, whatever calls fail, are lost or are handled late. *)
THEOREM FetchedInfoIsFresh == ControlSpec => []FetchedIsFresh
<1>1. InfoInv /\ FreshInv /\ [ControlNext]_controlVars => InfoInv' /\ FreshInv'
  BY Zenon, InfoStep, FreshStep
<1>2. ControlInit => InfoInv /\ FreshInv
  BY Zenon, InitInfo, InitFresh
<1>3. FreshInv => FetchedIsFresh
  BY Zenon DEF FreshInv
<1> QED BY <1>1, <1>2, <1>3, PTL DEF ControlSpec

-----------------------------------------------------------------------------
\* Connecting queue pairs.

RdmaSpec == RdmaInit /\ [][RdmaNext]_rdmaVars

\* The values of the state.
PsnSet == (RdmaHosts \X Nat) \cup {NoPsn}
QPairs == [qpn : Nat, state : {"init", "rts"}, dest : Nat, rq : PsnSet, sq : PsnSet]
Reqs == [from : RdmaHosts, to : RdmaHosts, qpn : Nat, psn : PsnSet,
         at : {"sent", "running", "answered", "refused"}, resp : [qpn : Nat, psn : PsnSet]]
Steady == [at : {"attempt", "done"}, peer : RdmaHosts, i : Nat, conns : SUBSET Nat]
Making == [at : {"keys", "waiting"}, peer : RdmaHosts, i : Nat, conns : SUBSET Nat, qpn : Nat, psn : PsnSet]

\* An attempt is under way, and the connections made so far.
Busy(m) == m.at \in {"keys", "waiting"}
ConnsOf(m) == IF m.at = "idle" THEN {} ELSE m.conns

\* What a main thread may be doing.
MainOK(m, h) ==
    /\ m = [at |-> "idle"] \/ m \in Steady \/ m \in Making
    /\ m.at # "idle" => m.peer # h

\* A host's queue pairs have numbers of their own that were given out, and the one that a
\* running attempt is making is there, in its first state.
HostOK(h) ==
    /\ nextQpn[h] \in Nat \ {0}
    /\ \A qp \in qpairs[h] : qp \in QPairs /\ qp.qpn < nextQpn[h]
    /\ \A a, b \in qpairs[h] : a.qpn = b.qpn => a = b
    /\ MainOK(main[h], h)
    /\ main[h].at \in {"attempt", "keys", "waiting"} => life[h] = "alive"
    /\ Busy(main[h]) =>
         /\ main[h].qpn \notin main[h].conns /\ main[h].psn = <<h, main[h].qpn>>
         /\ \E qp \in qpairs[h] : qp.qpn = main[h].qpn /\ qp.state = "init"
    /\ \A qp \in qpairs[h] : qp.state = "init" => Busy(main[h]) /\ qp.qpn = main[h].qpn

\* Host p has a queue pair connected so, which is not one its own Connect made.
PeerHas(p, n, d, rq, sq) ==
    life[p] # "destroyed" =>
        /\ n \notin ConnsOf(main[p])
        /\ [qpn |-> n, state |-> "rts", dest |-> d, rq |-> rq, sq |-> sq] \in qpairs[p]

\* The answer to a call that is waited for names a queue pair of the peer connected back to
\* the caller's, and no connection goes there yet.
AnsweredOK(r) ==
    /\ IsReplyTo(r, r.from)
    /\ r.resp.qpn < nextQpn[r.to]
    /\ PeerHas(r.to, r.resp.qpn, r.qpn, r.psn, r.resp.psn)
    /\ \A mine \in qpairs[r.from] : mine.qpn \in main[r.from].conns => mine.dest # r.resp.qpn

\* A call carries the number of the attempt that made it, and a handler that runs has the
\* lock of a live manager.
ReqOK(r) ==
    /\ r \in Reqs /\ r.from # r.to
    /\ r.qpn < nextQpn[r.from] /\ r.psn = <<r.from, r.qpn>>
    /\ Busy(main[r.from]) /\ r.qpn = main[r.from].qpn =>
         main[r.from].at = "waiting" /\ r.to = main[r.from].peer
    /\ r.at = "running" => handlerMu[r.to] = "held" /\ life[r.to] = "alive"
    /\ r.at = "answered" => AnsweredOK(r)

\* Calls differ in the attempt that made them, and one handler runs at a time.
Apart(R) ==
    \A r, s \in R :
        /\ r.from = s.from /\ r.qpn = s.qpn => r = s
        /\ r.at = "running" /\ s.at = "running" /\ r.to = s.to => r = s

ConnOK(h, mine) ==
    /\ mine.state = "rts" /\ mine.dest < nextQpn[main[h].peer]
    /\ PeerHas(main[h].peer, mine.dest, mine.qpn, mine.sq, mine.rq)

\* The connections a host has made are connected, each to another queue pair of its peer.
ConnsOK(h) ==
    main[h].at # "idle" /\ life[h] = "alive" =>
        /\ \A c \in main[h].conns : \E mine \in qpairs[h] : mine.qpn = c
        /\ \A mine \in qpairs[h] : mine.qpn \in main[h].conns => ConnOK(h, mine)
        /\ \A a, b \in qpairs[h] : a.qpn \in main[h].conns /\ b.qpn \in main[h].conns
           /\ a.dest = b.dest => a = b

\* The functions over the hosts are that.
Shapes ==
    /\ DOMAIN main = RdmaHosts /\ DOMAIN qpairs = RdmaHosts /\ DOMAIN nextQpn = RdmaHosts
    /\ DOMAIN life = RdmaHosts /\ DOMAIN handlerMu = RdmaHosts

\* The inductive invariant.
RdmaInv ==
    /\ Shapes
    /\ \A h \in RdmaHosts : HostOK(h)
    /\ \A h \in RdmaHosts : ConnsOK(h)
    /\ \A r \in requests : ReqOK(r)
    /\ Apart(requests)

\* What a step may do to the others' queue pairs: what a peer has, it keeps.
PeerKeeps(p) == \A n, d, rq, sq : PeerHas(p, n, d, rq, sq) => PeerHas(p, n, d, rq, sq)'
Grows ==
    \A p \in RdmaHosts : PeerKeeps(p) /\ nextQpn[p] \in Nat /\ nextQpn'[p] \in Nat /\ nextQpn[p] <= nextQpn'[p]

-----------------------------------------------------------------------------
\* A host whose own state does not change stays as it was.
LEMMA HostStays ==
    ASSUME NEW g \in RdmaHosts, HostOK(g), main'[g] = main[g], qpairs'[g] = qpairs[g],
           nextQpn'[g] = nextQpn[g], life'[g] = life[g]
    PROVE  HostOK(g)'
BY Zenon DEF HostOK

\* Its connections too, as its peer's queue pairs stay.
LEMMA ConnsStay ==
    ASSUME NEW g \in RdmaHosts, HostOK(g), ConnsOK(g), Grows, main'[g] = main[g], qpairs'[g] = qpairs[g],
           life'[g] = life[g]
    PROVE  ConnsOK(g)'
<1> SUFFICES ASSUME main[g].at # "idle", life[g] = "alive"
             PROVE  ConnsOK(g)'
  BY DEF ConnsOK
<1> DEFINE p == main[g].peer
<1>1. p \in RdmaHosts
  BY DEF HostOK, MainOK, Steady, Making
<1>2. ASSUME NEW mine \in qpairs'[g], mine.qpn \in main'[g].conns PROVE ConnOK(g, mine)'
  <2>1. ConnOK(g, mine) /\ mine \in QPairs
    BY Zenon, <1>2 DEF ConnsOK, HostOK
  <2>2. mine.dest \in Nat
    BY Zenon, <2>1 DEF QPairs
  <2>3. mine.dest < nextQpn'[p]
    BY <1>1, <2>1, <2>2 DEF ConnOK, Grows
  <2>4. PeerHas(p, mine.dest, mine.qpn, mine.sq, mine.rq)'
    BY Zenon, <1>1, <2>1 DEF ConnOK, Grows, PeerKeeps
  <2> QED BY Zenon, <2>1, <2>3, <2>4 DEF ConnOK
<1> QED BY Zenon, <1>2 DEF ConnsOK

\* A call that is neither answered nor started or finished by the step stays as it was.
LEMMA ReqStays ==
    ASSUME NEW r, ReqOK(r), Grows, main'[r.from] = main[r.from],
           \A mine \in qpairs'[r.from] : mine.qpn \in ConnsOf(main[r.from]) => mine \in qpairs[r.from],
           r.at = "running" => handlerMu'[r.to] = "held" /\ life'[r.to] = "alive"
    PROVE  ReqOK(r)'
<1>0. r \in Reqs /\ r.from \in RdmaHosts /\ r.to \in RdmaHosts /\ r.qpn \in Nat /\ r.resp.qpn \in Nat
  BY Zenon DEF ReqOK, Reqs
<1>1. r.qpn < nextQpn'[r.from]
  BY <1>0 DEF Grows, ReqOK
<1>2. ASSUME r.at = "answered" PROVE AnsweredOK(r)'
  <2>1. AnsweredOK(r)
    BY Zenon, <1>2 DEF ReqOK
  <2>2. r.resp.qpn < nextQpn'[r.to]
    BY <1>0, <2>1 DEF Grows, AnsweredOK
  <2>3. PeerHas(r.to, r.resp.qpn, r.qpn, r.psn, r.resp.psn)'
    BY Zenon, <1>0, <2>1 DEF Grows, AnsweredOK, PeerKeeps
  <2>4. main[r.from].at # "idle"
    BY Zenon, <2>1 DEF AnsweredOK, IsReplyTo
  <2>5. IsReplyTo(r, r.from)'
    BY Zenon, <2>1 DEF AnsweredOK, IsReplyTo
  <2>6. \A mine \in qpairs'[r.from] : mine.qpn \in main'[r.from].conns => mine.dest # r.resp.qpn
    BY Zenon, <2>1, <2>4 DEF AnsweredOK, ConnsOf
  <2> QED BY Zenon, <2>2, <2>3, <2>5, <2>6 DEF AnsweredOK
<1> QED BY Zenon, <1>0, <1>1, <1>2 DEF ReqOK

\* Queue pairs are looked up by their number, and no two have the same.
LEMMA QPairIsIt ==
    ASSUME NEW h \in RdmaHosts, HostOK(h), NEW qp \in qpairs[h]
    PROVE  QPair(h, qp.qpn) = qp
<1>1. \A o \in qpairs[h] : o.qpn = qp.qpn => o = qp
  BY Zenon DEF HostOK
<1> QED BY Zenon, <1>1 DEF QPair

\* A set of calls stays apart when one goes, and when one comes that is like none there.
LEMMA ApartLess ==
    ASSUME NEW R, NEW S, S \subseteq R, Apart(R)
    PROVE  Apart(S)
BY Zenon DEF Apart

LEMMA ApartMore ==
    ASSUME NEW R, NEW x, Apart(R), \A r \in R : ~(r.from = x.from /\ r.qpn = x.qpn),
           x.at = "running" => \A r \in R : ~(r.at = "running" /\ r.to = x.to)
    PROVE  Apart(R \cup {x})
<1> SUFFICES ASSUME NEW r \in R \cup {x}, NEW s \in R \cup {x}
             PROVE  /\ r.from = s.from /\ r.qpn = s.qpn => r = s
                    /\ r.at = "running" /\ s.at = "running" /\ r.to = s.to => r = s
  BY Zenon DEF Apart
<1>1. CASE r \in R /\ s \in R
  BY Zenon, <1>1 DEF Apart
<1>2. CASE r = x /\ s = x
  BY Zenon, <1>2
<1>3. CASE r = x /\ s \in R
  BY Zenon, <1>3
<1>4. CASE r \in R /\ s = x
  BY Zenon, <1>4
<1> QED BY Zenon, <1>1, <1>2, <1>3, <1>4

\* Connect() starts, starts another attempt or returns.
LEMMA TurnKeeps ==
    ASSUME RdmaInv, NEW h \in RdmaHosts, NEW m \in Steady, m.peer # h, life[h] = "alive",
           main[h].at \in {"idle", "attempt"}, m.conns = ConnsOf(main[h]),
           main[h].at = "attempt" => m.peer = main[h].peer,
           main' = [main EXCEPT ![h] = m], UNCHANGED <<life, handlerMu, qpairs, nextQpn, requests>>
    PROVE  RdmaInv'
<1>1. main'[h] = m /\ \A g \in RdmaHosts \ {h} : main'[g] = main[g]
  BY Zenon DEF RdmaInv, Shapes
<1>2. m.at \in {"attempt", "done"} /\ m.at # "idle" /\ ~Busy(m) /\ ~Busy(main[h])
  BY Zenon DEF Steady, Busy
<1>3. Shapes'
  BY Zenon DEF RdmaInv, Shapes
<1>4. ConnsOf(main'[h]) = ConnsOf(main[h])
  BY Zenon, <1>1, <1>2 DEF ConnsOf
<1>5. Grows
  <2> SUFFICES ASSUME NEW p \in RdmaHosts PROVE PeerKeeps(p) /\ nextQpn[p] \in Nat /\ nextQpn[p] <= nextQpn[p]
    BY Zenon DEF Grows
  <2>1. nextQpn[p] \in Nat /\ nextQpn[p] <= nextQpn[p]
    BY DEF RdmaInv, HostOK
  <2>2. ConnsOf(main'[p]) = ConnsOf(main[p])
    BY Zenon, <1>1, <1>4
  <2> QED BY Zenon, <2>1, <2>2 DEF PeerKeeps, PeerHas
<1>6. ASSUME NEW g \in RdmaHosts PROVE HostOK(g)'
  <2>1. HostOK(g)
    BY Zenon DEF RdmaInv
  <2>2. CASE g # h
    BY Zenon, <1>1, <2>1, <2>2, HostStays
  <2>3. CASE g = h
    <3>1. MainOK(main'[h], h)
      BY Zenon, <1>1 DEF MainOK
    <3> QED BY ZenonT(60), <1>1, <1>2, <2>1, <2>3, <3>1 DEF HostOK
  <2> QED BY Zenon, <2>2, <2>3
<1>7. ASSUME NEW g \in RdmaHosts PROVE ConnsOK(g)'
  <2>1. HostOK(g) /\ ConnsOK(g)
    BY Zenon DEF RdmaInv
  <2>2. CASE g # h
    BY Zenon, <1>1, <1>5, <2>1, <2>2, ConnsStay
  <2>3. CASE g = h /\ main[h].at = "idle"
    <3>1. main'[g].conns = {}
      BY Zenon, <1>1, <2>3 DEF ConnsOf
    <3> QED BY Zenon, <3>1 DEF ConnsOK
  <2>4. CASE g = h /\ main[h].at = "attempt"
    <3>1. main[h].at # "idle" /\ main'[h].conns = main[h].conns /\ main'[h].peer = main[h].peer
      BY Zenon, <1>1, <2>4 DEF ConnsOf
    <3>2. \A mine \in qpairs[h] : mine.qpn \in main[h].conns => ConnOK(h, mine)
      BY Zenon, <2>1, <2>4, <3>1 DEF ConnsOK
    <3>3. m.peer \in RdmaHosts
      BY Zenon DEF Steady
    <3>4. \A mine : ConnOK(h, mine) => ConnOK(h, mine)'
      BY Zenon, <1>1, <1>5, <3>1, <3>3 DEF ConnOK, Grows, PeerKeeps
    <3> QED BY <2>1, <2>4, <3>1, <3>2, <3>4 DEF ConnsOK
  <2> QED BY Zenon, <2>2, <2>3, <2>4
<1>8. ASSUME NEW r \in requests PROVE ReqOK(r)'
  <2>1. ReqOK(r)
    BY Zenon DEF RdmaInv
  <2>2. r.from \in RdmaHosts
    BY Zenon, <2>1 DEF ReqOK, Reqs
  <2>3. CASE r.from # h
    BY ZenonT(60), <1>1, <1>5, <2>1, <2>2, <2>3, ReqStays DEF ReqOK
  <2>4. CASE r.from = h
    <3>1. r.at # "answered"
      BY Zenon, <2>1, <2>4 DEF ReqOK, AnsweredOK, IsReplyTo
    <3> QED BY ZenonT(60), <1>1, <1>2, <2>1, <2>4, <3>1 DEF ReqOK
  <2> QED BY Zenon, <2>3, <2>4
<1>9. Apart(requests')
  BY Zenon DEF RdmaInv
<1> QED BY Zenon, <1>3, <1>6, <1>7, <1>8, <1>9 DEF RdmaInv, Apart

\* An attempt creates its queue pair.
LEMMA CreateKeeps ==
    ASSUME RdmaInv, NEW h \in RdmaHosts, CreateLocal(h)
    PROVE  RdmaInv'
<1> DEFINE m == [at |-> "keys", peer |-> main[h].peer, i |-> main[h].i,
                 conns |-> main[h].conns, qpn |-> nextQpn[h], psn |-> genPsn(h)]
           new == NewQPair(h)
<1>0. /\ main[h].at = "attempt" /\ UNCHANGED <<life, handlerMu, requests>>
      /\ main' = [main EXCEPT ![h] = m] /\ qpairs' = [qpairs EXCEPT ![h] = @ \cup {new}]
      /\ nextQpn' = [nextQpn EXCEPT ![h] = @ + 1]
  BY Zenon DEF CreateLocal
<1> HIDE DEF new
<1>1. /\ main'[h] = m /\ \A g \in RdmaHosts \ {h} : main'[g] = main[g]
      /\ qpairs'[h] = qpairs[h] \cup {new} /\ \A g \in RdmaHosts \ {h} : qpairs'[g] = qpairs[g]
      /\ nextQpn'[h] = nextQpn[h] + 1 /\ \A g \in RdmaHosts \ {h} : nextQpn'[g] = nextQpn[g]
  BY Zenon, <1>0 DEF RdmaInv, Shapes
<1>2. HostOK(h) /\ ConnsOK(h) /\ life[h] = "alive" /\ nextQpn[h] \in Nat
  BY Zenon, <1>0 DEF RdmaInv, HostOK
<1>3. Shapes'
  BY ZenonT(60), <1>0 DEF RdmaInv, Shapes
<1>4. main[h] \in Steady /\ main[h].peer # h /\ main[h].at # "idle"
  BY <1>0, <1>2 DEF HostOK, MainOK, Making
<1>5. new \in QPairs /\ new.qpn = nextQpn[h] /\ new.state = "init"
  BY Zenon, <1>2 DEF new, NewQPair, QPairs, PsnSet, NoQp
<1>6. m \in Making
  BY Zenon, <1>2, <1>4 DEF Making, Steady, genPsn, PsnSet
<1>7. m.at = "keys" /\ m.conns = main[h].conns /\ m.peer = main[h].peer /\ m.qpn = nextQpn[h]
      /\ m.psn = <<h, nextQpn[h]>>
  BY Zenon DEF genPsn
<1> HIDE DEF m
<1>8. \A qp \in qpairs[h] : qp.qpn \in Nat /\ qp.qpn < nextQpn[h] /\ qp.qpn # nextQpn[h]
      /\ qp.qpn < nextQpn[h] + 1
  BY <1>2 DEF HostOK, QPairs
<1>9. nextQpn[h] \notin main[h].conns
  BY Zenon, <1>2, <1>4, <1>8 DEF ConnsOK
<1>10. \A p \in RdmaHosts : ConnsOf(main'[p]) = ConnsOf(main[p]) /\ qpairs[p] \subseteq qpairs'[p]
  BY Zenon, <1>1, <1>4, <1>7 DEF ConnsOf
<1>11. Grows
  <2> SUFFICES ASSUME NEW p \in RdmaHosts
               PROVE  PeerKeeps(p) /\ nextQpn[p] \in Nat /\ nextQpn'[p] \in Nat /\ nextQpn[p] <= nextQpn'[p]
    BY ZenonT(60) DEF Grows
  <2>1. nextQpn[p] \in Nat /\ nextQpn'[p] \in Nat /\ nextQpn[p] <= nextQpn'[p]
    BY <1>1 DEF RdmaInv, HostOK
  <2>2. PeerKeeps(p)
    BY Zenon, <1>0, <1>10 DEF PeerKeeps, PeerHas
  <2> QED BY Zenon, <2>1, <2>2
<1>12. ASSUME NEW g \in RdmaHosts PROVE HostOK(g)'
  <2>1. HostOK(g)
    BY Zenon DEF RdmaInv
  <2>2. CASE g # h
    BY Zenon, <1>0, <1>1, <2>1, <2>2, HostStays
  <2>3. CASE g = h
    <3>1. MainOK(main'[h], h)
      BY Zenon, <1>1, <1>4, <1>6, <1>7 DEF MainOK
    <3>2. \A qp \in qpairs'[h] : qp \in QPairs /\ qp.qpn < nextQpn'[h]
      BY SMTT(60), <1>1, <1>2, <1>5, <1>8 DEF HostOK
    <3>3. \A a, b \in qpairs'[h] : a.qpn = b.qpn => a = b
      BY <1>1, <1>2, <1>5, <1>8 DEF HostOK
    <3>4. nextQpn'[h] \in Nat \ {0}
      BY <1>1, <1>2
    <3>5. \E qp \in qpairs'[h] : qp.qpn = main'[h].qpn /\ qp.state = "init"
      BY Zenon, <1>1, <1>5, <1>7
    <3>6. \A qp \in qpairs'[h] : qp.state = "init" => qp.qpn = main'[h].qpn
      BY ZenonT(60), <1>0, <1>1, <1>2, <1>5, <1>7 DEF HostOK, Busy
    <3>7. Busy(main'[h]) /\ life'[h] = "alive"
      BY Zenon, <1>0, <1>1, <1>2, <1>7 DEF Busy
    <3> QED BY ZenonT(60), <1>1, <1>7, <1>9, <2>3, <3>1, <3>2, <3>3, <3>4, <3>5, <3>6, <3>7 DEF HostOK
  <2> QED BY Zenon, <2>2, <2>3
<1>13. ASSUME NEW g \in RdmaHosts PROVE ConnsOK(g)'
  <2>1. HostOK(g) /\ ConnsOK(g)
    BY Zenon DEF RdmaInv
  <2>2. CASE g # h
    BY Zenon, <1>0, <1>1, <1>11, <2>1, <2>2, ConnsStay
  <2>3. CASE g = h
    <3>1. main'[h].conns = main[h].conns /\ main'[h].peer = main[h].peer
      BY Zenon, <1>1, <1>7
    <3>2. \A mine \in qpairs'[h] : mine.qpn \in main[h].conns => mine \in qpairs[h] /\ ConnOK(h, mine)
          /\ mine \in QPairs
      BY Zenon, <1>1, <1>2, <1>4, <1>5, <1>9 DEF ConnsOK, HostOK
    <3>3. main[h].peer \in RdmaHosts
      BY Zenon, <1>4 DEF Steady
    <3>4. ASSUME NEW mine \in qpairs'[h], mine.qpn \in main[h].conns PROVE ConnOK(h, mine)'
      <4>1. mine.dest < nextQpn'[main[h].peer]
        BY <1>11, <3>2, <3>3, <3>4 DEF ConnOK, Grows, QPairs
      <4> QED BY ZenonT(60), <1>11, <3>1, <3>2, <3>3, <3>4, <4>1 DEF ConnOK, Grows, PeerKeeps
    <3> QED BY ZenonT(60), <1>1, <1>2, <1>4, <2>3, <3>1, <3>2, <3>4 DEF ConnsOK
  <2> QED BY Zenon, <2>2, <2>3
<1>14. ASSUME NEW r \in requests PROVE ReqOK(r)'
  <2>1. ReqOK(r)
    BY Zenon DEF RdmaInv
  <2>2. r.from \in RdmaHosts /\ r.qpn \in Nat
    BY Zenon, <2>1 DEF ReqOK, Reqs
  <2>3. CASE r.from # h
    BY ZenonT(60), <1>0, <1>1, <1>11, <2>1, <2>2, <2>3, ReqStays DEF ReqOK
  <2>4. CASE r.from = h
    <3>1. r.at # "answered"
      BY Zenon, <1>0, <2>1, <2>4 DEF ReqOK, AnsweredOK, IsReplyTo
    <3>2. r.qpn < nextQpn'[h] /\ r.qpn # nextQpn[h]
      BY <1>1, <1>2, <2>1, <2>2, <2>4 DEF ReqOK
    <3> QED BY <1>0, <1>1, <1>7, <2>1, <2>4, <3>1, <3>2 DEF ReqOK
  <2> QED BY Zenon, <2>3, <2>4
<1> QED BY Zenon, <1>0, <1>3, <1>12, <1>13, <1>14 DEF RdmaInv, Apart

\* An attempt calls the peer.
LEMMA CallKeeps ==
    ASSUME RdmaInv, NEW h \in RdmaHosts, ConnectRdmaPeer(h)
    PROVE  RdmaInv'
<1> DEFINE m == [main[h] EXCEPT !.at = "waiting"]
<1>new. PICK new : new = [from |-> h, to |-> main[h].peer, qpn |-> main[h].qpn,
                          psn |-> main[h].psn, at |-> "sent", resp |-> NoResp]
  BY Zenon
<1>0. /\ main[h].at = "keys" /\ UNCHANGED <<life, handlerMu, qpairs, nextQpn>>
      /\ main' = [main EXCEPT ![h] = m] /\ requests' = requests \cup {new}
  BY Zenon, <1>new DEF ConnectRdmaPeer
<1>1. HostOK(h) /\ ConnsOK(h) /\ life[h] = "alive" /\ main[h] \in Making /\ main[h].peer # h
  BY <1>0 DEF RdmaInv, HostOK, MainOK, Steady
<1>2. m \in Making /\ m.at = "waiting" /\ m.peer = main[h].peer /\ m.conns = main[h].conns
      /\ m.qpn = main[h].qpn /\ m.psn = main[h].psn
  BY Zenon, <1>1 DEF Making
<1>3. main[h].psn = <<h, main[h].qpn>> /\ main[h].qpn \notin main[h].conns
      /\ \E qp \in qpairs[h] : qp.qpn = main[h].qpn /\ qp.state = "init"
  BY Zenon, <1>0, <1>1 DEF HostOK, Busy
<1>4. main[h].qpn < nextQpn[h] /\ main[h].peer \in RdmaHosts
  BY Zenon, <1>1, <1>3 DEF HostOK, Making
<1>5. /\ new \in Reqs /\ new.from = h /\ new.to = main[h].peer /\ new.qpn = main[h].qpn
      /\ new.psn = main[h].psn /\ new.at = "sent"
  BY Zenon, <1>1, <1>4, <1>new DEF Reqs, Making, NoResp, NoQp, PsnSet
<1> HIDE DEF m
<1>6. main'[h] = m /\ \A g \in RdmaHosts \ {h} : main'[g] = main[g]
  BY Zenon, <1>0 DEF RdmaInv, Shapes
<1>7. Shapes'
  BY Zenon, <1>0 DEF RdmaInv, Shapes
<1>8. \A p \in RdmaHosts : ConnsOf(main'[p]) = ConnsOf(main[p])
  BY <1>0, <1>2, <1>6 DEF ConnsOf
<1>9. Grows
  <2> SUFFICES ASSUME NEW p \in RdmaHosts PROVE PeerKeeps(p) /\ nextQpn[p] \in Nat /\ nextQpn[p] <= nextQpn[p]
    BY Zenon, <1>0 DEF Grows
  <2>1. nextQpn[p] \in Nat /\ nextQpn[p] <= nextQpn[p]
    BY DEF RdmaInv, HostOK
  <2> QED BY Zenon, <1>0, <1>8, <2>1 DEF PeerKeeps, PeerHas
<1>10. ASSUME NEW g \in RdmaHosts PROVE HostOK(g)'
  <2>1. HostOK(g)
    BY Zenon DEF RdmaInv
  <2>2. CASE g # h
    BY Zenon, <1>0, <1>6, <2>1, <2>2, HostStays
  <2>3. CASE g = h
    <3>1. MainOK(main'[h], h)
      BY Zenon, <1>1, <1>2, <1>6 DEF MainOK
    <3>2. Busy(main'[h]) /\ Busy(main[h])
      BY Zenon, <1>0, <1>2, <1>6 DEF Busy
    <3> QED BY ZenonT(60), <1>0, <1>1, <1>2, <1>3, <1>6, <2>3, <3>1, <3>2 DEF HostOK
  <2> QED BY Zenon, <2>2, <2>3
<1>11. ASSUME NEW g \in RdmaHosts PROVE ConnsOK(g)'
  <2>1. HostOK(g) /\ ConnsOK(g)
    BY Zenon DEF RdmaInv
  <2>2. CASE g # h
    BY Zenon, <1>0, <1>6, <1>9, <2>1, <2>2, ConnsStay
  <2>3. CASE g = h
    <3>1. main'[h].conns = main[h].conns /\ main'[h].peer = main[h].peer /\ main[h].at # "idle"
      BY Zenon, <1>0, <1>2, <1>6
    <3>2. \A mine : ConnOK(h, mine) => ConnOK(h, mine)'
      BY Zenon, <1>0, <1>4, <1>9, <3>1 DEF ConnOK, Grows, PeerKeeps
    <3>3. \A mine \in qpairs[h] : mine.qpn \in main[h].conns => ConnOK(h, mine)
      BY Zenon, <1>1, <3>1 DEF ConnsOK
    <3> QED BY <1>0, <1>1, <2>3, <3>1, <3>2, <3>3 DEF ConnsOK
  <2> QED BY Zenon, <2>2, <2>3
<1>12. ASSUME NEW r \in requests PROVE ReqOK(r)' /\ (r.from = h => r.qpn # main[h].qpn)
  <2>1. ReqOK(r)
    BY Zenon DEF RdmaInv
  <2>2. r.from \in RdmaHosts
    BY Zenon, <2>1 DEF ReqOK, Reqs
  <2>3. CASE r.from # h
    BY ZenonT(60), <1>0, <1>6, <1>9, <2>1, <2>2, <2>3, ReqStays DEF ReqOK
  <2>4. CASE r.from = h
    <3>1. r.at # "answered" /\ r.qpn # main[h].qpn
      BY Zenon, <1>0, <2>1, <2>4 DEF ReqOK, AnsweredOK, IsReplyTo, Busy
    <3> QED BY ZenonT(60), <1>0, <1>2, <1>6, <2>1, <2>4, <3>1 DEF ReqOK
  <2> QED BY Zenon, <2>3, <2>4
<1>13. ReqOK(new)'
  <2>1. new \in Reqs /\ new.from = h /\ new.from # new.to /\ new.at # "running" /\ new.at # "answered"
    BY Zenon, <1>1, <1>5
  <2>2. new.qpn < nextQpn'[h] /\ new.psn = <<h, new.qpn>>
    BY Zenon, <1>0, <1>3, <1>4, <1>5
  <2>3. main'[h].at = "waiting" /\ new.to = main'[h].peer
    BY Zenon, <1>2, <1>5, <1>6
  <2> QED BY Zenon, <2>1, <2>2, <2>3 DEF ReqOK
<1>14. Apart(requests')
  <2>1. new.from = h /\ new.qpn = main[h].qpn /\ new.at # "running"
    BY Zenon, <1>5
  <2>2. Apart(requests)
    BY Zenon DEF RdmaInv
  <2> QED BY Zenon, <1>0, <1>12, <2>1, <2>2, ApartMore
<1>15. \A r \in requests' : ReqOK(r)'
  BY Zenon, <1>0, <1>12, <1>13
<1> QED BY Zenon, <1>7, <1>10, <1>11, <1>14, <1>15 DEF RdmaInv

\* The end of an attempt: its queue pair is there in its first state, and the other calls
\* of the host are not waited for.
AtEnd(h, r) ==
    /\ HostOK(h) /\ ConnsOK(h) /\ ReqOK(r) /\ life[h] = "alive" /\ main[h] \in Making
    /\ main[h].at = "waiting" /\ r.qpn = main[h].qpn /\ main[h].peer # h /\ main[h].peer = r.to
    /\ QPair(h, r.qpn) \in qpairs[h] /\ QPair(h, r.qpn).qpn = r.qpn /\ QPair(h, r.qpn).state = "init"
    /\ r.qpn \notin main[h].conns
    /\ \A s \in requests \ {r} : s.from = h => s.at # "answered"

\* Whatever ends an attempt finds it so.
LEMMA AttemptEnds ==
    ASSUME RdmaInv, NEW h \in RdmaHosts, NEW r \in requests, IsReplyTo(r, h)
    PROVE  AtEnd(h, r)
<1>1. r.from = h /\ main[h].at = "waiting" /\ r.qpn = main[h].qpn /\ HostOK(h) /\ ConnsOK(h) /\ ReqOK(r)
  BY Zenon DEF IsReplyTo, RdmaInv
<1>2. life[h] = "alive" /\ main[h] \in Making /\ main[h].peer # h
  BY <1>1 DEF HostOK, MainOK, Steady
<1>3. Busy(main[h])
  BY Zenon, <1>1 DEF Busy
<1>4. PICK qp \in qpairs[h] : qp.qpn = main[h].qpn /\ qp.state = "init"
  BY Zenon, <1>1, <1>3 DEF HostOK
<1>5. QPair(h, r.qpn) = qp
  BY Zenon, <1>1, <1>4, QPairIsIt
<1>6. r.qpn \notin main[h].conns /\ main[h].peer = r.to
  BY Zenon, <1>1, <1>3 DEF HostOK, ReqOK
<1>7. ASSUME NEW s \in requests \ {r}, s.from = h, s.at = "answered" PROVE FALSE
  <2>1. AnsweredOK(s)
    BY Zenon, <1>7 DEF RdmaInv, ReqOK
  <2>2. s.qpn = r.qpn
    BY Zenon, <1>1, <1>7, <2>1 DEF AnsweredOK, IsReplyTo
  <2> QED BY Zenon, <1>1, <1>7, <2>2 DEF RdmaInv, Apart
<1> QED BY Zenon, <1>1, <1>2, <1>4, <1>5, <1>6, <1>7 DEF AtEnd

\* What is left of an attempt: its queue pair, connected as the answer says, or nothing.
Outcome(h, r, m, c) ==
    \/ c = {} /\ m.conns = main[h].conns
    \/ /\ r.at = "answered" /\ m.conns = main[h].conns \cup {r.qpn}
       /\ c = {ConnectQPair(QPair(h, r.qpn), r.resp.qpn, r.resp.psn, main[h].psn)}

\* An attempt ends: its queue pair is connected and counted, or destroyed.
LEMMA EndKeeps ==
    ASSUME RdmaInv, NEW h \in RdmaHosts, NEW r \in requests, IsReplyTo(r, h), NEW m \in Steady, NEW c,
           Outcome(h, r, m, c), m.at = "attempt", m.peer = main[h].peer,
           main' = [main EXCEPT ![h] = m],
           qpairs' = [qpairs EXCEPT ![h] = (@ \ {QPair(h, r.qpn)}) \cup c],
           requests' = requests \ {r} \/ (requests' = requests /\ r.at # "answered"),
           UNCHANGED <<life, handlerMu, nextQpn>>
    PROVE  RdmaInv'
<1>0. AtEnd(h, r)
  BY Zenon, AttemptEnds
<1>1. PICK qp \in qpairs[h] : qp = QPair(h, r.qpn)
  BY Zenon, <1>0 DEF AtEnd
<1>2. /\ main'[h] = m /\ \A g \in RdmaHosts \ {h} : main'[g] = main[g]
      /\ qpairs'[h] = (qpairs[h] \ {qp}) \cup c /\ \A g \in RdmaHosts \ {h} : qpairs'[g] = qpairs[g]
  BY Zenon, <1>1 DEF RdmaInv, Shapes
<1>3. /\ HostOK(h) /\ ConnsOK(h) /\ ReqOK(r) /\ life[h] = "alive" /\ main[h] \in Making
      /\ main[h].at = "waiting" /\ r.qpn = main[h].qpn /\ main[h].peer # h /\ main[h].peer = r.to
      /\ qp.qpn = r.qpn /\ qp.state = "init" /\ r.qpn \notin main[h].conns
      /\ \A s \in requests \ {r} : s.from = h => s.at # "answered"
  BY Zenon, <1>0, <1>1 DEF AtEnd
<1>4. r.to \in RdmaHosts /\ r.from = h /\ r.qpn < nextQpn[h] /\ r.resp.qpn \in Nat /\ r.resp.psn \in PsnSet
      /\ r.psn = main[h].psn /\ main[h].psn \in PsnSet /\ main[h].at # "idle"
  <2>1. r.from = h
    BY Zenon DEF IsReplyTo
  <2>2. r.psn = main[h].psn
    BY Zenon, <1>3, <2>1 DEF ReqOK, HostOK, Busy
  <2> QED BY Zenon, <1>3, <2>1, <2>2 DEF ReqOK, Reqs, Making
<1>5. \A x \in c : /\ x \in QPairs /\ x.qpn = r.qpn /\ x.state = "rts" /\ x.dest = r.resp.qpn
                   /\ x.rq = r.resp.psn /\ x.sq = r.psn /\ r.at = "answered"
  <2>1. qp \in QPairs
    BY Zenon, <1>3 DEF HostOK
  <2> DEFINE x == ConnectQPair(qp, r.resp.qpn, r.resp.psn, main[h].psn)
  <2>2. /\ x \in QPairs /\ x.qpn = qp.qpn /\ x.state = "rts" /\ x.dest = r.resp.qpn
        /\ x.rq = r.resp.psn /\ x.sq = main[h].psn
    BY Zenon, <1>4, <2>1 DEF ConnectQPair, QPairs
  <2>3. c = {} \/ (c = {x} /\ r.at = "answered")
    BY Zenon, <1>1 DEF Outcome
  <2> HIDE DEF x
  <2> QED BY ZenonT(60), <1>3, <1>4, <2>2, <2>3
<1>6. \A x, y \in c : x = y
  BY Zenon DEF Outcome
<1>7. \A o \in qpairs[h] \ {qp} : o \in QPairs /\ o.qpn # r.qpn /\ o.state # "init" /\ o.qpn < nextQpn[h]
  BY Zenon, <1>3 DEF HostOK
<1>8. m.conns \subseteq main[h].conns \cup {r.qpn} /\ main[h].conns \subseteq m.conns /\ m.at # "idle"
      /\ ~Busy(m)
  BY Zenon DEF Busy, Outcome
<1>9. Shapes'
  BY Zenon DEF RdmaInv, Shapes
<1>10. Grows
  <2> SUFFICES ASSUME NEW p \in RdmaHosts PROVE PeerKeeps(p) /\ nextQpn[p] \in Nat /\ nextQpn[p] <= nextQpn[p]
    BY ZenonT(60) DEF Grows
  <2>1. nextQpn[p] \in Nat /\ nextQpn[p] <= nextQpn[p]
    BY DEF RdmaInv, HostOK
  <2>2. CASE p # h
    BY Zenon, <1>2, <2>1, <2>2 DEF PeerKeeps, PeerHas
  <2>3. CASE p = h
    <3> SUFFICES ASSUME NEW n, NEW d, NEW rq, NEW sq, PeerHas(h, n, d, rq, sq)
                 PROVE  PeerHas(h, n, d, rq, sq)'
      BY Zenon, <2>1, <2>3 DEF PeerKeeps
    <3> DEFINE rec == [qpn |-> n, state |-> "rts", dest |-> d, rq |-> rq, sq |-> sq]
    <3>1. rec.state = "rts" /\ rec.qpn = n
      OBVIOUS
    <3>2. life[h] # "destroyed"
      BY Zenon, <1>3
    <3>3. n \notin main[h].conns /\ rec \in qpairs[h]
      BY Zenon, <1>4, <3>2 DEF PeerHas, ConnsOf
    <3>4. rec # qp
      BY Zenon, <1>3, <3>1
    <3>5. n # r.qpn /\ rec \in qpairs'[h]
      BY Zenon, <1>2, <1>7, <3>1, <3>3, <3>4
    <3>6. n \notin ConnsOf(main'[h])
      BY Zenon, <1>2, <1>8, <3>3, <3>5 DEF ConnsOf
    <3> QED BY Zenon, <3>5, <3>6 DEF PeerHas
  <2> QED BY Zenon, <2>2, <2>3
<1>11. ASSUME NEW g \in RdmaHosts PROVE HostOK(g)'
  <2>1. HostOK(g)
    BY Zenon DEF RdmaInv
  <2>2. CASE g # h
    BY Zenon, <1>2, <2>1, <2>2, HostStays
  <2>3. CASE g = h
    <3>1. MainOK(main'[h], h)
      BY Zenon, <1>2, <1>3 DEF MainOK
    <3>2. \A x \in qpairs'[h] : x \in QPairs /\ x.qpn < nextQpn'[h]
      BY ZenonT(60), <1>2, <1>4, <1>5, <1>7
    <3>3. \A x, y \in qpairs'[h] : x.qpn = y.qpn => x = y
      BY <1>2, <1>3, <1>5, <1>6, <1>7 DEF HostOK
    <3>4. \A x \in qpairs'[h] : x.state # "init"
      BY Zenon, <1>2, <1>5, <1>7
    <3>5. nextQpn'[h] \in Nat \ {0} /\ life'[h] = "alive"
      BY Zenon, <1>3 DEF HostOK
    <3> QED BY ZenonT(60), <1>2, <1>8, <2>3, <3>1, <3>2, <3>3, <3>4, <3>5 DEF HostOK
  <2> QED BY Zenon, <2>2, <2>3
<1>12. ASSUME NEW g \in RdmaHosts PROVE ConnsOK(g)'
  <2>1. HostOK(g) /\ ConnsOK(g)
    BY Zenon DEF RdmaInv
  <2>2. CASE g # h
    BY Zenon, <1>2, <1>10, <2>1, <2>2, ConnsStay
  <2>3. CASE g = h
    <3>1. \A o \in qpairs[h] \ {qp} : o.qpn \in m.conns => o.qpn \in main[h].conns
      BY Zenon, <1>7, <1>8
    <3>2. \A mine : ConnOK(h, mine) => ConnOK(h, mine)'
      BY ZenonT(60), <1>2, <1>3, <1>4, <1>10 DEF ConnOK, Grows, PeerKeeps
    <3>3. \A x \in c : ConnOK(h, x)'
      <4> SUFFICES ASSUME NEW x \in c PROVE ConnOK(h, x)'
        BY Zenon
      <4>1. AnsweredOK(r)
        BY Zenon, <1>3, <1>5 DEF ReqOK
      <4>2. PeerHas(r.to, x.dest, x.qpn, x.sq, x.rq)
        BY Zenon, <1>5, <4>1 DEF AnsweredOK
      <4>3. PeerHas(r.to, x.dest, x.qpn, x.sq, x.rq)'
        BY Zenon, <1>4, <1>10, <4>2 DEF Grows, PeerKeeps
      <4>4. x.dest < nextQpn'[r.to]
        BY Zenon, <1>5, <4>1 DEF AnsweredOK
      <4> QED BY Zenon, <1>2, <1>3, <1>5, <4>3, <4>4 DEF ConnOK
    <3>4. \A mine \in qpairs'[h] : mine.qpn \in m.conns => ConnOK(h, mine)'
      BY Zenon, <1>2, <1>3, <1>4, <3>1, <3>2, <3>3 DEF ConnsOK
    <3>5. \A k \in m.conns : \E mine \in qpairs'[h] : mine.qpn = k
      <4> SUFFICES ASSUME NEW k \in m.conns PROVE \E mine \in qpairs'[h] : mine.qpn = k
        BY Zenon
      <4>1. CASE k \in main[h].conns
        <5>1. PICK mine \in qpairs[h] : mine.qpn = k
          BY Zenon, <1>3, <1>4, <4>1 DEF ConnsOK
        <5>2. mine # qp
          BY Zenon, <1>3, <4>1, <5>1
        <5> QED BY Zenon, <1>2, <5>1, <5>2
      <4>2. CASE k \notin main[h].conns
        <5>1. k = r.qpn /\ c # {}
          BY Zenon, <1>8, <4>2 DEF Outcome
        <5> QED BY Zenon, <1>2, <1>5, <5>1
      <4> QED BY Zenon, <4>1, <4>2
    <3>6. \A a \in qpairs[h] \ {qp}, x \in c : a.qpn \in m.conns => a.dest # x.dest
      <4>1. c # {} => AnsweredOK(r)
        BY Zenon, <1>3, <1>5 DEF ReqOK
      <4> QED BY Zenon, <1>4, <1>5, <3>1, <4>1 DEF AnsweredOK
    <3>7. \A a, b \in qpairs'[h] : a.qpn \in m.conns /\ b.qpn \in m.conns /\ a.dest = b.dest => a = b
      <4> SUFFICES ASSUME NEW a \in qpairs'[h], NEW b \in qpairs'[h], a.qpn \in m.conns, b.qpn \in m.conns,
                          a.dest = b.dest
                   PROVE  a = b
        BY Zenon
      <4>1. CASE a \in qpairs[h] \ {qp} /\ b \in qpairs[h] \ {qp}
        BY Zenon, <1>3, <1>4, <3>1, <4>1 DEF ConnsOK
      <4>2. CASE a \in c \/ b \in c
        BY Zenon, <1>2, <1>6, <3>6, <4>2
      <4> QED BY Zenon, <1>2, <4>1, <4>2
    <3> QED BY ZenonT(60), <1>2, <2>3, <3>4, <3>5, <3>7 DEF ConnsOK
  <2> QED BY Zenon, <2>2, <2>3
<1>13. ASSUME NEW s \in requests' PROVE ReqOK(s)'
  <2>1. s \in requests /\ ReqOK(s)
    BY Zenon DEF RdmaInv
  <2>2. s.from \in RdmaHosts
    BY Zenon, <2>1 DEF ReqOK, Reqs
  <2>3. CASE s.from # h
    BY ZenonT(60), <1>2, <1>10, <2>1, <2>2, <2>3, ReqStays DEF ReqOK
  <2>4. CASE s.from = h
    <3>1. s.at # "answered"
      BY Zenon, <1>3, <2>1, <2>4
    <3> QED BY Zenon, <1>2, <1>8, <2>1, <2>4, <3>1 DEF ReqOK
  <2> QED BY Zenon, <2>3, <2>4
<1>14. Apart(requests')
  BY Zenon, ApartLess DEF RdmaInv
<1> QED BY Zenon, <1>9, <1>11, <1>12, <1>13, <1>14 DEF RdmaInv

\* A manager goes: its own connections first, then everything.
LEMMA LeaveKeeps ==
    ASSUME RdmaInv, NEW h \in RdmaHosts, main[h].at \notin {"attempt", "keys", "waiting"},
           \A r \in requests : ~(r.at = "running" /\ r.to = h),
           NEW S \in SUBSET qpairs[h], NEW l, l # "alive",
           l # "destroyed" => life[h] # "destroyed"
           /\ \A qp \in qpairs[h] : qp.qpn \notin ConnsOf(main[h]) => qp \in S,
           qpairs' = [qpairs EXCEPT ![h] = S], life' = [life EXCEPT ![h] = l],
           UNCHANGED <<handlerMu, nextQpn, main, requests>>
    PROVE  RdmaInv'
<1>1. /\ qpairs'[h] = S /\ \A g \in RdmaHosts \ {h} : qpairs'[g] = qpairs[g]
      /\ life'[h] = l /\ \A g \in RdmaHosts \ {h} : life'[g] = life[g]
  BY Zenon DEF RdmaInv, Shapes
<1>2. Shapes'
  BY Zenon DEF RdmaInv, Shapes
<1>3. Grows
  <2> SUFFICES ASSUME NEW p \in RdmaHosts PROVE PeerKeeps(p) /\ nextQpn[p] \in Nat /\ nextQpn[p] <= nextQpn[p]
    BY ZenonT(60) DEF Grows
  <2>1. nextQpn[p] \in Nat /\ nextQpn[p] <= nextQpn[p]
    BY DEF RdmaInv, HostOK
  <2>2. CASE p # h
    BY Zenon, <1>1, <2>1, <2>2 DEF PeerKeeps, PeerHas
  <2>3. CASE p = h
    <3> SUFFICES ASSUME NEW n, NEW d, NEW rq, NEW sq, PeerHas(h, n, d, rq, sq)
                 PROVE  PeerHas(h, n, d, rq, sq)'
      BY ZenonT(60), <2>1, <2>3 DEF PeerKeeps
    <3> DEFINE rec == [qpn |-> n, state |-> "rts", dest |-> d, rq |-> rq, sq |-> sq]
    <3>1. rec.qpn = n
      OBVIOUS
    <3>2. l # "destroyed" => n \notin ConnsOf(main[h]) /\ rec \in qpairs[h]
      BY Zenon DEF PeerHas
    <3>3. l # "destroyed" => rec \in qpairs'[h]
      BY Zenon, <1>1, <3>1, <3>2
    <3> QED BY Zenon, <1>1, <3>2, <3>3 DEF PeerHas
  <2> QED BY Zenon, <2>2, <2>3
<1>4. ASSUME NEW g \in RdmaHosts PROVE HostOK(g)'
  <2>1. HostOK(g)
    BY Zenon DEF RdmaInv
  <2>2. CASE g # h
    BY Zenon, <1>1, <2>1, <2>2, HostStays
  <2>3. CASE g = h
    <3>1. ~Busy(main[h])
      BY Zenon DEF Busy
    <3> QED BY Zenon, <1>1, <2>1, <2>3, <3>1 DEF HostOK
  <2> QED BY Zenon, <2>2, <2>3
<1>5. ASSUME NEW g \in RdmaHosts PROVE ConnsOK(g)'
  <2>1. CASE g # h
    BY Zenon, <1>1, <1>3, <2>1, ConnsStay DEF RdmaInv
  <2>2. CASE g = h
    BY Zenon, <1>1, <2>2 DEF ConnsOK
  <2> QED BY Zenon, <2>1, <2>2
<1>6. ASSUME NEW r \in requests PROVE ReqOK(r)'
  <2>1. ReqOK(r)
    BY Zenon DEF RdmaInv
  <2>2. r.from \in RdmaHosts /\ r.to \in RdmaHosts
    BY Zenon, <2>1 DEF ReqOK, Reqs
  <2>3. \A mine \in qpairs'[r.from] : mine \in qpairs[r.from]
    BY Zenon, <1>1, <2>2
  <2>4. r.at = "running" => handlerMu'[r.to] = "held" /\ life'[r.to] = "alive"
    BY Zenon, <1>1, <2>1, <2>2 DEF ReqOK
  <2> QED BY Zenon, <1>3, <2>1, <2>3, <2>4, ReqStays
<1>7. Apart(requests')
  BY Zenon DEF RdmaInv
<1> QED BY Zenon, <1>2, <1>4, <1>5, <1>6, <1>7 DEF RdmaInv

\* A call that a handler has looked at is replaced by x, or gone.
Moved(r, x) ==
    /\ x.from = r.from /\ x.to = r.to /\ x.qpn = r.qpn /\ x.psn = r.psn
    /\ requests' = (requests \ {r}) \cup {x} \/ requests' = requests \ {r}

\* Calls stay apart when one of them is handled.
LEMMA MovedApart ==
    ASSUME RdmaInv, NEW r \in requests, NEW x, Moved(r, x),
           x.at = "running" => \A s \in requests : ~(s.at = "running" /\ s.to = r.to)
    PROVE  Apart(requests')
<1>1. Apart(requests) /\ Apart(requests \ {r})
  BY Zenon, ApartLess DEF RdmaInv
<1>2. \A s \in requests \ {r} : ~(s.from = x.from /\ s.qpn = x.qpn)
  BY Zenon, <1>1 DEF Apart, Moved
<1>3. Apart((requests \ {r}) \cup {x})
  BY Zenon, <1>1, <1>2, ApartMore DEF Moved
<1> QED BY Zenon, <1>1, <1>3 DEF Moved

\* A handler starts or refuses a call.
LEMMA HandleKeeps ==
    ASSUME RdmaInv, NEW r \in requests, NEW x \in Reqs, Moved(r, x),
           \/ /\ r.at = "sent" /\ x.at = "running" /\ life[r.to] = "alive" /\ handlerMu[r.to] = "free"
              /\ handlerMu' = [handlerMu EXCEPT ![r.to] = "held"]
           \/ x.at = "refused" /\ handlerMu' = handlerMu
           \/ r.at = "running" /\ x.at = "refused" /\ handlerMu' = [handlerMu EXCEPT ![r.to] = "free"],
           UNCHANGED <<life, qpairs, nextQpn, main>>
    PROVE  RdmaInv'
<1>1. Shapes'
  BY Zenon DEF RdmaInv, Shapes
<1>2. Grows
  <2> SUFFICES ASSUME NEW p \in RdmaHosts PROVE PeerKeeps(p) /\ nextQpn[p] \in Nat /\ nextQpn[p] <= nextQpn[p]
    BY Zenon DEF Grows
  <2>1. nextQpn[p] \in Nat /\ nextQpn[p] <= nextQpn[p]
    BY DEF RdmaInv, HostOK
  <2> QED BY Zenon, <2>1 DEF PeerKeeps, PeerHas
<1>3. \A h \in RdmaHosts : HostOK(h)' /\ ConnsOK(h)'
  BY Zenon, <1>2, HostStays, ConnsStay DEF RdmaInv
<1>4. ReqOK(r) /\ r.to \in RdmaHosts
  BY Zenon DEF RdmaInv, ReqOK, Reqs
<1>5. \A s \in requests : s.at = "running" => handlerMu[s.to] = "held" /\ life[s.to] = "alive"
      /\ s.to \in RdmaHosts
  BY Zenon DEF RdmaInv, ReqOK, Reqs
<1>6. \A g \in RdmaHosts \ {r.to} : handlerMu'[g] = handlerMu[g]
  BY Zenon, <1>4 DEF RdmaInv, Shapes
<1>7. ASSUME NEW s \in requests \ {r} PROVE ReqOK(s)'
  <2>1. ReqOK(s)
    BY Zenon DEF RdmaInv
  <2>2. s.at = "running" /\ r.at = "running" => s.to # r.to
    BY Zenon DEF RdmaInv, Apart
  <2>3. s.at = "running" => handlerMu'[s.to] = "held" /\ life'[s.to] = "alive"
    BY Zenon, <1>4, <1>5, <1>6, <2>2
  <2> QED BY Zenon, <1>2, <2>1, <2>3, ReqStays
<1>8. ReqOK(x)'
  <2>1. x.at = "running" => handlerMu'[x.to] = "held" /\ life'[x.to] = "alive"
    BY Zenon, <1>4 DEF RdmaInv, Shapes, Moved
  <2>2. x.at # "answered"
    OBVIOUS
  <2> QED BY Zenon, <1>4, <2>1, <2>2 DEF ReqOK, Moved
<1>9. Apart(requests')
  <2>1. x.at = "running" => \A s \in requests : ~(s.at = "running" /\ s.to = r.to)
    BY Zenon, <1>5
  <2> QED BY Zenon, <2>1, MovedApart
<1>10. \A s \in requests' : ReqOK(s)'
  BY Zenon, <1>7, <1>8 DEF Moved
<1> QED BY Zenon, <1>1, <1>3, <1>9, <1>10 DEF RdmaInv

\* A handler accepts a call: it makes a queue pair, connects it to the caller's and answers.
LEMMA AcceptKeeps ==
    ASSUME RdmaInv, NEW r \in requests, r.at = "running",
           NEW q, q = ConnectQPair(NewQPair(r.to), r.qpn, r.psn, genPsn(r.to)),
           NEW x, x = [r EXCEPT !.at = "answered", !.resp = [qpn |-> q.qpn, psn |-> q.sq]],
           requests' = Answer(r, x),
           qpairs' = [qpairs EXCEPT ![r.to] = @ \cup {q}], nextQpn' = [nextQpn EXCEPT ![r.to] = @ + 1],
           handlerMu' = [handlerMu EXCEPT ![r.to] = "free"], UNCHANGED <<life, main>>
    PROVE  RdmaInv'
<1> DEFINE p == r.to
<1>1. ReqOK(r) /\ r \in Reqs /\ p \in RdmaHosts /\ r.from \in RdmaHosts /\ r.from # p /\ r.qpn \in Nat
      /\ r.psn \in PsnSet
      /\ life[p] = "alive" /\ r.psn = <<r.from, r.qpn>>
  BY Zenon DEF RdmaInv, ReqOK, Reqs
<1>2. HostOK(p) /\ ConnsOK(p) /\ nextQpn[p] \in Nat \ {0}
  BY Zenon, <1>1 DEF RdmaInv, HostOK
<1>3. /\ qpairs'[p] = qpairs[p] \cup {q} /\ \A g \in RdmaHosts \ {p} : qpairs'[g] = qpairs[g]
      /\ nextQpn'[p] = nextQpn[p] + 1 /\ \A g \in RdmaHosts \ {p} : nextQpn'[g] = nextQpn[g]
      /\ \A g \in RdmaHosts \ {p} : handlerMu'[g] = handlerMu[g]
  BY Zenon, <1>1 DEF RdmaInv, Shapes
<1>4. /\ q = [qpn |-> nextQpn[p], state |-> "rts", dest |-> r.qpn, rq |-> r.psn, sq |-> <<p, nextQpn[p]>>]
      /\ q.qpn = nextQpn[p] /\ q.state = "rts" /\ q.sq = <<p, nextQpn[p]>>
  BY ZenonT(60) DEF ConnectQPair, NewQPair, genPsn
<1>5. q \in QPairs /\ q.sq \in PsnSet
  BY <1>1, <1>2, <1>4 DEF QPairs, PsnSet
<1>6. /\ x \in Reqs /\ x.from = r.from /\ x.to = p /\ x.qpn = r.qpn /\ x.psn = r.psn /\ x.at = "answered"
      /\ x.resp.qpn = nextQpn[p] /\ x.resp.psn = <<p, nextQpn[p]>>
  <2>1. [qpn |-> q.qpn, psn |-> q.sq] \in [qpn : Nat, psn : PsnSet]
    BY ZenonT(60), <1>2, <1>4, <1>5
  <2> QED BY Zenon, <1>1, <1>4, <2>1 DEF Reqs
<1>7. \A o \in qpairs[p] : o \in QPairs /\ o.qpn \in Nat /\ o.qpn < nextQpn[p] /\ o.qpn # nextQpn[p]
      /\ o.qpn < nextQpn[p] + 1
  BY <1>2 DEF HostOK, QPairs
<1>8. nextQpn[p] \notin ConnsOf(main[p])
  <2>1. CASE main[p].at = "idle"
    BY Zenon, <2>1 DEF ConnsOf
  <2>2. CASE main[p].at # "idle"
    <3>1. \A c \in main[p].conns : \E mine \in qpairs[p] : mine.qpn = c
      BY Zenon, <1>1, <1>2, <2>2 DEF ConnsOK
    <3> QED BY Zenon, <1>7, <2>2, <3>1 DEF ConnsOf
  <2> QED BY Zenon, <2>1, <2>2
<1>9. Shapes'
  BY Zenon DEF RdmaInv, Shapes
<1>10. Grows
  <2> SUFFICES ASSUME NEW g \in RdmaHosts
               PROVE  PeerKeeps(g) /\ nextQpn[g] \in Nat /\ nextQpn'[g] \in Nat /\ nextQpn[g] <= nextQpn'[g]
    BY Zenon DEF Grows
  <2>1. nextQpn[g] \in Nat /\ nextQpn'[g] \in Nat /\ nextQpn[g] <= nextQpn'[g]
    BY <1>3 DEF RdmaInv, HostOK
  <2>2. qpairs[g] \subseteq qpairs'[g]
    BY Zenon, <1>3
  <2>3. PeerKeeps(g)
    BY Zenon, <2>2 DEF PeerKeeps, PeerHas
  <2> QED BY Zenon, <2>1, <2>3
<1>11. ASSUME NEW g \in RdmaHosts PROVE HostOK(g)'
  <2>1. HostOK(g)
    BY Zenon DEF RdmaInv
  <2>2. CASE g # p
    BY Zenon, <1>3, <2>1, <2>2, HostStays
  <2>3. CASE g = p
    <3>1. \A o \in qpairs'[p] : o \in QPairs /\ o.qpn < nextQpn'[p]
      BY SMTT(60), <1>2, <1>3, <1>4, <1>5, <1>7
    <3>2. \A a, b \in qpairs'[p] : a.qpn = b.qpn => a = b
      BY SMTT(60), <1>2, <1>3, <1>4, <1>7 DEF HostOK
    <3>3. nextQpn'[p] \in Nat \ {0}
      BY <1>2, <1>3
    <3>4. q.state # "init"
      BY Zenon, <1>4
    <3> QED BY ZenonT(60), <1>2, <1>3, <2>3, <3>1, <3>2, <3>3, <3>4 DEF HostOK
  <2> QED BY Zenon, <2>2, <2>3
<1>12. ASSUME NEW g \in RdmaHosts PROVE ConnsOK(g)'
  <2>1. HostOK(g) /\ ConnsOK(g)
    BY Zenon DEF RdmaInv
  <2>2. CASE g # p
    BY Zenon, <1>3, <1>10, <2>1, <2>2, ConnsStay
  <2>3. CASE g = p /\ main[p].at # "idle"
    <3>1. \A mine \in qpairs'[p] : mine.qpn \in main[p].conns => mine \in qpairs[p] /\ ConnOK(p, mine)
          /\ mine \in QPairs
      BY Zenon, <1>1, <1>2, <1>3, <1>4, <1>7, <1>8, <2>3 DEF ConnsOK, ConnsOf
    <3>2. main[p].peer \in RdmaHosts
      BY <1>2, <2>3 DEF HostOK, MainOK, Steady, Making
    <3>3. ASSUME NEW mine \in qpairs'[p], mine.qpn \in main[p].conns PROVE ConnOK(p, mine)'
      <4>1. mine.dest < nextQpn'[main[p].peer]
        BY <1>10, <3>1, <3>2, <3>3 DEF ConnOK, Grows, QPairs
      <4> QED BY ZenonT(60), <1>10, <3>1, <3>2, <3>3, <4>1 DEF ConnOK, Grows, PeerKeeps
    <3> QED BY ZenonT(60), <1>1, <1>2, <1>3, <2>3, <3>1, <3>3 DEF ConnsOK
  <2>4. CASE g = p /\ main[p].at = "idle"
    BY Zenon, <2>4 DEF ConnsOK
  <2> QED BY Zenon, <2>2, <2>3, <2>4
<1>13. ASSUME NEW s \in requests \ {r} PROVE ReqOK(s)'
  <2>1. ReqOK(s)
    BY Zenon DEF RdmaInv
  <2>2. s.from \in RdmaHosts /\ s.to \in RdmaHosts
    BY Zenon, <2>1 DEF ReqOK, Reqs
  <2>3. s.at = "running" => s.to # p
    BY Zenon DEF RdmaInv, Apart
  <2>4. s.at = "running" => handlerMu'[s.to] = "held" /\ life'[s.to] = "alive"
    BY Zenon, <1>3, <2>1, <2>2, <2>3 DEF ReqOK
  <2>5. \A mine \in qpairs'[s.from] : mine.qpn \in ConnsOf(main[s.from]) => mine \in qpairs[s.from]
    <3>1. CASE s.from = p
      <4>1. q.qpn \notin ConnsOf(main[p])
        BY Zenon, <1>4, <1>8
      <4> QED BY ZenonT(60), <1>3, <3>1, <4>1
    <3>2. CASE s.from # p
      BY Zenon, <1>3, <2>2, <3>2
    <3> QED BY Zenon, <3>1, <3>2
  <2> QED BY Zenon, <1>10, <2>1, <2>4, <2>5, ReqStays
<1>14. ASSUME IsReplyTo(r, r.from) PROVE ReqOK(x)'
  <2>1. main[r.from].at = "waiting" /\ r.qpn = main[r.from].qpn /\ Busy(main[r.from])
        /\ main[r.from].at # "idle"
    BY Zenon, <1>14 DEF IsReplyTo, Busy
  <2>2. main[r.from].peer = p
    BY Zenon, <1>1, <2>1 DEF ReqOK
  <2>3. HostOK(r.from) /\ ConnsOK(r.from) /\ life[r.from] = "alive"
    BY Zenon, <1>1, <2>1 DEF RdmaInv, HostOK
  <2>4. \A mine \in qpairs[r.from] : mine.qpn \in main[r.from].conns => mine.dest < nextQpn[p]
        /\ mine \in QPairs
    BY ZenonT(60), <2>1, <2>2, <2>3 DEF ConnsOK, ConnOK, HostOK
  <2>5. \A mine \in qpairs'[r.from] : mine.qpn \in main[r.from].conns => mine.dest # nextQpn[p]
    BY <1>1, <1>2, <1>3, <2>4 DEF QPairs
  <2>6. PeerHas(x.to, x.resp.qpn, x.qpn, x.psn, x.resp.psn)'
    <3>1. [qpn |-> x.resp.qpn, state |-> "rts", dest |-> x.qpn, rq |-> x.psn, sq |-> x.resp.psn] \in qpairs'[x.to]
      BY ZenonT(60), <1>3, <1>4, <1>6
    <3>2. x.resp.qpn \notin ConnsOf(main'[x.to])
      BY Zenon, <1>6, <1>8
    <3> QED BY Zenon, <3>1, <3>2 DEF PeerHas
  <2>7. x.resp.qpn < nextQpn'[x.to]
    BY <1>2, <1>3, <1>6
  <2>8. x.at = "answered" /\ x.at # "running"
    BY Zenon, <1>6
  <2>9. AnsweredOK(x)'
    BY ZenonT(60), <1>6, <2>1, <2>5, <2>6, <2>7 DEF AnsweredOK, IsReplyTo
  <2>10. x.qpn < nextQpn'[x.from]
    BY <1>1, <1>3, <1>6 DEF ReqOK
  <2> QED BY Zenon, <1>1, <1>6, <2>1, <2>2, <2>8, <2>9, <2>10 DEF ReqOK
<1>15. Moved(r, x) /\ (requests' # requests \ {r} => IsReplyTo(r, r.from))
  <2>1. CASE IsReplyTo(r, r.from)
    BY Zenon, <1>6, <2>1 DEF Moved, Answer
  <2>2. CASE ~IsReplyTo(r, r.from)
    BY Zenon, <1>6, <2>2 DEF Moved, Answer
  <2> QED BY Zenon, <2>1, <2>2
<1>16. Apart(requests')
  <2>1. x.at # "running"
    BY Zenon, <1>6
  <2> QED BY Zenon, <1>15, <2>1, MovedApart
<1>17. \A s \in requests' : ReqOK(s)'
  BY Zenon, <1>13, <1>14, <1>15 DEF Moved
<1> QED BY Zenon, <1>9, <1>11, <1>12, <1>16, <1>17 DEF RdmaInv

\* A reply is delivered to a caller that waits, or goes nowhere.
LEMMA AnswerMoves ==
    ASSUME NEW r, r \in Reqs, NEW x, x = [r EXCEPT !.at = "refused"], requests' = Answer(r, x)
    PROVE  x \in Reqs /\ x.at = "refused" /\ Moved(r, x)
<1>1. x \in Reqs /\ x.at = "refused" /\ x.from = r.from /\ x.to = r.to /\ x.qpn = r.qpn /\ x.psn = r.psn
  BY Zenon DEF Reqs
<1>2. requests' = (requests \ {r}) \cup {x} \/ requests' = requests \ {r}
  BY Zenon DEF Answer
<1> QED BY Zenon, <1>1, <1>2 DEF Moved

\* A gRPC thread's step on a call.
LEMMA HandlerKeeps ==
    ASSUME RdmaInv, NEW r \in requests, handleRdmaConnect(r) \/ handleConnect(r)
    PROVE  RdmaInv'
<1>0. r \in Reqs
  BY Zenon DEF RdmaInv, ReqOK
<1>1. PICK x : x = [r EXCEPT !.at = "refused"]
  BY Zenon
<1>2. CASE handleRdmaConnect(r) /\ life[r.to] # "alive"
  <2>1. requests' = Answer(r, x) /\ handlerMu' = handlerMu /\ UNCHANGED <<life, qpairs, nextQpn, main>>
    BY Zenon, <1>1, <1>2 DEF handleRdmaConnect
  <2>2. x \in Reqs /\ x.at = "refused" /\ Moved(r, x)
    BY Zenon, <1>0, <1>1, <2>1, AnswerMoves
  <2> QED BY Zenon, <2>1, <2>2, HandleKeeps
<1>3. CASE handleRdmaConnect(r) /\ life[r.to] = "alive"
  <2>1. PICK y : y = [r EXCEPT !.at = "running"]
    BY Zenon
  <2>2. /\ r.at = "sent" /\ handlerMu[r.to] = "free" /\ handlerMu' = [handlerMu EXCEPT ![r.to] = "held"]
        /\ requests' = (requests \ {r}) \cup {y} /\ UNCHANGED <<life, qpairs, nextQpn, main>>
    BY Zenon, <1>3, <2>1 DEF handleRdmaConnect
  <2>3. y \in Reqs /\ y.at = "running" /\ y.from = r.from /\ y.to = r.to /\ y.qpn = r.qpn /\ y.psn = r.psn
    BY Zenon, <1>0, <2>1 DEF Reqs
  <2>4. Moved(r, y)
    BY Zenon, <2>2, <2>3 DEF Moved
  <2> QED BY Zenon, <1>3, <2>2, <2>3, <2>4, HandleKeeps
<1>4. CASE handleConnect(r) /\ requests' = Answer(r, x) /\ UNCHANGED <<qpairs, nextQpn>>
  <2>1. r.at = "running" /\ handlerMu' = [handlerMu EXCEPT ![r.to] = "free"] /\ UNCHANGED <<life, main>>
    BY Zenon, <1>4 DEF handleConnect
  <2>2. x \in Reqs /\ x.at = "refused" /\ Moved(r, x)
    BY Zenon, <1>0, <1>1, <1>4, AnswerMoves
  <2> QED BY Zenon, <1>4, <2>1, <2>2, HandleKeeps
<1>5. CASE handleConnect(r) /\ ~(requests' = Answer(r, x) /\ UNCHANGED <<qpairs, nextQpn>>)
  <2>1. PICK q : q = ConnectQPair(NewQPair(r.to), r.qpn, r.psn, genPsn(r.to))
    BY Zenon
  <2>2. PICK y : y = [r EXCEPT !.at = "answered", !.resp = [qpn |-> q.qpn, psn |-> q.sq]]
    BY Zenon
  <2>3. /\ r.at = "running" /\ handlerMu' = [handlerMu EXCEPT ![r.to] = "free"] /\ UNCHANGED <<life, main>>
        /\ qpairs' = [qpairs EXCEPT ![r.to] = @ \cup {q}] /\ nextQpn' = [nextQpn EXCEPT ![r.to] = @ + 1]
        /\ requests' = Answer(r, y)
    BY Zenon, <1>1, <1>5, <2>1, <2>2 DEF handleConnect
  <2> QED BY Zenon, <2>1, <2>2, <2>3, AcceptKeeps
<1> QED BY Zenon, <1>2, <1>3, <1>4, <1>5

\* A step of the thread that runs Connect().
LEMMA ConnectorKeeps ==
    ASSUME RdmaInv, NEW h \in RdmaHosts,
           \/ \E p \in RdmaHosts : BeginConnect(h, p)
           \/ CreateFails(h) \/ CreateLocal(h) \/ ConnectRdmaPeer(h) \/ ConnectReturns(h)
           \/ \E r \in requests : ReceiveResponse(h, r) \/ RequestFails(h, r)
    PROVE  RdmaInv'
<1>0. HostOK(h)
  BY Zenon DEF RdmaInv
<1>1. ASSUME NEW p \in RdmaHosts, BeginConnect(h, p) PROVE RdmaInv'
  <2>1. PICK m \in {[at |-> "attempt", peer |-> p, i |-> 0, conns |-> {}], [at |-> "done", peer |-> p, i |-> 0, conns |-> {}]} :
          main' = [main EXCEPT ![h] = m]
    BY ZenonT(60), <1>1 DEF BeginConnect
  <2>2. m \in Steady /\ m.peer = p /\ m.conns = {}
    BY <2>1 DEF Steady
  <2>3. main[h].at = "idle" /\ main[h].at # "attempt" /\ life[h] = "alive" /\ h # p
        /\ UNCHANGED <<life, handlerMu, qpairs, nextQpn, requests>>
    BY Zenon, <1>1 DEF BeginConnect
  <2>4. m.conns = ConnsOf(main[h]) /\ main[h].at \in {"idle", "attempt"}
    BY Zenon, <2>2, <2>3 DEF ConnsOf
  <2> QED BY Zenon, <2>1, <2>2, <2>3, <2>4, TurnKeeps
<1>2. ASSUME NEW m, m \in Steady, m.peer = main[h].peer, m.conns = main[h].conns, main[h].at = "attempt",
             main' = [main EXCEPT ![h] = m], UNCHANGED <<life, handlerMu, qpairs, nextQpn, requests>>
      PROVE  RdmaInv'
  <2>1. main[h].at # "idle" /\ main[h].at \in {"idle", "attempt"}
    BY Zenon, <1>2
  <2>2. life[h] = "alive" /\ main[h].peer # h
    BY Zenon, <1>0, <1>2 DEF HostOK, MainOK
  <2>3. m.conns = ConnsOf(main[h])
    BY ZenonT(60), <1>2, <2>1 DEF ConnsOf
  <2> QED BY Zenon, <1>2, <2>1, <2>2, <2>3, TurnKeeps
<1>3. main[h].at = "attempt" => main[h] \in Steady
  BY <1>0 DEF HostOK, MainOK, Making
<1>4. ASSUME CreateFails(h) PROVE RdmaInv'
  <2>1. PICK m : m = NextAttempt(h)
    BY Zenon
  <2>2. main[h].at = "attempt" /\ main' = [main EXCEPT ![h] = m]
        /\ UNCHANGED <<life, handlerMu, qpairs, nextQpn, requests>>
    BY Zenon, <1>4, <2>1 DEF CreateFails
  <2>3. m \in Steady /\ m.peer = main[h].peer /\ m.conns = main[h].conns
    BY <1>3, <2>1, <2>2 DEF NextAttempt, Steady
  <2> QED BY Zenon, <1>2, <2>2, <2>3
<1>5. ASSUME ConnectReturns(h) PROVE RdmaInv'
  <2>1. PICK m : m = [main[h] EXCEPT !.at = "done"]
    BY Zenon
  <2>2. main[h].at = "attempt" /\ main' = [main EXCEPT ![h] = m]
        /\ UNCHANGED <<life, handlerMu, qpairs, nextQpn, requests>>
    BY Zenon, <1>5, <2>1 DEF ConnectReturns
  <2>3. m \in Steady /\ m.peer = main[h].peer /\ m.conns = main[h].conns
    BY Zenon, <1>3, <2>1, <2>2 DEF Steady
  <2> QED BY Zenon, <1>2, <2>2, <2>3
<1>6. ASSUME NEW r \in requests, IsReplyTo(r, h)
      PROVE  /\ NextAttempt(h) \in Steady /\ NextAttempt(h).at = "attempt" /\ NextAttempt(h).peer = main[h].peer
             /\ NextAttempt(h).conns = main[h].conns
             /\ [NextAttempt(h) EXCEPT !.conns = @ \cup {r.qpn}] =
                  [at |-> "attempt", peer |-> main[h].peer, i |-> main[h].i + 1, conns |-> main[h].conns \cup {r.qpn}]
             /\ [at |-> "attempt", peer |-> main[h].peer, i |-> main[h].i + 1, conns |-> main[h].conns \cup {r.qpn}] \in Steady
  <2>1. main[h] \in Making /\ r.qpn \in Nat
    BY SMTT(60), <1>6, AttemptEnds DEF AtEnd, ReqOK, Reqs
  <2>2. main[h].peer \in RdmaHosts /\ main[h].i + 1 \in Nat /\ main[h].conns \in SUBSET Nat
    BY <2>1 DEF Making
  <2>3. main[h].conns \cup {r.qpn} \in SUBSET Nat
    BY Zenon, <2>1, <2>2
  <2>4. NextAttempt(h) \in Steady
    BY Zenon, <2>2 DEF NextAttempt, Steady
  <2>5. NextAttempt(h).at = "attempt" /\ NextAttempt(h).peer = main[h].peer
        /\ NextAttempt(h).conns = main[h].conns
    BY Zenon DEF NextAttempt
  <2>6. [NextAttempt(h) EXCEPT !.conns = @ \cup {r.qpn}] =
          [at |-> "attempt", peer |-> main[h].peer, i |-> main[h].i + 1, conns |-> main[h].conns \cup {r.qpn}]
    BY DEF NextAttempt
  <2>7. [at |-> "attempt", peer |-> main[h].peer, i |-> main[h].i + 1, conns |-> main[h].conns \cup {r.qpn}] \in Steady
    BY Zenon, <2>2, <2>3 DEF Steady
  <2> QED BY ZenonT(60), <2>4, <2>5, <2>6, <2>7
<1>7. ASSUME NEW r \in requests, IsReplyTo(r, h), qpairs' = [qpairs EXCEPT ![h] = @ \ {QPair(h, r.qpn)}],
             main' = [main EXCEPT ![h] = NextAttempt(h)], UNCHANGED <<life, handlerMu, nextQpn>>,
             requests' = requests \ {r} \/ (requests' = requests /\ r.at # "answered")
      PROVE  RdmaInv'
  <2>1. PICK m : m = NextAttempt(h)
    BY Zenon
  <2>2. PICK c : c = {}
    BY Zenon
  <2>3. qpairs' = [qpairs EXCEPT ![h] = (@ \ {QPair(h, r.qpn)}) \cup c]
    BY Zenon, <1>7, <2>2
  <2>4. m \in Steady /\ m.at = "attempt" /\ m.peer = main[h].peer /\ m.conns = main[h].conns
    BY Zenon, <1>6, <1>7, <2>1
  <2>5. main' = [main EXCEPT ![h] = m] /\ c = {} /\ m.conns = main[h].conns
    BY Zenon, <1>7, <2>1, <2>2, <2>4
  <2>6. m \in Steady /\ m.at = "attempt" /\ m.peer = main[h].peer
    BY Zenon, <2>4
  <2>7. Outcome(h, r, m, c)
    BY Zenon, <2>5 DEF Outcome
  <2> QED BY Zenon, <1>7, <2>3, <2>5, <2>6, <2>7, EndKeeps
<1>8. ASSUME NEW r \in requests, RequestFails(h, r) PROVE RdmaInv'
  <2>1. requests' = requests \ {r} \/ (requests' = requests /\ r.at # "answered")
    BY Zenon, <1>8 DEF RequestFails
  <2> QED BY Zenon, <1>7, <1>8, <2>1 DEF RequestFails
<1>9. ASSUME NEW r \in requests, ReceiveResponse(h, r) PROVE RdmaInv'
  <2>0. IsReplyTo(r, h) /\ r.at = "answered" /\ requests' = requests \ {r}
        /\ UNCHANGED <<life, handlerMu, nextQpn>>
    BY Zenon, <1>9 DEF ReceiveResponse
  <2>1. CASE qpairs' = [qpairs EXCEPT ![h] = @ \ {QPair(h, r.qpn)}]
        /\ main' = [main EXCEPT ![h] = NextAttempt(h)]
    BY Zenon, <1>7, <2>0, <2>1
  <2>2. CASE ~(qpairs' = [qpairs EXCEPT ![h] = @ \ {QPair(h, r.qpn)}]
        /\ main' = [main EXCEPT ![h] = NextAttempt(h)])
    <3>1. PICK k : k = ConnectQPair(QPair(h, r.qpn), r.resp.qpn, r.resp.psn, main[h].psn)
      BY Zenon
    <3>2. /\ qpairs' = [qpairs EXCEPT ![h] = (@ \ {QPair(h, r.qpn)}) \cup {k}]
          /\ main' = [main EXCEPT ![h] = [NextAttempt(h) EXCEPT !.conns = @ \cup {k.qpn}]]
      BY Zenon, <1>9, <2>2, <3>1 DEF ReceiveResponse
    <3>3. k.qpn = r.qpn
      <4>1. QPair(h, r.qpn) \in QPairs /\ QPair(h, r.qpn).qpn = r.qpn
        <5>1. QPair(h, r.qpn) \in qpairs[h] /\ QPair(h, r.qpn).qpn = r.qpn
          <6>1. AtEnd(h, r)
            BY Zenon, <2>0, AttemptEnds
          <6> QED BY Zenon, <6>1 DEF AtEnd
        <5> QED BY Zenon, <1>0, <5>1 DEF HostOK
      <4> QED BY Zenon, <3>1, <4>1 DEF ConnectQPair, QPairs
    <3>4. PICK m : m = [at |-> "attempt", peer |-> main[h].peer, i |-> main[h].i + 1, conns |-> main[h].conns \cup {r.qpn}]
      BY Zenon
    <3>5. main' = [main EXCEPT ![h] = m] /\ m \in Steady
      BY Zenon, <1>6, <2>0, <3>2, <3>3, <3>4
    <3>6. m.at = "attempt" /\ m.peer = main[h].peer /\ m.conns = main[h].conns \cup {r.qpn}
      BY Zenon, <3>4
    <3>7. PICK c : c = {k}
      BY Zenon
    <3>8. Outcome(h, r, m, c)
      BY Zenon, <2>0, <3>1, <3>6, <3>7 DEF Outcome
    <3> QED BY Zenon, <2>0, <3>2, <3>5, <3>6, <3>7, <3>8, EndKeeps
  <2> QED BY Zenon, <2>1, <2>2
<1> QED BY Zenon, <1>1, <1>4, <1>5, <1>8, <1>9, CreateKeeps, CallKeeps

\* The manager's destructor.
LEMMA DestructorKeeps ==
    ASSUME RdmaInv, NEW h \in RdmaHosts, DropHandler(h) \/ DestroyManager(h)
    PROVE  RdmaInv'
<1>0. /\ \A r \in requests : r.at = "running" => handlerMu[r.to] = "held" /\ life[r.to] = "alive"
      /\ main[h].at \in {"attempt", "keys", "waiting"} => life[h] = "alive"
  BY Zenon DEF RdmaInv, ReqOK, HostOK
<1>1. CASE DropHandler(h)
  <2>1. PICK S : S = {qp \in qpairs[h] : main[h].at = "idle" \/ qp.qpn \notin main[h].conns}
    BY Zenon
  <2>2. /\ life[h] = "alive" /\ main[h].at \in {"idle", "done"} /\ handlerMu[h] = "free"
        /\ life' = [life EXCEPT ![h] = "dropped"] /\ qpairs' = [qpairs EXCEPT ![h] = S]
        /\ UNCHANGED <<handlerMu, nextQpn, main, requests>>
    BY Zenon, <1>1, <2>1 DEF DropHandler
  <2>3. main[h].at \notin {"attempt", "keys", "waiting"} /\ life[h] # "destroyed"
        /\ \A r \in requests : ~(r.at = "running" /\ r.to = h)
    BY Zenon, <1>0, <2>2
  <2>4. S \in SUBSET qpairs[h] /\ \A qp \in qpairs[h] : qp.qpn \notin ConnsOf(main[h]) => qp \in S
    BY Zenon, <2>1 DEF ConnsOf
  <2>5. PICK l : l = "dropped"
    BY Zenon
  <2> QED BY Zenon, <2>2, <2>3, <2>4, <2>5, LeaveKeeps
<1>2. CASE DestroyManager(h)
  <2>1. life[h] = "dropped" /\ life' = [life EXCEPT ![h] = "destroyed"]
        /\ UNCHANGED <<handlerMu, nextQpn, main, requests>>
    BY Zenon, <1>2 DEF DestroyManager
  <2>2. main[h].at \notin {"attempt", "keys", "waiting"} /\ \A r \in requests : ~(r.at = "running" /\ r.to = h)
    BY Zenon, <1>0, <2>1
  <2>3. PICK S : S = {}
    BY Zenon
  <2>4. qpairs' = [qpairs EXCEPT ![h] = S] /\ S \in SUBSET qpairs[h]
    BY Zenon, <1>2, <2>3 DEF DestroyManager
  <2>5. PICK l : l = "destroyed"
    BY Zenon
  <2> QED BY Zenon, <2>1, <2>2, <2>4, <2>5, LeaveKeeps
<1> QED BY Zenon, <1>1, <1>2

\* The invariant of RdmaManager, for any hosts and any number of connections.
LEMMA RdmaInvariant == RdmaSpec => []RdmaInv
<1>1. RdmaInit => RdmaInv
  <2> SUFFICES ASSUME RdmaInit PROVE RdmaInv
    BY Zenon
  <2>1. Shapes
    BY Zenon DEF RdmaInit, Shapes
  <2>2. \A h \in RdmaHosts : HostOK(h) /\ ConnsOK(h)
    BY DEF RdmaInit, HostOK, ConnsOK, MainOK, Busy
  <2> QED BY Zenon, <2>1, <2>2 DEF RdmaInit, RdmaInv, Apart
<1>2. RdmaInv /\ [RdmaNext]_rdmaVars => RdmaInv'
  <2> SUFFICES ASSUME RdmaInv, [RdmaNext]_rdmaVars PROVE RdmaInv'
    BY Zenon
  <2>1. CASE UNCHANGED rdmaVars
    <3>1. main' = main /\ qpairs' = qpairs /\ nextQpn' = nextQpn /\ life' = life
          /\ handlerMu' = handlerMu /\ requests' = requests
      BY Zenon, <2>1 DEF rdmaVars
    <3>2. \A p \in RdmaHosts : nextQpn[p] \in Nat /\ nextQpn[p] <= nextQpn[p]
      BY DEF RdmaInv, HostOK
    <3>3. Grows
      BY ZenonT(60), <3>1, <3>2 DEF Grows, PeerKeeps, PeerHas
    <3>4. \A h \in RdmaHosts : HostOK(h)' /\ ConnsOK(h)'
      BY Zenon, <3>1, <3>3, HostStays, ConnsStay DEF RdmaInv
    <3>5. \A r \in requests : ReqOK(r)'
      BY Zenon, <3>1, <3>3, ReqStays DEF RdmaInv, ReqOK
    <3>6. Shapes' /\ Apart(requests')
      BY Zenon, <3>1 DEF RdmaInv, Shapes
    <3> QED BY Zenon, <3>1, <3>4, <3>5, <3>6 DEF RdmaInv
  <2>2. CASE RdmaNext
    BY Zenon, <2>2, ConnectorKeeps, HandlerKeeps, DestructorKeeps DEF RdmaNext, ConnectorStep, HandlerStep
  <2> QED BY Zenon, <2>1, <2>2
<1> QED BY <1>1, <1>2, PTL DEF RdmaSpec

\* Both ends of every connection match and no two share one, for any number of hosts and
\* connections, and whatever calls and verbs fail, are lost or come late.
THEOREM ConnectionsAlwaysMatch == RdmaSpec => []ConnectionsMatch
<1>1. RdmaInv => ConnectionsMatch
  <2> SUFFICES ASSUME RdmaInv, NEW h \in RdmaHosts, main[h].at # "idle", life[h] = "alive",
                      NEW c \in main[h].conns
               PROVE  /\ QPair(h, c).state = "rts"
                      /\ life[main[h].peer] # "destroyed" =>
                           \E yours \in qpairs[main[h].peer] :
                             /\ yours.state = "rts" /\ yours.qpn = QPair(h, c).dest
                                /\ yours.dest = QPair(h, c).qpn
                             /\ yours.rq = QPair(h, c).sq /\ yours.sq = QPair(h, c).rq
                      /\ \A d \in main[h].conns \ {c} : QPair(h, d).dest # QPair(h, c).dest
    BY Zenon DEF ConnectionsMatch
  <2>1. HostOK(h) /\ ConnsOK(h)
    BY Zenon DEF RdmaInv
  <2>2. \A k \in main[h].conns : \E mine \in qpairs[h] : mine.qpn = k /\ mine = QPair(h, k) /\ ConnOK(h, mine)
    BY ZenonT(60), <2>1, QPairIsIt DEF ConnsOK
  <2>3. PICK mine \in qpairs[h] : mine.qpn = c /\ mine = QPair(h, c) /\ ConnOK(h, mine)
    BY Zenon, <2>2
  <2>4. ASSUME NEW d \in main[h].conns \ {c} PROVE QPair(h, d).dest # mine.dest
    <3>1. PICK other \in qpairs[h] : other.qpn = d /\ other = QPair(h, d)
      BY Zenon, <2>2
    <3>2. other # mine
      BY Zenon, <2>3, <3>1
    <3> QED BY Zenon, <2>1, <2>3, <3>1, <3>2 DEF ConnsOK
  <2>5. ASSUME life[main[h].peer] # "destroyed"
        PROVE  \E yours \in qpairs[main[h].peer] :
                 /\ yours.state = "rts" /\ yours.qpn = mine.dest /\ yours.dest = mine.qpn
                 /\ yours.rq = mine.sq /\ yours.sq = mine.rq
    <3> DEFINE rec == [qpn |-> mine.dest, state |-> "rts", dest |-> mine.qpn, rq |-> mine.sq, sq |-> mine.rq]
    <3>1. rec \in qpairs[main[h].peer]
      BY Zenon, <2>3, <2>5 DEF ConnOK, PeerHas
    <3>2. rec.state = "rts" /\ rec.qpn = mine.dest /\ rec.dest = mine.qpn /\ rec.rq = mine.sq
          /\ rec.sq = mine.rq
      BY Zenon
    <3> QED BY Zenon, <3>1, <3>2
  <2> QED BY Zenon, <2>3, <2>4, <2>5 DEF ConnOK
<1> QED BY <1>1, RdmaInvariant, PTL

\* A handler of the control plane that runs has its manager: ~RdmaManager waits for it.
THEOREM HandlersHaveTheirManager == RdmaSpec => []HandlersOutlived
<1>1. RdmaInv => HandlersOutlived
  BY Zenon DEF RdmaInv, ReqOK, HandlersOutlived
<1> QED BY <1>1, RdmaInvariant, PTL

\* A failed attempt of Connect() leaves no queue pair behind at its own side.
THEOREM FailedAttemptsLeaveNothing == RdmaSpec => []NoStrayQPairs
<1>1. RdmaInv => NoStrayQPairs
  <2> SUFFICES ASSUME RdmaInv, NEW h \in RdmaHosts, NEW qp \in qpairs[h], qp.state # "rts"
               PROVE  main[h].at \in {"keys", "waiting"} /\ qp.qpn = main[h].qpn
    BY Zenon DEF NoStrayQPairs
  <2>1. qp \in QPairs
    BY Zenon DEF RdmaInv, HostOK
  <2>2. qp.state = "init"
    BY Zenon, <2>1 DEF QPairs
  <2> QED BY Zenon, <2>2 DEF RdmaInv, HostOK, Busy
<1> QED BY <1>1, RdmaInvariant, PTL

-----------------------------------------------------------------------------
\* The RDMA channel.

ChannelSpec == ChannelInit /\ [][ChannelNext]_channelVars

\* Until a write fails, the device and the completion queue hold the write in progress and
\* nothing else, and a completion that says success is of a write that was performed.
OnlyThisWrite ==
    /\ write \in [n : Nat, at : {"idle", "polling"}, result : {"none", "ok", "failed"}]
    /\ write.at = "polling" => write.result = "none"
    /\ write.result # "failed" /\ write.at = "idle" => sendQueue = <<>> /\ cq = <<>>
    /\ write.at = "polling" =>
         \/ sendQueue = <<write.n>> /\ cq = <<>>
         \/ sendQueue = <<>> /\ cq = <<[n |-> write.n, ok |-> FALSE]>>
         \/ sendQueue = <<>> /\ cq = <<[n |-> write.n, ok |-> TRUE]>> /\ write.n \in remote
    /\ write.result = "ok" => write.n \in remote

\* At first there is no write.
LEMMA ChannelInitOK == ChannelInit => OnlyThisWrite
BY DEF ChannelInit, OnlyThisWrite

\* A write begins on an empty queue pair, or not at all.
LEMMA BeginWriteKeeps ==
    ASSUME OnlyThisWrite, NEW n \in 1..MaxWrites, BeginWrite(n)
    PROVE  OnlyThisWrite'
<1>1. n \in Nat /\ sendQueue = <<>> /\ cq = <<>>
  BY DEF OnlyThisWrite, BeginWrite
<1>2. CASE sendQueue' = Append(sendQueue, n) /\ write' = [n |-> n, at |-> "polling", result |-> "none"]
  <2>1. sendQueue' = <<n>> /\ cq' = <<>>
    BY <1>1, <1>2 DEF BeginWrite
  <2> QED BY Zenon, <1>1, <1>2, <2>1 DEF OnlyThisWrite
<1>3. CASE write' = [n |-> n, at |-> "idle", result |-> "failed"]
  BY Zenon, <1>1, <1>3 DEF OnlyThisWrite
<1> QED BY Zenon, <1>2, <1>3 DEF BeginWrite

\* The polling loop takes the completion of its own write, the only one there is.
LEMMA PollCqKeeps ==
    ASSUME OnlyThisWrite, PollCq
    PROVE  OnlyThisWrite'
<1>1. write.n \in Nat /\ remote' = remote /\ sendQueue' = sendQueue
  BY Zenon DEF OnlyThisWrite, PollCq
<1>2. CASE write' = Return("failed")
  BY Zenon, <1>1, <1>2 DEF OnlyThisWrite, Return
<1>3. CASE /\ cq # <<>> /\ cq' = Tail(cq) /\ Head(cq).ok /\ write' = Return("ok")
  <2>1. cq = <<[n |-> write.n, ok |-> TRUE]>> /\ sendQueue = <<>> /\ write.n \in remote
    BY <1>3 DEF OnlyThisWrite, PollCq
  <2>2. cq' = <<>>
    BY <1>3, <2>1
  <2> QED BY Zenon, <1>1, <1>3, <2>1, <2>2 DEF OnlyThisWrite, Return
<1> QED BY Zenon, <1>2, <1>3 DEF PollCq

\* The device completes the write in progress, or one that has been given up.
LEMMA CompleteKeeps ==
    ASSUME OnlyThisWrite, Complete
    PROVE  OnlyThisWrite'
<1>1. write' = write /\ remote \subseteq remote'
  BY Zenon DEF Complete
<1>2. CASE write.at = "polling"
  <2>1. sendQueue = <<write.n>> /\ cq = <<>>
    BY Zenon, <1>2 DEF OnlyThisWrite, Complete
  <2>2. sendQueue' = <<>> /\ Head(sendQueue) = write.n
    BY <2>1 DEF Complete
  <2>3. CASE cq' = Append(cq, [n |-> Head(sendQueue), ok |-> TRUE]) /\ remote' = remote \cup {Head(sendQueue)}
    BY SMTT(60), <1>1, <1>2, <2>1, <2>2, <2>3 DEF OnlyThisWrite
  <2>4. CASE cq' = Append(cq, [n |-> Head(sendQueue), ok |-> FALSE])
    BY <1>1, <1>2, <2>1, <2>2, <2>4 DEF OnlyThisWrite
  <2> QED BY Zenon, <2>3, <2>4 DEF Complete
<1>3. CASE write.at = "idle"
  BY Zenon, <1>1, <1>3 DEF OnlyThisWrite, Complete
<1> QED BY Zenon, <1>2, <1>3 DEF OnlyThisWrite

\* A success is of the write that returned it: for any number of writes, and whenever
\* Shutdown() comes between.
THEOREM SuccessfulWritesAreDelivered == ChannelSpec => []SuccessIsDelivered
<1>1. OnlyThisWrite => SuccessIsDelivered
  BY Zenon DEF OnlyThisWrite, SuccessIsDelivered
<1>2. OnlyThisWrite /\ [ChannelNext]_channelVars => OnlyThisWrite'
  <2> SUFFICES ASSUME OnlyThisWrite, [ChannelNext]_channelVars
               PROVE  OnlyThisWrite'
    OBVIOUS
  <2>1. CASE PollFails
    BY Zenon, <2>1 DEF PollFails, OnlyThisWrite, Return
  <2>2. CASE BeginShutdown \/ MoveQpToError \/ UNCHANGED channelVars
    BY Zenon, <2>2 DEF BeginShutdown, MoveQpToError, channelVars, OnlyThisWrite
  <2> QED BY Zenon, <2>1, <2>2, BeginWriteKeeps, PollCqKeeps, CompleteKeeps DEF ChannelNext
<1> QED BY <1>1, <1>2, ChannelInitOK, PTL DEF ChannelSpec

-----------------------------------------------------------------------------
\* The table of registered memory.

MemorySpec == MemoryInit /\ [][MemoryNext]_memoryVars

Regions(b) == registered_regions_[b].device_mrs

\* The entry of base b has an MR of its own range on each device, none of which has been
\* overwritten.
RegionOK(b) ==
    /\ registered_regions_[b].length \in Nat
    /\ \A d \in DeviceNames : \E m \in Regions(b) : m.device = d
    /\ \A m \in Regions(b) :
         /\ m.base = b /\ m.length = registered_regions_[b].length
         /\ m.key \in 1..(nextKey - 1) /\ m \notin replaced

\* The devices hold the MRs of the table and the overwritten ones.
MrsAreHeld == \A m : m \in mrs <=> m \in replaced \/ \E b \in Bases : m \in Regions(b)

\* Besides, no MR has a key that is still to be given out.
MemoryInv ==
    /\ nextKey \in Nat \ {0}
    /\ Bases \subseteq 1..MaxAddr
    /\ \A b \in Bases : RegionOK(b)
    /\ \A m \in replaced : m.key \in 1..(nextKey - 1)
    /\ MrsAreHeld

\* What registering makes is new.
LEMMA NewMrsAreNew ==
    ASSUME MemoryInv, NEW addr \in 1..MaxAddr, NEW length \in Lengths, NEW n \in 0..Len(Devices)
    PROVE  /\ \A m \in NewMrs(addr, length, n) :
                /\ m.base = addr /\ m.length = length /\ m.key \in nextKey..(nextKey + n - 1)
                /\ m \notin replaced
                /\ \A b \in Bases : m \notin Regions(b)
                /\ m \notin mrs
           /\ n = Len(Devices) =>
                \A d \in DeviceNames : \E m \in NewMrs(addr, length, n) : m.device = d
<1> USE MemoryAssumption
<1>0. nextKey \in Nat \ {0} /\ Len(Devices) \in Nat /\ n \in Nat
  BY DEF MemoryInv
<1>1. ASSUME NEW m \in NewMrs(addr, length, n)
      PROVE  m.base = addr /\ m.length = length /\ m.key \in nextKey..(nextKey + n - 1)
  <2>1. PICK k \in 1..n : m = [device |-> Devices[k], base |-> addr, length |-> length, key |-> nextKey + k - 1]
    BY Zenon, <1>1 DEF NewMrs
  <2> QED BY <2>1, <1>0
<1>2. ASSUME NEW m \in NewMrs(addr, length, n)
      PROVE  m \notin replaced /\ (\A b \in Bases : m \notin Regions(b)) /\ m \notin mrs
  <2>1. ~(m.key \in 1..(nextKey - 1))
    BY <1>0, <1>1, <1>2
  <2> QED BY Zenon, <2>1 DEF MemoryInv, RegionOK, MrsAreHeld
<1>3. ASSUME n = Len(Devices), NEW d \in DeviceNames
      PROVE  \E m \in NewMrs(addr, length, n) : m.device = d
  <2>1. PICK k \in 1..n : d = Devices[k]
    BY Zenon, <1>3 DEF DeviceNames
  <2> DEFINE m == [device |-> Devices[k], base |-> addr, length |-> length, key |-> nextKey + k - 1]
  <2>2. m \in NewMrs(addr, length, n) /\ m.device = d
    BY Zenon, <2>1 DEF NewMrs
  <2> QED BY Zenon, <2>2
<1> QED BY Zenon, <1>1, <1>2, <1>3

\* The constructor starts with an empty table.
LEMMA MemoryInitOK == MemoryInit => MemoryInv
BY DEF MemoryInit, MemoryInv, MrsAreHeld, Bases

\* A registration that fails on a device takes back what it made; one that succeeds
\* moves the MRs it overwrites to `replaced`.
LEMMA RegisterKeeps ==
    ASSUME MemoryInv, NEW addr \in 1..MaxAddr, NEW length \in Lengths, RegisterMemory(addr, length)
    PROVE  MemoryInv'
<1> USE MemoryAssumption
<1>1. PICK n \in 0..Len(Devices) :
         LET made == NewMrs(addr, length, n)
         IN /\ nextKey' = nextKey + n
            /\ IF n < Len(Devices)
               THEN mrs' = (mrs \cup made) \ made /\ UNCHANGED <<registered_regions_, replaced>>
               ELSE /\ mrs' = mrs \cup made
                    /\ registered_regions_' = Overwrite(registered_regions_, addr,
                                               [length |-> length, device_mrs |-> made])
                    /\ replaced' = replaced \cup
                         (IF addr \in Bases THEN registered_regions_[addr].device_mrs ELSE {})
  BY Zenon DEF RegisterMemory
<1> DEFINE made == NewMrs(addr, length, n)
<1>2. nextKey \in Nat \ {0} /\ n \in Nat /\ nextKey' = nextKey + n /\ nextKey' \in Nat \ {0}
  BY <1>1 DEF MemoryInv
<1>3. \A k \in 1..(nextKey - 1) : k \in 1..(nextKey' - 1)
  BY <1>2
<1>4. \A m \in made : m.base = addr /\ m.length = length /\ m.key \in 1..(nextKey' - 1)
                      /\ m \notin replaced /\ m \notin mrs /\ \A b \in Bases : m \notin Regions(b)
  BY <1>2, NewMrsAreNew
<1>5. n = Len(Devices) => \A d \in DeviceNames : \E m \in made : m.device = d
  BY NewMrsAreNew
<1> HIDE DEF made
<1>6. CASE n < Len(Devices)
  <2>1. mrs' = (mrs \cup made) \ made /\ UNCHANGED <<registered_regions_, replaced>>
    BY Zenon, <1>1, <1>6 DEF made
  <2>2. \A m : m \in mrs' <=> m \in mrs
    BY Zenon, <1>4, <2>1
  <2>3. Bases' = Bases /\ \A b : Regions(b)' = Regions(b)
    BY Zenon, <2>1 DEF Bases, Regions
  <2>4. ASSUME NEW b \in Bases' PROVE RegionOK(b)'
    <3>1. RegionOK(b)
      BY Zenon, <2>3 DEF MemoryInv
    <3> QED BY Zenon, <1>3, <2>1, <2>3, <3>1 DEF RegionOK, DeviceNames
  <2>5. MrsAreHeld'
    BY Zenon, <2>1, <2>2, <2>3 DEF MemoryInv, MrsAreHeld
  <2> QED BY Zenon, <1>2, <1>3, <2>1, <2>3, <2>4, <2>5 DEF MemoryInv
<1>7. CASE n = Len(Devices)
  <2> DEFINE region == [length |-> length, device_mrs |-> made]
  <2>1. /\ mrs' = mrs \cup made
        /\ registered_regions_' = Overwrite(registered_regions_, addr, region)
        /\ replaced' = replaced \cup (IF addr \in Bases THEN Regions(addr) ELSE {})
    BY <1>1, <1>7 DEF made, Regions
  <2>2. /\ Bases' = Bases \cup {addr}
        /\ Regions(addr)' = made /\ registered_regions_'[addr].length = length
        /\ \A b \in Bases \ {addr} : registered_regions_'[b] = registered_regions_[b]
    BY ZenonT(60), <2>1 DEF Overwrite, Bases, Regions
  <2>3. \A b \in Bases \ {addr} : Regions(b)' = Regions(b)
    BY Zenon, <2>2 DEF Regions
  <2>4. Bases' \subseteq 1..MaxAddr
    BY Zenon, <2>2 DEF MemoryInv
  <2>5. \A m \in replaced' : m.key \in 1..(nextKey' - 1)
    <3>1. (\A m \in replaced : m.key \in 1..(nextKey - 1)) /\ (addr \in Bases => RegionOK(addr))
      BY Zenon DEF MemoryInv
    <3> QED BY Zenon, <1>3, <2>1, <3>1 DEF RegionOK
  <2>6. ASSUME NEW b \in Bases'
        PROVE  RegionOK(b)'
    <3>1. CASE b = addr
      <4>1. registered_regions_'[b].length \in Nat
        BY <2>2, <3>1 DEF Lengths
      <4>2. \A m \in made : m \notin replaced'
        BY Zenon, <1>4, <2>1
      <4> QED BY Zenon, <1>4, <1>5, <1>7, <2>2, <3>1, <4>1, <4>2 DEF RegionOK, DeviceNames
    <3>2. CASE b # addr
      <4>1. b \in Bases /\ Regions(b)' = Regions(b) /\ registered_regions_'[b] = registered_regions_[b]
        BY Zenon, <2>2, <2>3, <3>2
      <4>2. RegionOK(b) /\ (addr \in Bases => RegionOK(addr))
        BY Zenon, <4>1 DEF MemoryInv
      <4>3. \A m \in Regions(b) : m.base # addr /\ m \notin replaced
        BY <3>2, <4>2 DEF RegionOK
      <4>4. \A m \in Regions(b) : m \notin replaced'
        BY Zenon, <2>1, <4>2, <4>3 DEF RegionOK
      <4> QED BY <1>3, <4>1, <4>2, <4>4 DEF RegionOK, DeviceNames
    <3> QED BY Zenon, <3>1, <3>2
  <2>7. ASSUME NEW m PROVE m \in mrs' <=> m \in replaced' \/ \E b \in Bases' : m \in Regions(b)'
    <3>1. m \in mrs <=> m \in replaced \/ \E b \in Bases : m \in Regions(b)
      BY Zenon DEF MemoryInv, MrsAreHeld
    <3>2. (\E b \in Bases' : m \in Regions(b)') <=> m \in made \/ \E b \in Bases \ {addr} : m \in Regions(b)
      BY Zenon, <2>2, <2>3
    <3>3. (\E b \in Bases : m \in Regions(b))
            <=> (addr \in Bases /\ m \in Regions(addr)) \/ \E b \in Bases \ {addr} : m \in Regions(b)
      BY SMTT(30)
    <3> QED BY Zenon, <2>1, <3>1, <3>2, <3>3
  <2> QED BY ZenonT(60), <1>2, <2>4, <2>5, <2>6, <2>7 DEF MemoryInv, MrsAreHeld, Bases, Regions
<1> QED BY <1>6, <1>7

\* Unregistering takes the MRs of one entry, which are no other entry's.
LEMMA UnregisterKeeps ==
    ASSUME MemoryInv, NEW addr \in 1..MaxAddr, UnregisterMemory(addr)
    PROVE  MemoryInv'
<1>1. addr \in Bases /\ mrs' = mrs \ Regions(addr) /\ nextKey' = nextKey /\ replaced' = replaced
  BY Zenon DEF UnregisterMemory, Regions
<1>2. Bases' = Bases \ {addr} /\ \A b \in Bases' : registered_regions_'[b] = registered_regions_[b]
  BY Zenon DEF UnregisterMemory, Bases
<1>3. \A b \in Bases' : b \in Bases /\ b # addr /\ Regions(b)' = Regions(b)
  BY Zenon, <1>2 DEF Regions
<1>4. ASSUME NEW m PROVE m \in mrs' <=> m \in replaced' \/ \E b \in Bases' : m \in Regions(b)'
  <2>1. m \in Regions(addr) => m.base = addr /\ m \notin replaced
    BY Zenon, <1>1 DEF MemoryInv, RegionOK
  <2>2. \A b \in Bases' : m \in Regions(b) => m \notin Regions(addr)
    <3> TAKE b \in Bases'
    <3>1. m \in Regions(b) => m.base = b
      BY Zenon, <1>3 DEF MemoryInv, RegionOK
    <3> QED BY Zenon, <1>3, <2>1, <3>1
  <2>3. m \in mrs <=> m \in replaced \/ \E b \in Bases : m \in Regions(b)
    BY Zenon DEF MemoryInv, MrsAreHeld
  <2> QED BY Zenon, <1>1, <1>2, <1>3, <2>1, <2>2, <2>3
<1>5. ASSUME NEW b \in Bases' PROVE RegionOK(b)'
  <2>1. RegionOK(b)
    BY Zenon, <1>3 DEF MemoryInv
  <2> QED BY ZenonT(60), <1>1, <1>2, <1>3, <2>1 DEF RegionOK, DeviceNames
<1> QED BY Zenon, <1>1, <1>2, <1>4, <1>5 DEF MemoryInv, MrsAreHeld, Bases, Regions

\* The destructor takes the MRs of every entry.
LEMMA DestroyKeeps == MemoryInv /\ Destroy => MemoryInv'
<1> SUFFICES ASSUME MemoryInv, Destroy PROVE MemoryInv'
  OBVIOUS
<1>1. Bases' = {} /\ nextKey' = nextKey /\ replaced' = replaced
  BY Zenon DEF Destroy, Bases
<1>2. \A m : m \in mrs' <=> m \in mrs /\ ~\E b \in Bases : m \in Regions(b)
  BY Zenon DEF Destroy, Regions
<1>3. ASSUME NEW m PROVE m \in mrs' <=> m \in replaced
  <2>1. \A b \in Bases : m \in Regions(b) => m \notin replaced
    BY Zenon DEF MemoryInv, RegionOK
  <2>2. m \in mrs <=> m \in replaced \/ \E b \in Bases : m \in Regions(b)
    BY Zenon DEF MemoryInv, MrsAreHeld
  <2> QED BY Zenon, <1>2, <2>1, <2>2
<1> QED BY Zenon, <1>1, <1>3 DEF MemoryInv, MrsAreHeld, Bases

\* The invariant holds in every state of the table.
LEMMA MemoryInvHolds == MemorySpec => []MemoryInv
<1>1. MemoryInv /\ UNCHANGED memoryVars => MemoryInv'
  BY DEF MemoryInv, RegionOK, MrsAreHeld, memoryVars, Bases, Regions, DeviceNames
<1>2. MemoryInv /\ [MemoryNext]_memoryVars => MemoryInv'
  BY Zenon, <1>1, RegisterKeeps, UnregisterKeeps, DestroyKeeps DEF MemoryNext
<1> QED BY <1>2, MemoryInitOK, PTL DEF MemorySpec

(* RegisterMemory that fails on a device leaves nothing registered on the devices before it:
   what the devices hold is what the table names, or what a registration of the same base
   with a greater length has overwritten in it. *)
THEOREM RegistrationsRollBack == MemorySpec => []FailedRegistrationsRollBack
<1>1. MemoryInv => FailedRegistrationsRollBack
  <2> SUFFICES ASSUME MemoryInv PROVE FailedRegistrationsRollBack
    OBVIOUS
  <2> DEFINE tabled == UNION {registered_regions_[b].device_mrs : b \in Bases}
  <2>1. \A m : m \in tabled <=> \E b \in Bases : m \in Regions(b)
    BY Zenon DEF Regions
  <2> HIDE DEF tabled
  <2>2. \A m : m \in mrs <=> m \in replaced \/ m \in tabled
    BY <2>1, Zenon DEF MemoryInv, MrsAreHeld
  <2>3. mrs = replaced \cup tabled
    BY Zenon, <2>2
  <2> QED BY <2>3, Zenon DEF tabled, FailedRegistrationsRollBack
<1> QED BY <1>1, MemoryInvHolds, PTL

\* A device of the table has an MR in every region, with a key.
LEMMA MrOfRegion ==
    ASSUME MemoryInv, NEW b \in Bases, NEW d \in DeviceNames
    PROVE  LET m == MrOf(registered_regions_[b], d)
           IN /\ m \in mrs /\ m.device = d /\ m.key \in Nat \ {0}
              /\ m.base = b /\ m.length = registered_regions_[b].length
<1> DEFINE m == MrOf(registered_regions_[b], d)
<1>0. RegionOK(b)
  BY Zenon DEF MemoryInv
<1>1. PICK o \in Regions(b) : o.device = d
  BY Zenon, <1>0 DEF RegionOK
<1>2. m \in Regions(b) /\ m.device = d
  BY Zenon, <1>1 DEF MrOf, Regions
<1> HIDE DEF m
<1>3. m \in mrs /\ m.base = b /\ m.length = registered_regions_[b].length /\ m.key \in 1..(nextKey - 1)
  <2>1. m \in mrs
    BY Zenon, <1>2 DEF MemoryInv, MrsAreHeld
  <2> QED BY Zenon, <1>0, <1>2, <2>1 DEF RegionOK
<1>4. m.key \in Nat \ {0}
  BY <1>3 DEF MemoryInv
<1> QED BY Zenon, <1>2, <1>3, <1>4 DEF m

\* The default key is that of the lowest region.
LEMMA DefaultKeyIsLive ==
    ASSUME MemoryInv, NEW d \in DeviceNames
    PROVE  /\ GetDefaultKey(d) # 0 => \E m \in mrs : m.device = d /\ m.key = GetDefaultKey(d)
           /\ \A b \in Bases : (\A c \in Bases : b <= c) => GetDefaultKey(d) # 0
<1> DEFINE first == {b \in Bases : \A c \in Bases : b <= c}
           base == CHOOSE b \in first : TRUE
<1>1. CASE first = {}
  BY Zenon, <1>1 DEF GetDefaultKey
<1>2. CASE first # {}
  <2>1. base \in Bases
    BY Zenon, <1>2
  <2>2. GetDefaultKey(d) = MrOf(registered_regions_[base], d).key
    BY Zenon, <1>2 DEF GetDefaultKey
  <2> HIDE DEF base
  <2> QED BY <2>1, <2>2, MrOfRegion
<1> QED BY Zenon, <1>1, <1>2

\* A lookup finds the region of the greatest base not above the address, if it covers the
\* range; among regions that do not overlap, the one that covers it has that base.
LEMMA RangeLookup ==
    ASSUME MemoryInv, NEW a \in 1..MaxAddr, NEW l \in Lengths, NEW d \in DeviceNames
    PROVE  LET m == GetMemoryRegion(a, l, d)
           IN /\ m # NoMr => m \in mrs /\ m.base <= a /\ a + l <= m.base + m.length
              /\ /\ \A b, c \in Bases : b # c => ~Overlap(b, c)
                 /\ \E b \in Bases : b <= a /\ a + l <= b + registered_regions_[b].length
                 => m # NoMr
<1> USE MemoryAssumption
<1> DEFINE found == {b \in Bases : /\ b <= a
                                   /\ \A c \in Bases : c <= a => c <= b
                                   /\ a + l <= b + registered_regions_[b].length}
           base == CHOOSE b \in found : TRUE
           m == GetMemoryRegion(a, l, d)
<1>1. Bases \subseteq 1..MaxAddr /\ \A b \in Bases : registered_regions_[b].length \in Nat
  BY Zenon DEF MemoryInv, RegionOK
<1>2. CASE found # {}
  <2>1. base \in Bases /\ base <= a /\ a + l <= base + registered_regions_[base].length
    BY Zenon, <1>2
  <2>2. m = MrOf(registered_regions_[base], d)
    BY Zenon, <1>2 DEF findRegion, GetMemoryRegion
  <2> HIDE DEF base, m
  <2>3. m \in mrs /\ m.key \in Nat \ {0} /\ m.base = base /\ m.length = registered_regions_[base].length
    BY Zenon, <2>1, <2>2, MrOfRegion
  <2>4. m # NoMr
    BY <2>3 DEF NoMr
  <2> QED BY Zenon, <2>1, <2>3, <2>4 DEF m
<1>3. CASE found = {}
  <2>1. findRegion(a, l) = NoRegion
    BY Zenon, <1>3 DEF findRegion
  <2>2. m = NoMr
    BY <2>1 DEF GetMemoryRegion, MrOf, NoRegion
  <2>3. ASSUME NEW b \in Bases, b <= a, a + l <= b + registered_regions_[b].length
        PROVE  \E c \in Bases : c # b /\ Overlap(b, c)
    <3>1. PICK c \in Bases : c <= a /\ ~(c <= b)
      BY Zenon, <1>3, <2>3
    <3>2. /\ b \in Nat /\ c \in Nat /\ a \in Nat /\ l \in Nat \ {0}
          /\ registered_regions_[b].length \in Nat /\ registered_regions_[c].length \in Nat
      BY <1>1 DEF Lengths
    <3>3. PICK n \in Nat, k \in Nat : n = registered_regions_[b].length /\ k = registered_regions_[c].length
      BY Zenon, <3>2
    <3>4. a + l <= b + n
      BY Zenon, <2>3, <3>3
    <3>5. b < c + k /\ c < b + n /\ c # b
      BY SMTT(60), <3>1, <3>2, <3>4
    <3>6. Overlap(b, c)
      BY Zenon, <3>3, <3>5 DEF Overlap
    <3> QED BY Zenon, <3>5, <3>6
  <2> QED BY Zenon, <2>2, <2>3
<1> QED BY Zenon, <1>2, <1>3

(* GetLKey, GetRKey and their defaults name MRs that a device still has, and one for a range
   covers it; if the regions do not overlap, every range inside one is found. *)
THEOREM KeysAreRight == MemorySpec => []LookupsAreRight
<1>1. MemoryInv => LookupsAreRight
  BY Zenon, DefaultKeyIsLive, RangeLookup DEF LookupsAreRight
<1> QED BY <1>1, MemoryInvHolds, PTL

=============================================================================
