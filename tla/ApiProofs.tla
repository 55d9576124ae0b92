----------------------------- MODULE ApiProofs ------------------------------
(***************************************************************************)
(* What callers of the library share: the pool of connections, the cache of *)
(* routes and the rate limiter, for any number of threads, descriptors, keys*)
(* and addresses, any sizes and any rate.                                   *)
(***************************************************************************)
EXTENDS ConnPool, RouteCache, RateLimiter, TLAPS

\* The pool of connections.

PoolSpec == PoolInit /\ [][PoolNext]_poolVars

\* A family of stacks of descriptors.
Stacks == UNION {[S -> Seq(Fds)] : S \in SUBSET Keys}

\* What one thread is doing.
CallerOK(r) ==
    /\ r \in [at : {"idle", "dial", "connecting", "holding", "closing"}, key : Keys \cup {NoKey},
              fd : Fds \cup {NoFd}, psp : BOOLEAN, attempt : Nat, addr : Nat \ {0},
              last : {"ok", "deadline", "error"}, rest : Stacks]
    /\ r.at \in {"connecting", "holding"} <=> r.fd \in Fds
    /\ r.at \in {"dial", "connecting", "holding"} => r.key \in Keys
    /\ r.at # "closing" => r.rest = <<>>

\* Whether a family of stacks has a descriptor, and whether it has none twice.
In(p, fd) == \E k \in DOMAIN p : \E i \in DOMAIN p[k] : p[k][i] = fd
Once(p) ==
    \A k, m \in DOMAIN p : \A i \in DOMAIN p[k], j \in DOMAIN p[m] : p[k][i] = p[m][j] => k = m /\ i = j

\* Whether a thread has a descriptor, to use or to close; whether it or the pool has it.
HeldBy(r, fd) == r.fd = fd \/ In(r.rest, fd)
Mine(p, r, fd) == In(p, fd) \/ HeldBy(r, fd)

\* No descriptor is in two places.
Unique(p, c) ==
    /\ Once(p)
    /\ \A t \in Callers : Once(c[t].rest)
    /\ \A fd \in Fds : \A t \in Callers : ~(In(p, fd) /\ HeldBy(c[t], fd))
    /\ \A fd \in Fds : \A t, u \in Callers : HeldBy(c[t], fd) /\ HeldBy(c[u], fd) => t = u

\* The descriptors in the pool or with a thread are the open ones.
Accounted(p, c, o) ==
    \A fd \in Fds : fd \in o <=> In(p, fd) \/ \E t \in Callers : HeldBy(c[t], fd)

\* Those that are lent, and those in the pool, are connections to the right peer.
Lent(r, l, tm) == r.at = "holding" => l[r.fd] = PeerOf(r.key) /\ r.fd \notin tm
Waiting(p, l, tm) ==
    \A k \in DOMAIN p : \A i \in DOMAIN p[k] : l[p[k][i]] = PeerOf(k) /\ p[k][i] \notin tm

Typed(p, c, o, l, tm) ==
    /\ DOMAIN p \subseteq Keys /\ \A k \in DOMAIN p : p[k] \in Seq(Fds)
    /\ o \subseteq Fds /\ tm \subseteq o
    /\ l \in [Fds -> Peers \cup {NoKey}]
    /\ DOMAIN c = Callers /\ c = [t \in Callers |-> c[t]]
    /\ \A t \in Callers : CallerOK(c[t])

Owned(p, c, o, l, tm) ==
    /\ Typed(p, c, o, l, tm)
    /\ Unique(p, c) /\ Accounted(p, c, o)
    /\ Waiting(p, l, tm) /\ \A t \in Callers : Lent(c[t], l, tm)

PoolInv ==
    /\ Owned(pool, caller, open, link, timed)
    /\ stop \in BOOLEAN /\ calls \in 0 .. MaxCalls /\ readable \subseteq open
    /\ stop => DOMAIN pool = {}

\* An empty family has no descriptor.
LEMMA EmptyHasNone == ASSUME NEW p, DOMAIN p = {} PROVE Once(p) /\ \A fd : ~In(p, fd)
BY Zenon DEF Once, In

\* A part of a family without repetitions has none.
LEMMA SubFamilyOnce ==
    ASSUME NEW p, NEW q, Once(p), \A k \in DOMAIN q : k \in DOMAIN p /\ q[k] = p[k]
    PROVE  Once(q)
<1> SUFFICES ASSUME NEW k \in DOMAIN q, NEW m \in DOMAIN q, NEW i \in DOMAIN q[k], NEW j \in DOMAIN q[m],
                    q[k][i] = q[m][j]
             PROVE  k = m /\ i = j
  BY Zenon DEF Once
<1>1. k \in DOMAIN p /\ m \in DOMAIN p /\ q[k] = p[k] /\ q[m] = p[m]
  OBVIOUS
<1>2. i \in DOMAIN p[k] /\ j \in DOMAIN p[m] /\ p[k][i] = p[m][j]
  BY Zenon, <1>1
<1> QED BY Zenon, <1>1, <1>2 DEF Once

\* A thread between calls holds nothing.
LEMMA IdleOK ==
    /\ CallerOK(IdleCaller) /\ IdleCaller.at = "idle" /\ IdleCaller.fd = NoFd /\ IdleCaller.rest = <<>>
    /\ Once(IdleCaller.rest) /\ \A fd \in Fds : ~HeldBy(IdleCaller, fd)
<1>1. IdleCaller.at = "idle" /\ IdleCaller.fd = NoFd /\ IdleCaller.rest = <<>> /\ DOMAIN IdleCaller.rest = {}
  BY DEF IdleCaller
<1>2. <<>> = [k \in {} |-> <<>>]
  OBVIOUS
<1>3. <<>> \in [{} -> Seq(Fds)]
  BY Zenon, <1>2
<1>4. <<>> \in Stacks
  BY Zenon, <1>3 DEF Stacks
<1>5. CallerOK(IdleCaller)
  BY <1>1, <1>4, PoolAssumption DEF CallerOK, IdleCaller
<1>6. \A fd \in Fds : ~HeldBy(IdleCaller, fd)
  BY Zenon, <1>1, PoolAssumption DEF HeldBy, In
<1>7. Once(IdleCaller.rest)
  BY Zenon, <1>1, EmptyHasNone
<1> QED BY Zenon, <1>1, <1>5, <1>6, <1>7

\* A thread that is not closing holds at most its descriptor; with none it holds nothing.
LEMMA PlainCaller ==
    ASSUME NEW r, CallerOK(r), r.at # "closing", NEW fd \in Fds
    PROVE  /\ HeldBy(r, fd) <=> r.fd = fd
           /\ Once(r.rest)
           /\ r.at \in {"idle", "dial"} => ~HeldBy(r, fd)
<1>1. DOMAIN r.rest = {} /\ r.rest = <<>>
  BY DEF CallerOK
<1>2. ~In(r.rest, fd) /\ Once(r.rest)
  BY Zenon, <1>1, EmptyHasNone
<1>3. r.at \in {"idle", "dial"} => r.fd # fd
  BY Zenon DEF CallerOK
<1> QED BY Zenon, <1>2, <1>3 DEF HeldBy

\* What a step of one thread has to show: the pool and that thread together have
\* what they had, less what was closed, plus what was opened, each once; and what the
\* other threads have is as it was.
OwnStepOK(p, c, o, l, tm, t, p2, c2, o2, l2, tm2) ==
    /\ Typed(p2, c2, o2, l2, tm2)
    /\ \A u \in Callers : u # t => c2[u] = c[u]
    /\ Once(p2) /\ Once(c2[t].rest)
    /\ \A fd \in Fds : ~(In(p2, fd) /\ HeldBy(c2[t], fd))
    /\ \A fd \in Fds : Mine(p2, c2[t], fd) => Mine(p, c[t], fd) \/ fd \notin o
    /\ \A fd \in Fds : fd \in o2 <=> Mine(p2, c2[t], fd) \/ (fd \in o /\ ~Mine(p, c[t], fd))
    /\ \A fd \in Fds : fd \in o /\ ~Mine(p, c[t], fd) => l2[fd] = l[fd] /\ (fd \in tm2 => fd \in tm)
    /\ Waiting(p2, l2, tm2) /\ Lent(c2[t], l2, tm2)

\* A step of one thread keeps every descriptor owned once if what the thread and the pool
\* have between them changes as OwnStepOK says.
LEMMA OwnStep ==
    ASSUME NEW p, NEW c, NEW o, NEW l, NEW tm, Owned(p, c, o, l, tm), NEW t \in Callers,
           NEW p2, NEW c2, NEW o2, NEW l2, NEW tm2, OwnStepOK(p, c, o, l, tm, t, p2, c2, o2, l2, tm2)
    PROVE  Owned(p2, c2, o2, l2, tm2)
<1> USE DEF OwnStepOK
<1>0. Unique(p, c) /\ Accounted(p, c, o) /\ (\A u \in Callers : Lent(c[u], l, tm)) /\ Typed(p, c, o, l, tm)
  BY Zenon DEF Owned
<1>1. \A u \in Callers : u # t => \A fd \in Fds : HeldBy(c[u], fd) =>
         fd \in o /\ ~Mine(p, c[t], fd) /\ ~Mine(p2, c2[t], fd)
  BY <1>0, Zenon DEF Unique, Accounted, Mine
<1>2. Unique(p2, c2)
  <2>1. \A u \in Callers : Once(c2[u].rest)
    BY Zenon, <1>0 DEF Unique
  <2>2. \A fd \in Fds : \A u \in Callers : ~(In(p2, fd) /\ HeldBy(c2[u], fd))
    BY <1>1, Zenon DEF Mine
  <2>3. ASSUME NEW fd \in Fds, NEW u \in Callers, NEW v \in Callers, HeldBy(c2[u], fd), HeldBy(c2[v], fd)
        PROVE  u = v
    <3>1. CASE u = t
      BY <1>1, <2>3, <3>1, Zenon DEF Mine
    <3>2. CASE u # t /\ v = t
      BY <1>1, <2>3, <3>2, Zenon DEF Mine
    <3>3. CASE u # t /\ v # t
      BY <1>0, <2>3, <3>3, Zenon DEF Unique
    <3> QED BY Zenon, <3>1, <3>2, <3>3
  <2> QED BY Zenon, <2>1, <2>2, <2>3 DEF Unique
<1>3. Accounted(p2, c2, o2)
  <2> SUFFICES ASSUME NEW fd \in Fds
               PROVE  fd \in o2 <=> In(p2, fd) \/ \E u \in Callers : HeldBy(c2[u], fd)
    BY Zenon DEF Accounted
  <2>1. fd \in o <=> In(p, fd) \/ \E u \in Callers : HeldBy(c[u], fd)
    BY Zenon, <1>0 DEF Accounted
  <2>2. ASSUME fd \in o, ~Mine(p, c[t], fd) PROVE \E u \in Callers : HeldBy(c2[u], fd)
    BY <2>1, <2>2, Zenon DEF Mine
  <2>3. ASSUME NEW u \in Callers, HeldBy(c2[u], fd) PROVE fd \in o2
    <3>1. CASE u = t
      BY Zenon, <2>3, <3>1 DEF Mine
    <3>2. CASE u # t
      <4>1. HeldBy(c[u], fd)
        BY Zenon, <2>3, <3>2
      <4> QED BY Zenon, <1>1, <3>2, <4>1
    <3> QED BY Zenon, <3>1, <3>2
  <2> QED BY <2>2, <2>3, Zenon DEF Mine
<1>4. ASSUME NEW u \in Callers PROVE Lent(c2[u], l2, tm2)
  <2>1. CASE u = t
    BY Zenon, <2>1
  <2>2. CASE u # t /\ c[u].at = "holding"
    <3>1. c[u].fd \in Fds /\ HeldBy(c[u], c[u].fd)
      BY Zenon, <1>0, <2>2 DEF Typed, CallerOK, HeldBy
    <3>2. l2[c[u].fd] = l[c[u].fd] /\ (c[u].fd \in tm2 => c[u].fd \in tm)
      BY Zenon, <1>1, <2>2, <3>1
    <3>3. l[c[u].fd] = PeerOf(c[u].key) /\ c[u].fd \notin tm
      BY Zenon, <1>0, <2>2 DEF Lent
    <3> QED BY Zenon, <2>2, <3>2, <3>3 DEF Lent
  <2>3. CASE u # t /\ c[u].at # "holding"
    BY Zenon, <2>3 DEF Lent
  <2> QED BY Zenon, <2>1, <2>2, <2>3
<1> QED BY Zenon, <1>2, <1>3, <1>4 DEF Owned

\* What is true of the thread that takes a step, and of a state in which only it moved.
LEMMA CallerTyped ==
    ASSUME PoolInv, NEW t \in Callers, NEW r, caller' = [caller EXCEPT ![t] = r], CallerOK(r)
    PROVE  /\ caller'[t] = r /\ \A u \in Callers : u # t => caller'[u] = caller[u]
           /\ DOMAIN caller' = Callers /\ caller' = [u \in Callers |-> caller'[u]]
           /\ \A u \in Callers : CallerOK(caller'[u])
<1>1. DOMAIN caller = Callers /\ \A u \in Callers : CallerOK(caller[u])
  BY Zenon DEF PoolInv, Owned, Typed
<1>2. caller' = [u \in Callers |-> IF u = t THEN r ELSE caller[u]]
  BY Zenon, <1>1
<1>3. caller'[t] = r /\ \A u \in Callers : u # t => caller'[u] = caller[u]
  BY Zenon, <1>2
<1>4. DOMAIN caller' = Callers /\ caller' = [u \in Callers |-> caller'[u]]
  BY Zenon, <1>2
<1> QED BY Zenon, <1>1, <1>3, <1>4

\* Steps of a dialling thread that open and close nothing.
LEMMA CallerMoves ==
    ASSUME PoolInv, NEW t \in Callers, NEW r, caller' = [caller EXCEPT ![t] = r], CallerOK(r),
           caller[t].at # "closing", r.at # "closing", r.fd = caller[t].fd, r.at # "holding",
           UNCHANGED <<pool, open, link, timed>>
    PROVE  Owned(pool, caller, open, link, timed)'
<1>0. Owned(pool, caller, open, link, timed) /\ Typed(pool, caller, open, link, timed) /\ CallerOK(caller[t])
  BY Zenon DEF PoolInv, Owned, Typed
<1>1. Typed(pool, caller', open, link, timed) /\ caller'[t] = r /\ \A u \in Callers : u # t => caller'[u] = caller[u]
  BY Zenon, <1>0, CallerTyped DEF Typed
<1>2. \A fd \in Fds : HeldBy(r, fd) <=> HeldBy(caller[t], fd)
  BY <1>0, PlainCaller
<1>3. Unique(pool, caller) /\ Accounted(pool, caller, open) /\ Waiting(pool, link, timed)
  BY Zenon, <1>0 DEF Owned
<1>4. Once(r.rest)
  BY EmptyHasNone DEF CallerOK
<1>5. \A u \in Callers : \A fd \in Fds : HeldBy(caller'[u], fd) <=> HeldBy(caller[u], fd)
  BY Zenon, <1>1, <1>2
<1>6. Unique(pool, caller')
  <2>1. \A u \in Callers : Once(caller'[u].rest)
    BY Zenon, <1>1, <1>3, <1>4 DEF Unique
  <2> QED BY <1>3, <1>5, <2>1, Zenon DEF Unique
<1>7. Accounted(pool, caller', open)
  BY <1>3, <1>5, Zenon DEF Accounted
<1>8. \A u \in Callers : Lent(caller'[u], link, timed)
  BY Zenon, <1>0, <1>1 DEF Owned, Lent
<1>9. Owned(pool, caller', open, link, timed)
  BY Zenon, <1>1, <1>3, <1>6, <1>7, <1>8 DEF Owned
<1> QED BY Zenon, <1>9

\* socket() failed: nothing is held.
LEMMA SocketFailsKeeps == ASSUME PoolInv, NEW t \in Callers, SocketFails(t) PROVE PoolInv'
<1>1. CallerOK(caller[t]) /\ caller[t].at = "dial"
  BY Zenon DEF PoolInv, Owned, Typed, SocketFails, HasAddress
<1>2. DOMAIN caller = Callers
  BY Zenon DEF PoolInv, Owned, Typed
<1> DEFINE r == [caller[t] EXCEPT !.addr = @ + 1]
<1>3. caller' = [caller EXCEPT ![t] = r]
  BY Zenon DEF SocketFails
<1>4. CallerOK(r) /\ r.at = "dial" /\ r.fd = caller[t].fd
  BY <1>1 DEF CallerOK
<1> HIDE DEF r
<1>5. Owned(pool, caller, open, link, timed)'
  BY Zenon, <1>1, <1>3, <1>4, CallerMoves DEF SocketFails
<1> QED BY Zenon, <1>5 DEF PoolInv, SocketFails

\* Between two attempts of connectToPeer nothing is held.
LEMMA RetryKeeps == ASSUME PoolInv, NEW t \in Callers, RetryOrGiveUp(t) PROVE PoolInv'
<1>1. CallerOK(caller[t]) /\ caller[t].at = "dial"
  BY Zenon DEF PoolInv, Owned, Typed, RetryOrGiveUp
<1>2. caller[t].fd = NoFd
  BY Zenon, <1>1 DEF CallerOK
<1> DEFINE q == [caller[t] EXCEPT !.attempt = @ + 1, !.addr = 1]
<1>3. caller' = [caller EXCEPT ![t] = q] \/ caller' = [caller EXCEPT ![t] = IdleCaller]
  BY Zenon DEF RetryOrGiveUp
<1>4. CallerOK(q) /\ q.at = "dial" /\ q.fd = caller[t].fd
  <2>1. /\ q.at = "dial" /\ q.fd = caller[t].fd /\ q.key = caller[t].key /\ q.rest = caller[t].rest
        /\ q.attempt = caller[t].attempt + 1 /\ q.addr = 1 /\ q.last = caller[t].last /\ q.psp = caller[t].psp
    BY Zenon, <1>1 DEF CallerOK
  <2>2. caller[t].attempt + 1 \in Nat /\ 1 \in Nat \ {0}
    BY <1>1 DEF CallerOK
  <2>3. q \in [at : {"idle", "dial", "connecting", "holding", "closing"}, key : Keys \cup {NoKey},
              fd : Fds \cup {NoFd}, psp : BOOLEAN, attempt : Nat, addr : Nat \ {0},
              last : {"ok", "deadline", "error"}, rest : Stacks]
    BY Zenon, <1>1, <2>2 DEF CallerOK
  <2> QED BY Zenon, <1>1, <2>1, <2>3 DEF CallerOK
<1> HIDE DEF q
<1>5. PICK r \in {q, IdleCaller} : caller' = [caller EXCEPT ![t] = r]
  BY Zenon, <1>3
<1>6. CallerOK(r) /\ r.at \in {"dial", "idle"} /\ r.fd = caller[t].fd
  BY Zenon, <1>2, <1>4, <1>5, IdleOK
<1>7. Owned(pool, caller, open, link, timed)'
  BY Zenon, <1>1, <1>5, <1>6, CallerMoves DEF RetryOrGiveUp
<1> QED BY Zenon, <1>7 DEF PoolInv, RetryOrGiveUp

\* A descriptor that the kernel hands out is in no place yet.
LEMMA OpenSocketKeeps == ASSUME PoolInv, NEW t \in Callers, NEW fd \in Fds, OpenSocket(t, fd) PROVE PoolInv'
<1>0. Owned(pool, caller, open, link, timed) /\ Typed(pool, caller, open, link, timed) /\ CallerOK(caller[t])
  BY Zenon DEF PoolInv, Owned, Typed
<1>1. caller[t].at = "dial" /\ fd \notin open
  BY Zenon DEF OpenSocket, HasAddress
<1> DEFINE r == [caller[t] EXCEPT !.at = "connecting", !.fd = fd]
<1>2. caller' = [caller EXCEPT ![t] = r]
  BY Zenon DEF OpenSocket
<1>3. CallerOK(r) /\ r.at = "connecting" /\ r.fd = fd
  BY Zenon, <1>0, <1>1 DEF CallerOK
<1> HIDE DEF r
<1>4. open' = open \cup {fd} /\ timed' = timed \cup {fd} /\ pool' = pool /\ link' = link
  BY Zenon DEF OpenSocket
<1>5. Typed(pool, caller', open', link, timed') /\ caller'[t] = r /\ \A u \in Callers : u # t => caller'[u] = caller[u]
  BY Zenon, <1>0, <1>2, <1>3, <1>4, CallerTyped DEF Typed
<1>6. Unique(pool, caller) /\ Accounted(pool, caller, open) /\ Waiting(pool, link, timed)
  BY Zenon, <1>0 DEF Owned
<1>7. Once(r.rest) /\ \A f \in Fds : HeldBy(r, f) <=> f = fd
  BY Zenon, <1>3, PlainCaller
<1>8. \A f \in Fds : ~HeldBy(caller[t], f)
  BY Zenon, <1>0, <1>1, PlainCaller
<1>9. ~In(pool, fd) /\ \A f \in Fds : In(pool, f) => f \in open
  BY <1>1, <1>6, Zenon DEF Accounted
<1>10. Waiting(pool, link, timed')
  <2>1. \A k \in DOMAIN pool : \A i \in DOMAIN pool[k] : pool[k][i] # fd
    BY Zenon, <1>9 DEF In
  <2> QED BY Zenon, <1>4, <1>6, <2>1 DEF Waiting
<1>11. Lent(r, link, timed')
  BY Zenon, <1>3 DEF Lent
<1>12. Once(pool)
  BY Zenon, <1>6 DEF Unique
<1>13. \A f \in Fds : (Mine(pool, r, f) <=> In(pool, f) \/ f = fd) /\ (Mine(pool, caller[t], f) <=> In(pool, f))
  BY Zenon, <1>7, <1>8 DEF Mine
<1>14. Owned(pool, caller', open', link, timed')
  <2>1. \A f \in Fds : ~(In(pool, f) /\ HeldBy(r, f))
    BY Zenon, <1>7, <1>9
  <2>2. \A f \in Fds : f \in open' <=> Mine(pool, r, f) \/ (f \in open /\ ~Mine(pool, caller[t], f))
    BY Zenon, <1>4, <1>9, <1>13
  <2>3. \A f \in Fds : Mine(pool, r, f) => Mine(pool, caller[t], f) \/ f \notin open
    BY Zenon, <1>1, <1>13
  <2>4. \A f \in Fds : f \in open /\ ~Mine(pool, caller[t], f) => link[f] = link[f] /\ (f \in timed' => f \in timed)
    BY Zenon, <1>1, <1>4
  <2>5. OwnStepOK(pool, caller, open, link, timed, t, pool, caller', open', link, timed')
    BY Zenon, <1>5, <1>7, <1>10, <1>11, <1>12, <2>1, <2>2, <2>3, <2>4 DEF OwnStepOK
  <2> QED BY Zenon, <1>0, <2>5, OwnStep
<1> QED BY Zenon, <1>4, <1>14 DEF PoolInv, OpenSocket

\* CloseAll takes its descriptors away and leaves the others as they were.
LEMMA CloseFacts ==
    ASSUME PoolInv, NEW X, CloseAll(X)
    PROVE  /\ open' \subseteq Fds /\ timed' \subseteq open' /\ readable' \subseteq open'
           /\ link' \in [Fds -> Peers \cup {NoKey}]
           /\ \A fd \in Fds : fd \in open' <=> fd \in open /\ fd \notin X
           /\ \A fd \in Fds : fd \notin X => link'[fd] = link[fd] /\ (fd \in timed' <=> fd \in timed)
BY Zenon DEF PoolInv, Owned, Typed, CloseAll

\* What the pool and the thread that moves have is what they had, less what is closed.
LEMMA Releases ==
    ASSUME PoolInv, NEW t \in Callers, NEW r, caller' = [caller EXCEPT ![t] = r], CallerOK(r),
           NEW X, CloseAll(X),
           DOMAIN pool' \subseteq Keys, \A k \in DOMAIN pool' : pool'[k] \in Seq(Fds),
           Once(pool'), Once(r.rest),
           \A fd \in Fds : ~(In(pool', fd) /\ HeldBy(r, fd)),
           \A fd \in Fds : fd \in X => Mine(pool, caller[t], fd),
           \A fd \in Fds : Mine(pool', r, fd) <=> Mine(pool, caller[t], fd) /\ fd \notin X,
           \A k \in DOMAIN pool' : \A i \in DOMAIN pool'[k] :
              link[pool'[k][i]] = PeerOf(k) /\ pool'[k][i] \notin timed,
           Lent(r, link, timed)
    PROVE  Owned(pool, caller, open, link, timed)'
<1>0. Owned(pool, caller, open, link, timed) /\ Accounted(pool, caller, open)
  BY Zenon DEF PoolInv, Owned
<1>1. /\ open' \subseteq Fds /\ timed' \subseteq open' /\ link' \in [Fds -> Peers \cup {NoKey}]
      /\ \A fd \in Fds : fd \in open' <=> fd \in open /\ fd \notin X
      /\ \A fd \in Fds : fd \notin X => link'[fd] = link[fd] /\ (fd \in timed' <=> fd \in timed)
  BY Zenon, CloseFacts
<1>2. /\ Typed(pool', caller', open', link', timed')
      /\ caller'[t] = r /\ \A u \in Callers : u # t => caller'[u] = caller[u]
  BY Zenon, <1>1, CallerTyped DEF Typed
<1>3. \A fd \in Fds : Mine(pool, caller[t], fd) => fd \in open
  BY <1>0, Zenon DEF Accounted, Mine
<1>4. Waiting(pool', link', timed')
  <2> SUFFICES ASSUME NEW k \in DOMAIN pool', NEW i \in DOMAIN pool'[k]
               PROVE  link'[pool'[k][i]] = PeerOf(k) /\ pool'[k][i] \notin timed'
    BY Zenon DEF Waiting
  <2>1. pool'[k] \in Seq(Fds)
    OBVIOUS
  <2>2. pool'[k][i] \in Fds
    BY <2>1
  <2>3. In(pool', pool'[k][i])
    BY Zenon DEF In
  <2>4. pool'[k][i] \notin X
    BY Zenon, <2>2, <2>3 DEF Mine
  <2> QED BY Zenon, <1>1, <2>2, <2>4
<1>5. Lent(r, link', timed')
  <2>1. CASE r.at = "holding"
    <3>1. r.fd \in Fds /\ HeldBy(r, r.fd)
      BY Zenon, <2>1 DEF CallerOK, HeldBy
    <3>2. r.fd \notin X
      BY Zenon, <3>1 DEF Mine
    <3> QED BY Zenon, <1>1, <2>1, <3>1, <3>2 DEF Lent
  <2>2. CASE r.at # "holding"
    BY Zenon, <2>2 DEF Lent
  <2> QED BY Zenon, <2>1, <2>2
<1>6. \A fd \in Fds : Mine(pool', r, fd) => Mine(pool, caller[t], fd) \/ fd \notin open
  OBVIOUS
<1>7. \A fd \in Fds : fd \in open' <=> Mine(pool', r, fd) \/ (fd \in open /\ ~Mine(pool, caller[t], fd))
  BY Zenon, <1>1, <1>3
<1>8. \A fd \in Fds : fd \in open /\ ~Mine(pool, caller[t], fd) => link'[fd] = link[fd] /\ (fd \in timed' => fd \in timed)
  BY Zenon, <1>1
<1>9. OwnStepOK(pool, caller, open, link, timed, t, pool', caller', open', link', timed')
  BY <1>2, <1>4, <1>5, <1>6, <1>7, <1>8 DEF OwnStepOK
<1> QED BY Zenon, <1>0, <1>9, OwnStep

\* The descriptor of a connect() that fails is closed.
LEMMA ConnectFailsKeeps ==
    ASSUME PoolInv, NEW t \in Callers, NEW why \in {"deadline", "error"}, ConnectFails(t, why)
    PROVE  PoolInv'
<1>0. /\ Typed(pool, caller, open, link, timed) /\ CallerOK(caller[t]) /\ Unique(pool, caller)
      /\ Waiting(pool, link, timed)
  BY Zenon DEF PoolInv, Owned, Typed
<1>1. caller[t].at = "connecting" /\ CloseAll({caller[t].fd}) /\ pool' = pool
  BY Zenon DEF ConnectFails
<1> DEFINE r == [caller[t] EXCEPT !.at = "dial", !.fd = NoFd, !.addr = @ + 1, !.last = why]
<1>2. caller' = [caller EXCEPT ![t] = r]
  BY Zenon DEF ConnectFails
<1>3. CallerOK(r) /\ r.at = "dial"
  <2>1. caller[t].addr + 1 \in Nat \ {0}
    BY <1>0 DEF CallerOK
  <2>2. /\ r.at = "dial" /\ r.fd = NoFd /\ r.key = caller[t].key /\ r.rest = caller[t].rest
    BY Zenon, <1>0 DEF CallerOK
  <2>3. r \in [at : {"idle", "dial", "connecting", "holding", "closing"}, key : Keys \cup {NoKey},
              fd : Fds \cup {NoFd}, psp : BOOLEAN, attempt : Nat, addr : Nat \ {0},
              last : {"ok", "deadline", "error"}, rest : Stacks]
    BY Zenon, <1>0, <2>1 DEF CallerOK
  <2> QED BY Zenon, <1>0, <1>1, <2>2, <2>3, PoolAssumption DEF CallerOK
<1> HIDE DEF r
<1>4. Once(r.rest) /\ \A fd \in Fds : ~HeldBy(r, fd)
  BY <1>3, PlainCaller, EmptyHasNone DEF CallerOK
<1>5. \A fd \in Fds : HeldBy(caller[t], fd) <=> fd \in {caller[t].fd}
  BY Zenon, <1>0, <1>1, PlainCaller
<1>6. Once(pool) /\ \A fd \in Fds : ~(In(pool, fd) /\ HeldBy(caller[t], fd))
  BY <1>0, Zenon DEF Unique
<1>7. Lent(r, link, timed)
  BY Zenon, <1>3 DEF Lent
<1>8. \A fd \in Fds : fd \in {caller[t].fd} => Mine(pool, caller[t], fd)
  BY Zenon, <1>5 DEF Mine
<1>9. \A fd \in Fds : Mine(pool', r, fd) <=> Mine(pool, caller[t], fd) /\ fd \notin {caller[t].fd}
  BY <1>1, <1>4, <1>5, <1>6, Zenon DEF Mine
<1>10. Owned(pool, caller, open, link, timed)'
  <2>1. /\ DOMAIN pool' \subseteq Keys /\ (\A k \in DOMAIN pool' : pool'[k] \in Seq(Fds)) /\ Once(pool')
    BY Zenon, <1>0, <1>1, <1>6 DEF Typed
  <2>2. \A k \in DOMAIN pool' : \A i \in DOMAIN pool'[k] : link[pool'[k][i]] = PeerOf(k) /\ pool'[k][i] \notin timed
    BY Zenon, <1>0, <1>1 DEF Waiting
  <2>3. \A fd \in Fds : ~(In(pool', fd) /\ HeldBy(r, fd))
    BY Zenon, <1>4
  <2> QED BY Zenon, <1>1, <1>2, <1>3, <1>4, <1>7, <1>8, <1>9, <2>1, <2>2, <2>3, Releases
<1>11. readable' \subseteq open'
  BY Zenon, <1>1, CloseFacts
<1> QED BY Zenon, <1>1, <1>10, <1>11 DEF PoolInv, ConnectFails

\* A new connection is its caller's.
LEMMA ConnectOkKeeps == ASSUME PoolInv, NEW t \in Callers, ConnectOk(t) PROVE PoolInv'
<1>0. /\ Owned(pool, caller, open, link, timed) /\ Typed(pool, caller, open, link, timed)
      /\ CallerOK(caller[t]) /\ Unique(pool, caller)
      /\ Waiting(pool, link, timed) /\ Accounted(pool, caller, open)
  BY Zenon DEF PoolInv, Owned, Typed
<1> DEFINE fd == caller[t].fd
           key == caller[t].key
           r == [IdleCaller EXCEPT !.at = "holding", !.key = key, !.fd = fd]
<1>1. /\ caller[t].at = "connecting" /\ fd \in Fds /\ key \in Keys /\ PeerOf(key) \in Peers
  BY Zenon, <1>0 DEF ConnectOk, CallerOK, Keys, PeerOf
<1>2. /\ timed' = timed \ {fd} /\ link' = [link EXCEPT ![fd] = PeerOf(key)]
      /\ caller' = [caller EXCEPT ![t] = r] /\ pool' = pool /\ open' = open
  BY Zenon DEF ConnectOk
<1>3. CallerOK(r) /\ r.at = "holding" /\ r.fd = fd /\ r.key = key
  BY Zenon, <1>1, IdleOK DEF CallerOK
<1> HIDE DEF r
<1>4. \A f \in Fds : (HeldBy(r, f) <=> f = fd) /\ (HeldBy(caller[t], f) <=> f = fd)
  BY Zenon, <1>0, <1>1, <1>3, PlainCaller
<1>5. Once(r.rest)
  BY <1>3, EmptyHasNone DEF CallerOK
<1>6. Once(pool) /\ (\A f \in Fds : ~(In(pool, f) /\ HeldBy(r, f))) /\ ~In(pool, fd)
  BY <1>0, <1>1, <1>4, Zenon DEF Unique
<1>7. Typed(pool, caller', open, link', timed') /\ caller'[t] = r /\ \A u \in Callers : u # t => caller'[u] = caller[u]
  <2>1. link' \in [Fds -> Peers \cup {NoKey}] /\ timed' \subseteq open
    BY Zenon, <1>0, <1>1, <1>2 DEF Typed
  <2> QED BY Zenon, <1>0, <1>2, <1>3, <2>1, CallerTyped DEF Typed
<1>8. link'[fd] = PeerOf(key) /\ \A f \in Fds : f # fd => link'[f] = link[f]
  BY Zenon, <1>0, <1>1, <1>2 DEF Typed
<1>9. Waiting(pool, link', timed')
  <2> SUFFICES ASSUME NEW k \in DOMAIN pool, NEW i \in DOMAIN pool[k]
               PROVE  link'[pool[k][i]] = PeerOf(k) /\ pool[k][i] \notin timed'
    BY Zenon DEF Waiting
  <2>1. pool[k] \in Seq(Fds)
    BY Zenon, <1>0 DEF Typed
  <2>2. pool[k][i] \in Fds /\ pool[k][i] # fd
    BY <1>6, <2>1 DEF In
  <2> QED BY Zenon, <1>0, <1>2, <1>8, <2>2 DEF Waiting
<1>10. Lent(r, link', timed')
  BY Zenon, <1>2, <1>3, <1>8 DEF Lent
<1>11. \A f \in Fds : Mine(pool, r, f) <=> Mine(pool, caller[t], f)
  BY Zenon, <1>4 DEF Mine
<1>12. \A f \in Fds : Mine(pool, caller[t], f) => f \in open
  BY <1>0, Zenon DEF Accounted, Mine
<1>13. Owned(pool, caller', open, link', timed')
  <2>1. \A f \in Fds : f \in open /\ ~Mine(pool, caller[t], f) => link'[f] = link[f] /\ (f \in timed' => f \in timed)
    BY Zenon, <1>2, <1>4, <1>8 DEF Mine
  <2>2. \A f \in Fds : Mine(pool, r, f) => Mine(pool, caller[t], f) \/ f \notin open
    BY Zenon, <1>11
  <2>3. \A f \in Fds : f \in open <=> Mine(pool, r, f) \/ (f \in open /\ ~Mine(pool, caller[t], f))
    BY Zenon, <1>11, <1>12
  <2>4. OwnStepOK(pool, caller, open, link, timed, t, pool, caller', open, link', timed')
    BY Zenon, <1>5, <1>6, <1>7, <1>9, <1>10, <2>1, <2>2, <2>3 DEF OwnStepOK
  <2> QED BY Zenon, <1>0, <2>4, OwnStep
<1> QED BY Zenon, <1>2, <1>13 DEF PoolInv, ConnectOk

\* A returned descriptor goes on top of the stack of its key.
LEMMA Pushed ==
    ASSUME PoolInv, NEW key \in Keys, NEW fd \in Fds, ~In(pool, fd),
           NEW p2, p2 = WithIdle(key, Append(IdleOf(key), fd))
    PROVE  /\ DOMAIN p2 \subseteq Keys /\ \A k \in DOMAIN p2 : p2[k] \in Seq(Fds)
           /\ Once(p2) /\ \A f : In(p2, f) <=> In(pool, f) \/ f = fd
           /\ \A k \in DOMAIN p2 : \A i \in DOMAIN p2[k] :
                \/ k \in DOMAIN pool /\ i \in DOMAIN pool[k] /\ p2[k][i] = pool[k][i]
                \/ k = key /\ p2[k][i] = fd
<1>0. DOMAIN pool \subseteq Keys /\ (\A k \in DOMAIN pool : pool[k] \in Seq(Fds)) /\ Once(pool)
  BY Zenon DEF PoolInv, Owned, Typed, Unique
<1> DEFINE s == IdleOf(key)
<1>1. s \in Seq(Fds) /\ (key \in DOMAIN pool => s = pool[key]) /\ (key \notin DOMAIN pool => s = <<>>)
  BY <1>0 DEF IdleOf
<1>2. /\ DOMAIN p2 = DOMAIN pool \cup {key} /\ p2[key] = Append(s, fd)
      /\ \A k \in DOMAIN pool : k # key => p2[k] = pool[k]
  BY Zenon DEF WithIdle
<1> HIDE DEF s
<1>3. Len(s) \in Nat /\ DOMAIN s = 1 .. Len(s)
  BY <1>1
<1>4. /\ DOMAIN p2[key] = 1 .. (Len(s) + 1) /\ p2[key][Len(s) + 1] = fd /\ p2[key] \in Seq(Fds)
      /\ \A i \in 1 .. Len(s) : p2[key][i] = s[i]
  BY <1>1, <1>2, <1>3
<1>5. \A k \in DOMAIN p2 : \A i \in DOMAIN p2[k] :
         \/ k \in DOMAIN pool /\ i \in DOMAIN pool[k] /\ p2[k][i] = pool[k][i]
         \/ k = key /\ i = Len(s) + 1 /\ p2[k][i] = fd
  <2> SUFFICES ASSUME NEW k \in DOMAIN p2, NEW i \in DOMAIN p2[k]
               PROVE  \/ k \in DOMAIN pool /\ i \in DOMAIN pool[k] /\ p2[k][i] = pool[k][i]
                      \/ k = key /\ i = Len(s) + 1 /\ p2[k][i] = fd
    OBVIOUS
  <2>1. CASE k # key
    BY Zenon, <1>2, <2>1
  <2>2. CASE k = key /\ i = Len(s) + 1
    BY Zenon, <1>4, <2>2
  <2>3. CASE k = key /\ i # Len(s) + 1
    <3>1. i \in 1 .. Len(s)
      BY <1>3, <1>4, <2>3
    <3>2. key \in DOMAIN pool
      BY <1>1, <3>1
    <3> QED BY Zenon, <1>1, <1>3, <1>4, <2>3, <3>1, <3>2
  <2> QED BY Zenon, <2>1, <2>2, <2>3
<1>6. \A k \in DOMAIN pool : \A i \in DOMAIN pool[k] : k \in DOMAIN p2 /\ i \in DOMAIN p2[k] /\ p2[k][i] = pool[k][i]
  <2> SUFFICES ASSUME NEW k \in DOMAIN pool, NEW i \in DOMAIN pool[k]
               PROVE  k \in DOMAIN p2 /\ i \in DOMAIN p2[k] /\ p2[k][i] = pool[k][i]
    OBVIOUS
  <2>1. CASE k # key
    BY Zenon, <1>2, <2>1
  <2>2. CASE k = key
    BY <1>1, <1>2, <1>3, <1>4, <2>2
  <2> QED BY Zenon, <2>1, <2>2
<1>7. \A f : In(p2, f) <=> In(pool, f) \/ f = fd
  <2>1. ASSUME NEW f, In(p2, f) PROVE In(pool, f) \/ f = fd
    BY <1>5, <2>1 DEF In
  <2>2. ASSUME NEW f, In(pool, f) PROVE In(p2, f)
    BY <1>6, <2>2 DEF In
  <2>3. In(p2, fd)
    BY <1>2, <1>3, <1>4 DEF In
  <2> QED BY Zenon, <2>1, <2>2, <2>3
<1>8. Once(p2)
  <2> SUFFICES ASSUME NEW k \in DOMAIN p2, NEW m \in DOMAIN p2, NEW i \in DOMAIN p2[k], NEW j \in DOMAIN p2[m],
                      p2[k][i] = p2[m][j]
               PROVE  k = m /\ i = j
    BY Zenon DEF Once
  <2>1. CASE p2[k][i] = fd
    <3>1. \A a \in DOMAIN pool : \A b \in DOMAIN pool[a] : pool[a][b] # fd
      BY Zenon DEF In
    <3>2. k = key /\ i = Len(s) + 1
      BY <1>5, <2>1, <3>1
    <3>3. m = key /\ j = Len(s) + 1
      BY ZenonT(60), <1>5, <2>1, <3>1
    <3> QED BY Zenon, <3>2, <3>3
  <2>2. CASE p2[k][i] # fd
    BY <1>0, <1>5, <2>2 DEF Once
  <2> QED BY Zenon, <2>1, <2>2
<1> QED BY ZenonT(60), <1>0, <1>2, <1>4, <1>5, <1>7, <1>8

\* Return pushes the descriptor on its key's stack, or closes it.
LEMMA ReturnKeeps == ASSUME PoolInv, NEW t \in Callers, NEW ok \in BOOLEAN, Return(t, ok) PROVE PoolInv'
<1>0. /\ Owned(pool, caller, open, link, timed) /\ Typed(pool, caller, open, link, timed)
      /\ CallerOK(caller[t]) /\ Unique(pool, caller) /\ Lent(caller[t], link, timed)
      /\ Waiting(pool, link, timed) /\ Accounted(pool, caller, open)
  BY Zenon DEF PoolInv, Owned, Typed
<1> DEFINE fd == caller[t].fd
           key == caller[t].key
<1>1. caller[t].at = "holding" /\ caller' = [caller EXCEPT ![t] = IdleCaller] /\ UNCHANGED <<stop, calls>>
  BY Zenon DEF Return
<1>2. fd \in Fds /\ key \in Keys /\ link[fd] = PeerOf(key) /\ fd \notin timed
  BY Zenon, <1>0, <1>1 DEF CallerOK, Lent
<1>3. \A f \in Fds : HeldBy(caller[t], f) <=> f = fd
  BY Zenon, <1>0, <1>1, PlainCaller
<1>4. Once(pool) /\ ~In(pool, fd)
  BY <1>0, <1>2, <1>3, Zenon DEF Unique
<1>5. \A f \in Fds : ~HeldBy(IdleCaller, f)
  BY Zenon, IdleOK
<1>6. Once(IdleCaller.rest) /\ CallerOK(IdleCaller) /\ Lent(IdleCaller, link, timed)
  BY IdleOK, EmptyHasNone DEF Lent
<1>7. CASE (~ok \/ stop) /\ CloseAll({fd}) /\ pool' = pool
  <2>1. \A f \in Fds : f \in {fd} => Mine(pool, caller[t], f)
    BY Zenon, <1>3 DEF Mine
  <2>2. \A f \in Fds : Mine(pool', IdleCaller, f) <=> Mine(pool, caller[t], f) /\ f \notin {fd}
    <3>1. \A f \in Fds : Mine(pool', IdleCaller, f) <=> In(pool, f)
      BY Zenon, <1>5, <1>7 DEF Mine
    <3>2. \A f \in Fds : Mine(pool, caller[t], f) <=> In(pool, f) \/ f = fd
      BY Zenon, <1>3 DEF Mine
    <3> QED BY Zenon, <1>4, <3>1, <3>2
  <2>3. /\ DOMAIN pool' \subseteq Keys /\ (\A k \in DOMAIN pool' : pool'[k] \in Seq(Fds)) /\ Once(pool')
    BY Zenon, <1>0, <1>4, <1>7 DEF Typed
  <2>4. \A k \in DOMAIN pool' : \A i \in DOMAIN pool'[k] : link[pool'[k][i]] = PeerOf(k) /\ pool'[k][i] \notin timed
    BY Zenon, <1>0, <1>7 DEF Waiting
  <2>5. \A f \in Fds : ~(In(pool', f) /\ HeldBy(IdleCaller, f))
    BY Zenon, <1>5
  <2>6. Owned(pool, caller, open, link, timed)'
    BY Zenon, <1>1, <1>6, <1>7, <2>1, <2>2, <2>3, <2>4, <2>5, Releases
  <2>7. readable' \subseteq open'
    BY Zenon, <1>7, CloseFacts
  <2> QED BY Zenon, <1>1, <1>7, <2>6, <2>7 DEF PoolInv
<1>8. CASE /\ ok /\ ~stop /\ pool' = WithIdle(key, Append(IdleOf(key), fd))
           /\ UNCHANGED <<open, link, readable, timed>>
  <2>1. /\ DOMAIN pool' \subseteq Keys /\ (\A k \in DOMAIN pool' : pool'[k] \in Seq(Fds))
        /\ Once(pool') /\ (\A f : In(pool', f) <=> In(pool, f) \/ f = fd)
        /\ \A k \in DOMAIN pool' : \A i \in DOMAIN pool'[k] :
             \/ k \in DOMAIN pool /\ i \in DOMAIN pool[k] /\ pool'[k][i] = pool[k][i]
             \/ k = key /\ pool'[k][i] = fd
    BY <1>2, <1>4, <1>8, Pushed
  <2>2. /\ caller'[t] = IdleCaller /\ (\A u \in Callers : u # t => caller'[u] = caller[u])
        /\ Typed(pool', caller', open, link, timed)
    BY Zenon, <1>0, <1>1, <1>6, <2>1, CallerTyped DEF Typed
  <2>3. \A f \in Fds : (Mine(pool', IdleCaller, f) <=> In(pool, f) \/ f = fd)
                    /\ (Mine(pool, caller[t], f) <=> In(pool, f) \/ f = fd)
    BY Zenon, <1>3, <1>5, <2>1 DEF Mine
  <2>4. \A f \in Fds : Mine(pool, caller[t], f) => f \in open
    BY <1>0, ZenonT(60) DEF Accounted, Mine
  <2>5. Waiting(pool', link, timed)
    BY <1>0, <1>2, <2>1 DEF Waiting
  <2>6. \A f \in Fds : f \in open <=> Mine(pool', IdleCaller, f) \/ (f \in open /\ ~Mine(pool, caller[t], f))
    BY Zenon, <2>3, <2>4
  <2>7. \A f \in Fds : Mine(pool', IdleCaller, f) => Mine(pool, caller[t], f) \/ f \notin open
    BY Zenon, <2>3
  <2>8. OwnStepOK(pool, caller, open, link, timed, t, pool', caller', open, link, timed)
    BY Zenon, <1>5, <1>6, <2>1, <2>2, <2>5, <2>6, <2>7 DEF OwnStepOK
  <2>9. Owned(pool', caller', open, link, timed)
    BY Zenon, <1>0, <2>8, OwnStep
  <2> QED BY Zenon, <1>1, <1>8, <2>9 DEF PoolInv
<1> QED BY Zenon, <1>7, <1>8 DEF Return

\* Bytes that arrive change no owner.
LEMMA ArriveKeeps == ASSUME PoolInv, NEW fd \in Fds, Arrive(fd) PROVE PoolInv'
<1>1. Owned(pool, caller, open, link, timed)' <=> Owned(pool, caller, open, link, timed)
  BY Zenon DEF Arrive
<1> QED BY Zenon, <1>1 DEF PoolInv, Arrive

\* What popping the descriptors of a key down to the n-th makes of the pool, n included, and
\* the set X of those above it.
PoppedTo(key, n, p2, X) ==
    /\ DOMAIN p2 \subseteq Keys /\ \A k \in DOMAIN p2 : p2[k] \in Seq(Fds)
    /\ Once(p2)
    /\ \A k \in DOMAIN p2 : \A i \in DOMAIN p2[k] :
         k \in DOMAIN pool /\ i \in DOMAIN pool[k] /\ p2[k][i] = pool[k][i]
    /\ \A f : f \in X => In(pool, f) /\ ~In(p2, f)
    /\ n > 0 => /\ pool[key][n] \in Fds \ X /\ In(pool, pool[key][n]) /\ ~In(p2, pool[key][n])
                /\ \A f : In(p2, f) \/ f = pool[key][n] <=> In(pool, f) /\ f \notin X
    /\ n = 0 => \A f : In(p2, f) <=> In(pool, f) /\ f \notin X

\* Borrow shortens the stack of a key to what is below the descriptor it takes.
LEMMA Popped ==
    ASSUME PoolInv, NEW key \in DOMAIN pool, NEW n \in 0 .. Len(pool[key]),
           NEW p2, p2 = WithIdle(key, SubSeq(pool[key], 1, n - 1)),
           NEW X, X = {pool[key][i] : i \in n + 1 .. Len(pool[key])}
    PROVE  PoppedTo(key, n, p2, X)
<1>0. DOMAIN pool \subseteq Keys /\ (\A k \in DOMAIN pool : pool[k] \in Seq(Fds)) /\ Once(pool)
  BY Zenon DEF PoolInv, Owned, Typed, Unique
<1> DEFINE s == pool[key]
<1>1. s \in Seq(Fds) /\ Len(s) \in Nat /\ DOMAIN s = 1 .. Len(s) /\ n \in Nat /\ n <= Len(s)
  BY <1>0
<1>2. /\ DOMAIN p2 = DOMAIN pool /\ p2[key] = SubSeq(s, 1, n - 1)
      /\ \A k \in DOMAIN pool : k # key => p2[k] = pool[k]
  BY Zenon DEF WithIdle
<1>3. p2[key] \in Seq(Fds) /\ DOMAIN p2[key] = 1 .. (n - 1) /\ \A i \in 1 .. (n - 1) : p2[key][i] = s[i]
  BY <1>1, <1>2
<1>4. \A f : f \in X <=> \E i \in (n + 1) .. Len(s) : s[i] = f
  OBVIOUS
<1> HIDE DEF s
<1>5. ASSUME NEW k \in DOMAIN p2, NEW i \in DOMAIN p2[k]
      PROVE  k \in DOMAIN pool /\ i \in DOMAIN pool[k] /\ p2[k][i] = pool[k][i] /\ (k = key => i < n)
  <2>1. CASE k # key
    BY Zenon, <1>2, <1>5, <2>1
  <2>2. CASE k = key
    BY <1>1, <1>2, <1>3, <1>5, <2>2 DEF s
  <2> QED BY Zenon, <2>1, <2>2
<1>6. ASSUME NEW k \in DOMAIN pool, NEW i \in DOMAIN pool[k], k = key => i < n
      PROVE  k \in DOMAIN p2 /\ i \in DOMAIN p2[k] /\ p2[k][i] = pool[k][i]
  <2>1. CASE k # key
    BY Zenon, <1>2, <1>6, <2>1
  <2>2. CASE k = key
    BY <1>1, <1>2, <1>3, <1>6, <2>2 DEF s
  <2> QED BY Zenon, <2>1, <2>2
<1>7. Once(p2)
  BY <1>0, <1>5 DEF Once
<1>8. ASSUME NEW j \in 1 .. Len(s), j >= n PROVE In(pool, s[j]) /\ ~In(p2, s[j])
  <2>1. j \in DOMAIN pool[key] /\ pool[key][j] = s[j]
    BY Zenon, <1>1 DEF s
  <2>2. In(pool, s[j])
    BY Zenon, <2>1 DEF In
  <2>3. ASSUME NEW k \in DOMAIN p2, NEW i \in DOMAIN p2[k], p2[k][i] = s[j] PROVE FALSE
    <3>1. k = key /\ i = j
      BY <1>0, <1>5, <2>1, <2>3 DEF Once
    <3> QED BY <1>1, <1>5, <1>8, <3>1
  <2> QED BY Zenon, <2>2, <2>3 DEF In
<1>9. \A f : f \in X => In(pool, f) /\ ~In(p2, f)
  <2> SUFFICES ASSUME NEW f, f \in X PROVE In(pool, f) /\ ~In(p2, f)
    OBVIOUS
  <2>1. PICK i \in (n + 1) .. Len(s) : s[i] = f
    BY Zenon, <1>4
  <2> QED BY <1>1, <1>8, <2>1
<1>10. ASSUME NEW f, In(pool, f), ~In(p2, f) PROVE f \in X \/ (n > 0 /\ f = s[n])
  <2>1. PICK k \in DOMAIN pool : \E i \in DOMAIN pool[k] : pool[k][i] = f
    BY Zenon, <1>10 DEF In
  <2>2. PICK i \in DOMAIN pool[k] : pool[k][i] = f
    BY Zenon, <2>1
  <2>3. k = key /\ ~(i < n)
    BY Zenon, <1>6, <1>10, <2>2 DEF In
  <2>4. i \in 1 .. Len(s) /\ s[i] = f
    BY Zenon, <1>1, <2>2, <2>3 DEF s
  <2>5. CASE i = n
    BY <1>1, <2>4, <2>5
  <2>6. CASE i # n
    <3>1. i \in (n + 1) .. Len(s)
      BY <1>1, <2>3, <2>4, <2>6
    <3> QED BY Zenon, <1>4, <2>4, <3>1
  <2> QED BY Zenon, <2>5, <2>6
<1>11. \A f : In(p2, f) => In(pool, f)
  BY <1>5 DEF In
<1>12. ASSUME n > 0 PROVE s[n] \in Fds \ X /\ In(pool, s[n]) /\ ~In(p2, s[n])
  <2>1. n \in 1 .. Len(s) /\ s[n] \in Fds
    BY <1>1, <1>12
  <2>2. ASSUME NEW i \in (n + 1) .. Len(s), s[i] = s[n] PROVE FALSE
    <3>1. i \in DOMAIN pool[key] /\ n \in DOMAIN pool[key] /\ pool[key][i] = pool[key][n]
      BY <1>1, <2>1, <2>2 DEF s
    <3>2. i = n
      BY Zenon, <1>0, <3>1 DEF Once
    <3> QED BY <1>1, <3>2
  <2>3. s[n] \notin X
    BY Zenon, <1>4, <2>2
  <2> QED BY <1>1, <1>8, <2>1, <2>3
<1>13. n = 0 \/ n > 0
  BY <1>1
<1>14. n > 0 => \A f : In(p2, f) \/ f = s[n] <=> In(pool, f) /\ f \notin X
  BY Zenon, <1>9, <1>10, <1>11, <1>12
<1>15. n = 0 => \A f : In(p2, f) <=> In(pool, f) /\ f \notin X
  BY <1>9, <1>10, <1>11
<1>16. \A k \in DOMAIN p2 : p2[k] \in Seq(Fds)
  BY Zenon, <1>0, <1>2, <1>3
<1> QED BY ZenonT(60), <1>0, <1>2, <1>5, <1>7, <1>9, <1>12, <1>14, <1>15, <1>16 DEF s, PoppedTo

\* After ConnectToPeer has started, or has failed at once, the thread has no descriptor.
LEMMA DialRecord ==
    ASSUME NEW t \in Callers, NEW key \in Keys, NEW psp \in BOOLEAN, NEW channel \in BOOLEAN,
           Dial(t, key, psp, channel)
    PROVE  \E r : caller' = [caller EXCEPT ![t] = r] /\ CallerOK(r) /\ r.at \in {"idle", "dial"} /\ r.fd = NoFd
<1> DEFINE q == [IdleCaller EXCEPT !.at = "dial", !.key = key, !.psp = psp]
<1>1. q.at = "dial" /\ q.fd = NoFd /\ q.key = key /\ q.rest = <<>> /\ CallerOK(q)
  BY ZenonT(60), IdleOK, PoolAssumption DEF CallerOK
<1>2. caller' = [caller EXCEPT ![t] = q] \/ caller' = [caller EXCEPT ![t] = IdleCaller]
  BY Zenon DEF Dial
<1> HIDE DEF q
<1> QED BY Zenon, <1>1, <1>2, IdleOK

\* Borrow closes the descriptors it finds broken and takes the next, or dials.
LEMMA BorrowKeeps ==
    ASSUME PoolInv, NEW t \in Callers, NEW key \in Keys, NEW psp \in BOOLEAN, NEW channel \in BOOLEAN,
           Borrow(t, key, psp, channel)
    PROVE  PoolInv'
<1>0. /\ Owned(pool, caller, open, link, timed) /\ Typed(pool, caller, open, link, timed)
      /\ CallerOK(caller[t]) /\ Unique(pool, caller) /\ Waiting(pool, link, timed)
  BY Zenon DEF PoolInv, Owned, Typed
<1> DEFINE fds == IdleOf(key)
<1>1. caller[t].at = "idle" /\ calls' \in 0 .. MaxCalls /\ stop' = stop
  <2>1. caller[t].at = "idle" /\ calls < MaxCalls /\ calls' = calls + 1 /\ stop' = stop
    BY Zenon DEF Borrow
  <2>2. calls \in 0 .. MaxCalls /\ MaxCalls \in Nat
    BY Zenon, PoolAssumption DEF PoolInv
  <2> QED BY <2>1, <2>2
<1>2. caller[t].fd = NoFd /\ \A f \in Fds : ~HeldBy(caller[t], f)
  BY Zenon, <1>0, <1>1, PlainCaller DEF CallerOK
<1>3. CASE UNCHANGED <<pool, caller, open, link, readable, timed>>
  <2>1. Owned(pool, caller, open, link, timed)' <=> Owned(pool, caller, open, link, timed)
    BY Zenon, <1>3
  <2> QED BY Zenon, <1>1, <1>3, <2>1 DEF PoolInv
<1>4. CASE Dial(t, key, psp, channel) /\ UNCHANGED <<pool, open, link, readable, timed>>
  <2>1. PICK r : caller' = [caller EXCEPT ![t] = r] /\ CallerOK(r) /\ r.at \in {"idle", "dial"} /\ r.fd = NoFd
    BY Zenon, <1>4, DialRecord
  <2>2. Owned(pool, caller, open, link, timed)'
    BY Zenon, <1>1, <1>2, <1>4, <2>1, CallerMoves
  <2> QED BY Zenon, <1>1, <1>4, <2>2 DEF PoolInv
<1>5. ASSUME ~stop, fds # <<>>, NEW n \in 0 .. Len(fds),
             pool' = WithIdle(key, SubSeq(fds, 1, n - 1)),
             CloseAll({fds[i] : i \in n + 1 .. Len(fds)}),
             \/ n > 0 /\ caller' = [caller EXCEPT ![t] =
                  [IdleCaller EXCEPT !.at = "holding", !.key = key, !.fd = fds[n]]]
             \/ n = 0 /\ Dial(t, key, psp, channel)
      PROVE  PoolInv'
  <2>1. key \in DOMAIN pool /\ fds = pool[key]
    BY Zenon, <1>5 DEF IdleOf
  <2>2. fds \in Seq(Fds)
    BY Zenon, <1>0, <2>1 DEF Typed
  <2>3. n \in 0 .. Len(pool[key])
    BY Zenon, <2>1
  <2> DEFINE X == {fds[i] : i \in n + 1 .. Len(fds)}
  <2>4. CloseAll(X)
    BY Zenon, <1>5
  <2>5. /\ DOMAIN pool' \subseteq Keys /\ (\A k \in DOMAIN pool' : pool'[k] \in Seq(Fds))
        /\ Once(pool')
        /\ (\A k \in DOMAIN pool' : \A i \in DOMAIN pool'[k] :
             k \in DOMAIN pool /\ i \in DOMAIN pool[k] /\ pool'[k][i] = pool[k][i])
        /\ (\A f : f \in X => In(pool, f) /\ ~In(pool', f))
        /\ (n > 0 => /\ fds[n] \in Fds \ X /\ In(pool, fds[n]) /\ ~In(pool', fds[n])
                     /\ \A f : In(pool', f) \/ f = fds[n] <=> In(pool, f) /\ f \notin X)
        /\ (n = 0 => \A f : In(pool', f) <=> In(pool, f) /\ f \notin X)
    <3>1. pool' = WithIdle(key, SubSeq(pool[key], 1, n - 1)) /\ X = {pool[key][i] : i \in n + 1 .. Len(pool[key])}
      BY Zenon, <1>5, <2>1
    <3> HIDE DEF X
    <3>2. PoppedTo(key, n, pool', X)
      BY Zenon, <2>1, <2>3, <3>1, Popped
    <3> QED BY Zenon, <2>1, <3>2 DEF PoppedTo
  <2> HIDE DEF X, fds
  <2>6. \A k \in DOMAIN pool' : \A i \in DOMAIN pool'[k] : link[pool'[k][i]] = PeerOf(k) /\ pool'[k][i] \notin timed
    BY ZenonT(60), <1>0, <2>5 DEF Waiting
  <2>7. \A f \in Fds : f \in X => Mine(pool, caller[t], f)
    BY Zenon, <2>5 DEF Mine
  <2>8. readable' \subseteq open'
    BY Zenon, <2>4, CloseFacts
  <2>9. Owned(pool, caller, open, link, timed)'
    <3>1. CASE n > 0
      <4> DEFINE r == [IdleCaller EXCEPT !.at = "holding", !.key = key, !.fd = fds[n]]
      <4>1. caller' = [caller EXCEPT ![t] = r]
        BY <1>5, <3>1
      <4>2. CallerOK(r) /\ r.at = "holding" /\ r.fd = fds[n] /\ r.key = key
        BY Zenon, <2>5, <3>1, IdleOK DEF CallerOK
      <4> HIDE DEF r
      <4>3. \A f \in Fds : HeldBy(r, f) <=> f = fds[n]
        BY Zenon, <4>2, PlainCaller
      <4>4. Once(r.rest)
        BY SMTT(60), <4>2, EmptyHasNone DEF CallerOK
      <4>5. Lent(r, link, timed)
        <5>1. PICK i \in DOMAIN pool[key] : pool[key][i] = fds[n]
          <6>1. n \in DOMAIN pool[key]
            BY <2>1, <2>2, <2>3, <3>1
          <6> QED BY Zenon, <2>1, <6>1
        <5> QED BY <1>0, <2>1, <4>2, <5>1 DEF Lent, Waiting
      <4>6. \A f \in Fds : ~(In(pool', f) /\ HeldBy(r, f))
        BY Zenon, <2>5, <3>1, <4>3
      <4>7. \A f \in Fds : Mine(pool', r, f) <=> Mine(pool, caller[t], f) /\ f \notin X
        BY Zenon, <1>2, <2>5, <3>1, <4>3 DEF Mine
      <4> QED BY Zenon, <2>4, <2>5, <2>6, <2>7, <4>1, <4>2, <4>4, <4>5, <4>6, <4>7, Releases
    <3>2. CASE n = 0 /\ Dial(t, key, psp, channel)
      <4>1. PICK r : caller' = [caller EXCEPT ![t] = r] /\ CallerOK(r) /\ r.at \in {"idle", "dial"} /\ r.fd = NoFd
        BY Zenon, <3>2, DialRecord
      <4>2. \A f \in Fds : ~HeldBy(r, f)
        BY Zenon, <4>1, PlainCaller
      <4>3. Once(r.rest)
        BY <4>1, EmptyHasNone DEF CallerOK
      <4>4. Lent(r, link, timed)
        BY Zenon, <4>1 DEF Lent
      <4>5. \A f \in Fds : ~(In(pool', f) /\ HeldBy(r, f))
        BY Zenon, <4>2
      <4>6. \A f \in Fds : Mine(pool', r, f) <=> Mine(pool, caller[t], f) /\ f \notin X
        BY Zenon, <1>2, <2>5, <3>2, <4>2 DEF Mine
      <4> QED BY Zenon, <2>4, <2>5, <2>6, <2>7, <4>1, <4>3, <4>4, <4>5, <4>6, Releases
    <3> QED BY Zenon, <1>5, <3>1, <3>2
  <2> QED BY Zenon, <1>1, <1>5, <2>8, <2>9 DEF PoolInv
<1> QED BY Zenon, <1>3, <1>4, <1>5 DEF Borrow

\* CloseIdle: the stacks of the peer go to the thread as they are.
LEMMA CloseIdleKeeps == ASSUME PoolInv, NEW t \in Callers, NEW peer \in Peers, CloseIdle(t, peer) PROVE PoolInv'
<1>0. /\ Owned(pool, caller, open, link, timed) /\ Typed(pool, caller, open, link, timed)
      /\ CallerOK(caller[t]) /\ Unique(pool, caller) /\ Waiting(pool, link, timed) /\ Accounted(pool, caller, open)
  BY Zenon DEF PoolInv, Owned, Typed
<1> DEFINE to_close == [k \in {k \in DOMAIN pool : PeerOf(k) = peer} |-> pool[k]]
           r == [IdleCaller EXCEPT !.at = "closing", !.rest = to_close]
<1>1. /\ caller[t].at = "idle" /\ calls' \in 0 .. MaxCalls
      /\ pool' = [k \in {k \in DOMAIN pool : PeerOf(k) # peer} |-> pool[k]]
      /\ caller' = [caller EXCEPT ![t] = r]
      /\ UNCHANGED <<stop, open, link, readable, timed>>
  BY PoolAssumption DEF CloseIdle, PoolInv
<1>2. \A f \in Fds : ~HeldBy(caller[t], f)
  BY Zenon, <1>0, <1>1, PlainCaller
<1>3. to_close \in Stacks
  <2>1. to_close \in [{k \in DOMAIN pool : PeerOf(k) = peer} -> Seq(Fds)]
    BY Zenon, <1>0 DEF Typed
  <2>2. {k \in DOMAIN pool : PeerOf(k) = peer} \in SUBSET Keys
    BY Zenon, <1>0 DEF Typed
  <2> QED BY Zenon, <2>1, <2>2 DEF Stacks
<1>4. /\ DOMAIN to_close = {k \in DOMAIN pool : PeerOf(k) = peer}
      /\ \A k \in DOMAIN to_close : to_close[k] = pool[k]
  OBVIOUS
<1> HIDE DEF to_close
<1>5. CallerOK(r) /\ r.at = "closing" /\ r.fd = NoFd /\ r.rest = to_close
  BY Zenon, <1>3, IdleOK, PoolAssumption DEF CallerOK
<1> HIDE DEF r
<1>6. /\ DOMAIN pool' = {k \in DOMAIN pool : PeerOf(k) # peer} /\ \A k \in DOMAIN pool' : pool'[k] = pool[k]
  BY Zenon, <1>1
<1>7. Once(pool') /\ Once(r.rest)
  <2>1. Once(pool)
    BY Zenon, <1>0 DEF Unique
  <2>2. Once(pool')
    <3>1. \A k \in DOMAIN pool' : k \in DOMAIN pool /\ pool'[k] = pool[k]
      BY Zenon, <1>6
    <3> QED BY Zenon, <2>1, <3>1, SubFamilyOnce
  <2>3. Once(to_close)
    <3>1. \A k \in DOMAIN to_close : k \in DOMAIN pool /\ to_close[k] = pool[k]
      BY Zenon, <1>4
    <3> QED BY Zenon, <2>1, <3>1, SubFamilyOnce
  <2> QED BY Zenon, <1>5, <2>2, <2>3
<1>8. \A f : In(pool, f) <=> In(pool', f) \/ In(to_close, f)
  <2>1. \A k \in DOMAIN pool : k \in DOMAIN pool' \/ k \in DOMAIN to_close
    BY Zenon, <1>4, <1>6
  <2> QED BY ZenonT(60), <1>4, <1>6, <2>1 DEF In
<1>9. \A f : ~(In(pool', f) /\ In(to_close, f))
  <2> SUFFICES ASSUME NEW k \in DOMAIN pool', NEW m \in DOMAIN to_close,
                      NEW i \in DOMAIN pool'[k], NEW j \in DOMAIN to_close[m], pool'[k][i] = to_close[m][j]
               PROVE  FALSE
    BY Zenon DEF In
  <2>1. k \in DOMAIN pool /\ m \in DOMAIN pool /\ k # m /\ pool'[k] = pool[k] /\ to_close[m] = pool[m]
    BY Zenon, <1>4, <1>6
  <2>2. Once(pool)
    BY Zenon, <1>0 DEF Unique
  <2>3. i \in DOMAIN pool[k] /\ j \in DOMAIN pool[m] /\ pool[k][i] = pool[m][j]
    BY Zenon, <2>1
  <2>4. k = m
    BY Zenon, <2>1, <2>2, <2>3 DEF Once
  <2> QED BY Zenon, <2>1, <2>4
<1>10. \A f \in Fds : HeldBy(r, f) <=> In(to_close, f)
  BY Zenon, <1>5, PoolAssumption DEF HeldBy
<1>11. /\ caller'[t] = r /\ (\A u \in Callers : u # t => caller'[u] = caller[u])
       /\ Typed(pool', caller', open, link, timed)
  <2>1. DOMAIN pool' \subseteq Keys /\ \A k \in DOMAIN pool' : pool'[k] \in Seq(Fds)
    BY Zenon, <1>0, <1>6 DEF Typed
  <2> QED BY Zenon, <1>0, <1>1, <1>5, <2>1, CallerTyped DEF Typed
<1>12. \A f \in Fds : Mine(pool', r, f) <=> Mine(pool, caller[t], f)
  BY Zenon, <1>2, <1>8, <1>10 DEF Mine
<1>13. \A f \in Fds : Mine(pool, caller[t], f) => f \in open
  BY <1>0, Zenon DEF Accounted, Mine
<1>14. Waiting(pool', link, timed) /\ Lent(r, link, timed)
  BY Zenon, <1>0, <1>5, <1>6 DEF Waiting, Lent
<1>15. \A f \in Fds : ~(In(pool', f) /\ HeldBy(r, f))
  BY Zenon, <1>9, <1>10
<1>16. \A f \in Fds : f \in open <=> Mine(pool', r, f) \/ (f \in open /\ ~Mine(pool, caller[t], f))
  BY Zenon, <1>12, <1>13
<1>17. OwnStepOK(pool, caller, open, link, timed, t, pool', caller', open, link, timed)
  BY Zenon, <1>7, <1>11, <1>12, <1>14, <1>15, <1>16 DEF OwnStepOK
<1>18. Owned(pool', caller', open, link, timed)
  BY Zenon, <1>0, <1>17, OwnStep
<1>19. stop => DOMAIN pool' = {}
  BY Zenon, <1>6 DEF PoolInv
<1> QED BY Zenon, <1>1, <1>18, <1>19 DEF PoolInv

\* Closing the first descriptor of a stack leaves the others of the family.
LEMMA Tailed ==
    ASSUME NEW q \in Stacks, Once(q), NEW k \in DOMAIN q, q[k] # <<>>,
           NEW q2, q2 = [q EXCEPT ![k] = Tail(@)]
    PROVE  /\ q2 \in Stacks /\ Once(q2) /\ Head(q[k]) \in Fds /\ In(q, Head(q[k]))
           /\ \A f : In(q2, f) <=> In(q, f) /\ f # Head(q[k])
<1>1. PICK S \in SUBSET Keys : q \in [S -> Seq(Fds)]
  BY Zenon DEF Stacks
<1> DEFINE s == q[k]
           h == Head(s)
<1>2. s \in Seq(Fds) /\ s # <<>> /\ Len(s) \in Nat /\ Len(s) > 0 /\ DOMAIN s = 1 .. Len(s)
  BY <1>1
<1>3. h = s[1] /\ h \in Fds
  BY <1>2
<1>4. Tail(s) \in Seq(Fds) /\ DOMAIN Tail(s) = 1 .. (Len(s) - 1) /\ \A i \in 1 .. (Len(s) - 1) : Tail(s)[i] = s[i + 1]
  BY <1>2
<1>5. q2 \in [S -> Seq(Fds)] /\ DOMAIN q2 = DOMAIN q /\ q2[k] = Tail(s) /\ \A m \in DOMAIN q : m # k => q2[m] = q[m]
  BY Zenon, <1>1, <1>4
<1>6. q2 \in Stacks
  BY Zenon, <1>5 DEF Stacks
<1> HIDE DEF s, h
<1>7. ASSUME NEW m \in DOMAIN q2, NEW i \in DOMAIN q2[m]
      PROVE  LET j == IF m = k THEN i + 1 ELSE i
             IN j \in DOMAIN q[m] /\ q2[m][i] = q[m][j] /\ (m = k => i \in Nat /\ j # 1)
  <2>1. CASE m # k
    BY Zenon, <1>5, <1>7, <2>1
  <2>2. CASE m = k
    <3>1. i \in 1 .. (Len(s) - 1) /\ q2[m][i] = s[i + 1]
      BY Zenon, <1>4, <1>5, <1>7, <2>2
    <3>2. i + 1 \in 1 .. Len(s) /\ i \in Nat /\ i + 1 # 1
      BY <1>2, <3>1
    <3> QED BY Zenon, <1>2, <2>2, <3>1, <3>2 DEF s
  <2> QED BY Zenon, <2>1, <2>2
<1>8. Once(q2)
  <2> SUFFICES ASSUME NEW m \in DOMAIN q2, NEW l \in DOMAIN q2, NEW i \in DOMAIN q2[m], NEW j \in DOMAIN q2[l],
                      q2[m][i] = q2[l][j]
               PROVE  m = l /\ i = j
    BY Zenon DEF Once
  <2> DEFINE a == IF m = k THEN i + 1 ELSE i
             b == IF l = k THEN j + 1 ELSE j
  <2>1. a \in DOMAIN q[m] /\ q2[m][i] = q[m][a] /\ (m = k => i \in Nat)
    BY <1>7
  <2>2. b \in DOMAIN q[l] /\ q2[l][j] = q[l][b] /\ (l = k => j \in Nat)
    BY <1>7
  <2>3. m = l /\ a = b
    BY <1>5, <2>1, <2>2 DEF Once
  <2> QED BY <2>1, <2>2, <2>3
<1>9. ASSUME NEW f, In(q2, f) PROVE In(q, f) /\ f # h
  <2>1. PICK m \in DOMAIN q2 : \E i \in DOMAIN q2[m] : q2[m][i] = f
    BY Zenon, <1>9 DEF In
  <2>2. PICK i \in DOMAIN q2[m] : q2[m][i] = f
    BY Zenon, <2>1
  <2> DEFINE a == IF m = k THEN i + 1 ELSE i
  <2>3. a \in DOMAIN q[m] /\ f = q[m][a] /\ (m = k => a # 1)
    BY <1>7, <2>2
  <2>4. In(q, f)
    BY Zenon, <1>5, <2>3 DEF In
  <2>5. ASSUME f = h PROVE FALSE
    <3>1. 1 \in DOMAIN q[k] /\ q[k][1] = q[m][a]
      BY <1>2, <1>3, <2>3, <2>5 DEF s
    <3>2. m = k /\ a = 1
      BY <1>5, <2>3, <3>1 DEF Once
    <3> QED BY Zenon, <2>3, <3>2
  <2> QED BY Zenon, <2>4, <2>5
<1>10. ASSUME NEW f, In(q, f), f # h PROVE In(q2, f)
  <2>1. PICK m \in DOMAIN q : \E i \in DOMAIN q[m] : q[m][i] = f
    BY Zenon, <1>10 DEF In
  <2>2. PICK i \in DOMAIN q[m] : q[m][i] = f
    BY Zenon, <2>1
  <2>3. CASE m # k
    BY Zenon, <1>5, <2>2, <2>3 DEF In
  <2>4. CASE m = k
    <3>1. i \in 1 .. Len(s) /\ i # 1 /\ s[i] = f
      BY Zenon, <1>2, <1>3, <1>10, <2>2, <2>4 DEF s
    <3>2. i - 1 \in 1 .. (Len(s) - 1) /\ (i - 1) + 1 = i
      BY <1>2, <3>1
    <3>3. i - 1 \in DOMAIN q2[k] /\ q2[k][i - 1] = f
      BY Zenon, <1>4, <1>5, <3>1, <3>2
    <3> QED BY Zenon, <1>5, <3>3 DEF In
  <2> QED BY Zenon, <2>3, <2>4
<1>11. In(q, h)
  BY <1>2, <1>3 DEF In, s
<1> QED BY Zenon, <1>3, <1>6, <1>8, <1>9, <1>10, <1>11 DEF s, h

\* CloseIdle closes what it has taken from the pool one at a time, without the lock.
LEMMA CloseNextKeeps == ASSUME PoolInv, NEW t \in Callers, CloseNext(t) PROVE PoolInv'
<1>0. /\ Owned(pool, caller, open, link, timed) /\ Typed(pool, caller, open, link, timed)
      /\ CallerOK(caller[t]) /\ Unique(pool, caller) /\ Waiting(pool, link, timed) /\ Accounted(pool, caller, open)
      /\ DOMAIN caller = Callers
  BY Zenon DEF PoolInv, Owned, Typed
<1> DEFINE rest == caller[t].rest
           left == {k \in DOMAIN rest : rest[k] # <<>>}
<1>1. caller[t].at = "closing" /\ UNCHANGED <<pool, stop, calls>>
  BY Zenon DEF CloseNext
<1>2. caller[t].fd = NoFd /\ rest \in Stacks /\ Once(rest)
  BY Zenon, <1>0, <1>1 DEF CallerOK, Unique
<1>3. \A f \in Fds : HeldBy(caller[t], f) <=> In(rest, f)
  BY Zenon, <1>2, PoolAssumption DEF HeldBy
<1>4. Once(pool) /\ \A f \in Fds : ~(In(pool, f) /\ In(rest, f))
  BY <1>0, <1>3, Zenon DEF Unique
<1>5. ASSUME NEW k \in left, CloseAll({Head(rest[k])}), caller' = [caller EXCEPT ![t].rest[k] = Tail(@)]
      PROVE  PoolInv'
  <2> DEFINE h == Head(rest[k])
             q2 == [rest EXCEPT ![k] = Tail(@)]
             r == [caller[t] EXCEPT !.rest = q2]
  <2>1. /\ q2 \in Stacks /\ Once(q2) /\ h \in Fds /\ In(rest, h)
        /\ \A f : In(q2, f) <=> In(rest, f) /\ f # h
    BY Zenon, <1>2, <1>5, Tailed
  <2>2. caller' = [caller EXCEPT ![t] = r]
    BY Zenon, <1>5
  <2> HIDE DEF q2
  <2>3. CallerOK(r) /\ r.at = "closing" /\ r.fd = NoFd /\ r.rest = q2
    BY Zenon, <1>0, <1>1, <1>2, <2>1 DEF CallerOK
  <2> HIDE DEF r, h
  <2>4. \A f \in Fds : HeldBy(r, f) <=> In(rest, f) /\ f # h
    BY Zenon, <2>1, <2>3, PoolAssumption DEF HeldBy
  <2>5. \A f \in Fds : f \in {h} => Mine(pool, caller[t], f)
    BY Zenon, <1>3, <2>1 DEF Mine
  <2>6. \A f \in Fds : Mine(pool', r, f) <=> Mine(pool, caller[t], f) /\ f \notin {h}
    BY Zenon, <1>1, <1>3, <1>4, <2>1, <2>4 DEF Mine
  <2>7. \A f \in Fds : ~(In(pool', f) /\ HeldBy(r, f))
    BY Zenon, <1>1, <1>4, <2>4
  <2>8. Lent(r, link, timed) /\ Once(r.rest)
    BY Zenon, <2>1, <2>3 DEF Lent
  <2>9. /\ DOMAIN pool' \subseteq Keys /\ (\A m \in DOMAIN pool' : pool'[m] \in Seq(Fds)) /\ Once(pool')
    BY Zenon, <1>0, <1>1, <1>4 DEF Typed
  <2>10. \A m \in DOMAIN pool' : \A i \in DOMAIN pool'[m] : link[pool'[m][i]] = PeerOf(m) /\ pool'[m][i] \notin timed
    BY Zenon, <1>0, <1>1 DEF Waiting
  <2>11. CloseAll({h})
    BY Zenon, <1>5 DEF h
  <2>12. Owned(pool, caller, open, link, timed)'
    BY Zenon, <2>2, <2>3, <2>5, <2>6, <2>7, <2>8, <2>9, <2>10, <2>11, Releases
  <2>13. readable' \subseteq open'
    BY Zenon, <2>11, CloseFacts
  <2> QED BY Zenon, <1>1, <2>12, <2>13 DEF PoolInv
<1>6. CASE left = {} /\ caller' = [caller EXCEPT ![t] = IdleCaller] /\ UNCHANGED <<open, link, readable, timed>>
  <2>1. \A f : ~In(rest, f)
    BY <1>6 DEF In
  <2>2. \A f \in Fds : ~HeldBy(IdleCaller, f) /\ ~HeldBy(caller[t], f)
    BY Zenon, <1>3, <2>1, IdleOK
  <2>3. Once(IdleCaller.rest) /\ CallerOK(IdleCaller) /\ Lent(IdleCaller, link, timed)
    BY IdleOK, EmptyHasNone DEF Lent
  <2>4. /\ caller'[t] = IdleCaller /\ (\A u \in Callers : u # t => caller'[u] = caller[u])
        /\ Typed(pool, caller', open, link, timed)
    BY Zenon, <1>0, <1>6, <2>3, CallerTyped DEF Typed
  <2>5. \A f \in Fds : Mine(pool, IdleCaller, f) <=> Mine(pool, caller[t], f)
    BY Zenon, <2>2 DEF Mine
  <2>6. \A f \in Fds : Mine(pool, caller[t], f) => f \in open
    BY <1>0, Zenon DEF Accounted, Mine
  <2>7. \A f \in Fds : f \in open <=> Mine(pool, IdleCaller, f) \/ (f \in open /\ ~Mine(pool, caller[t], f))
    BY Zenon, <2>5, <2>6
  <2>8. OwnStepOK(pool, caller, open, link, timed, t, pool, caller', open, link, timed)
    BY Zenon, <1>0, <1>4, <2>2, <2>3, <2>4, <2>5, <2>7 DEF OwnStepOK
  <2>9. Owned(pool, caller', open, link, timed)
    BY Zenon, <1>0, <2>8, OwnStep
  <2> QED BY Zenon, <1>1, <1>6, <2>9 DEF PoolInv
<1> QED BY Zenon, <1>5, <1>6 DEF CloseNext

\* Close: everything in the pool is closed, and nothing else.
LEMMA CloseKeeps == PoolInv /\ Close => PoolInv'
<1> SUFFICES ASSUME PoolInv, Close PROVE PoolInv'
  OBVIOUS
<1>0. /\ Owned(pool, caller, open, link, timed) /\ Typed(pool, caller, open, link, timed)
      /\ Unique(pool, caller) /\ Accounted(pool, caller, open)
  BY Zenon DEF PoolInv, Owned
<1> DEFINE X == UNION {{pool[k][i] : i \in DOMAIN pool[k]} : k \in DOMAIN pool}
<1>1. stop' = TRUE /\ pool' = <<>> /\ CloseAll(X) /\ caller' = caller /\ calls' = calls
  BY Zenon DEF Close
<1>2. \A f : f \in X <=> In(pool, f)
  BY DEF In
<1> HIDE DEF X
<1>3. /\ open' \subseteq Fds /\ timed' \subseteq open' /\ readable' \subseteq open'
      /\ link' \in [Fds -> Peers \cup {NoKey}]
      /\ \A f \in Fds : f \in open' <=> f \in open /\ f \notin X
      /\ \A f \in Fds : f \notin X => link'[f] = link[f] /\ (f \in timed' <=> f \in timed)
  BY Zenon, <1>1, CloseFacts
<1>4. DOMAIN pool' = {} /\ Once(pool') /\ \A f : ~In(pool', f)
  <2>1. DOMAIN pool' = {}
    BY <1>1
  <2> QED BY Zenon, <2>1, EmptyHasNone
<1>5. Typed(pool', caller', open', link', timed')
  BY Zenon, <1>0, <1>1, <1>3, <1>4 DEF Typed
<1>6. Unique(pool', caller)
  BY <1>0, <1>4, Zenon DEF Unique
<1>7. \A f \in Fds : \A t \in Callers : HeldBy(caller[t], f) => f \notin X
  BY <1>0, <1>2, Zenon DEF Unique
<1>8. Accounted(pool', caller, open')
  <2> SUFFICES ASSUME NEW f \in Fds PROVE f \in open' <=> In(pool', f) \/ \E t \in Callers : HeldBy(caller[t], f)
    BY Zenon DEF Accounted
  <2>1. f \in open <=> In(pool, f) \/ \E t \in Callers : HeldBy(caller[t], f)
    BY Zenon, <1>0 DEF Accounted
  <2> QED BY Zenon, <1>2, <1>3, <1>4, <1>7, <2>1
<1>9. \A t \in Callers : Lent(caller[t], link', timed')
  <2> SUFFICES ASSUME NEW t \in Callers, caller[t].at = "holding"
               PROVE  link'[caller[t].fd] = PeerOf(caller[t].key) /\ caller[t].fd \notin timed'
    BY Zenon DEF Lent
  <2>1. caller[t].fd \in Fds /\ HeldBy(caller[t], caller[t].fd)
    BY Zenon, <1>0 DEF Typed, CallerOK, HeldBy
  <2>2. caller[t].fd \notin X
    BY Zenon, <1>7, <2>1
  <2>3. link[caller[t].fd] = PeerOf(caller[t].key) /\ caller[t].fd \notin timed
    BY Zenon, <1>0 DEF Owned, Lent
  <2> QED BY Zenon, <1>3, <2>1, <2>2, <2>3
<1>10. Waiting(pool', link', timed')
  BY Zenon, <1>4 DEF Waiting
<1>11. Owned(pool', caller', open', link', timed')
  BY Zenon, <1>1, <1>5, <1>6, <1>8, <1>9, <1>10 DEF Owned
<1> QED BY Zenon, <1>1, <1>3, <1>4, <1>11 DEF PoolInv

\* At first the pool is empty and every thread is between calls.
LEMMA PoolInitOK == PoolInit => PoolInv
<1> SUFFICES ASSUME PoolInit PROVE PoolInv
  OBVIOUS
<1>1. DOMAIN pool = {} /\ Once(pool) /\ \A f : ~In(pool, f)
  <2>1. DOMAIN pool = {}
    BY DEF PoolInit
  <2> QED BY Zenon, <2>1, EmptyHasNone
<1>2. \A t \in Callers : caller[t] = IdleCaller
  BY Zenon DEF PoolInit
<1>3. \A t \in Callers : Once(caller[t].rest) /\ \A f \in Fds : ~HeldBy(caller[t], f)
  BY <1>2, IdleOK, EmptyHasNone
<1>4. Unique(pool, caller) /\ Accounted(pool, caller, open)
  BY Zenon, <1>1, <1>3 DEF Unique, Accounted, PoolInit
<1>5. Waiting(pool, link, timed) /\ \A t \in Callers : Lent(caller[t], link, timed)
  BY Zenon, <1>1, <1>2, IdleOK DEF Waiting, Lent
<1>6. Typed(pool, caller, open, link, timed)
  BY Zenon, <1>1, <1>2, IdleOK DEF Typed, PoolInit
<1>7. calls \in 0 .. MaxCalls /\ readable \subseteq open
  BY PoolAssumption DEF PoolInit
<1>8. stop \in BOOLEAN
  BY Zenon DEF PoolInit
<1> QED BY Zenon, <1>1, <1>4, <1>5, <1>6, <1>7, <1>8 DEF PoolInv, Owned

\* The inductive invariant holds in every state.
LEMMA PoolInvHolds == PoolSpec => []PoolInv
<1>1. PoolInit => PoolInv
  BY Zenon, PoolInitOK
<1>2. PoolInv /\ [PoolNext]_poolVars => PoolInv'
  <2> SUFFICES ASSUME PoolInv, [PoolNext]_poolVars PROVE PoolInv'
    OBVIOUS
  <2>1. CASE UNCHANGED poolVars
    <3>1. Owned(pool, caller, open, link, timed)' <=> Owned(pool, caller, open, link, timed)
      BY Zenon, <2>1 DEF poolVars
    <3> QED BY Zenon, <2>1, <3>1 DEF PoolInv, poolVars
  <2>2. ASSUME NEW t \in Callers, Call(t) PROVE PoolInv'
    BY Zenon, <2>2, BorrowKeeps, CloseIdleKeeps DEF Call
  <2>3. ASSUME NEW t \in Callers, Progress(t) PROVE PoolInv'
    BY Zenon, <2>3, SocketFailsKeeps, OpenSocketKeeps, ConnectOkKeeps, ConnectFailsKeeps, RetryKeeps, CloseNextKeeps DEF Progress
  <2> QED BY Zenon, <2>1, <2>2, <2>3, ReturnKeeps, CloseKeeps, ArriveKeeps DEF PoolNext
<1> QED BY <1>1, <1>2, PTL DEF PoolSpec

\* The pool's state keeps its type.
THEOREM PoolTypes == PoolSpec => []PoolTypeOK
<1>1. PoolInv => PoolTypeOK
  <2> SUFFICES ASSUME PoolInv PROVE PoolTypeOK
    OBVIOUS
  <2>1. Typed(pool, caller, open, link, timed) /\ stop \in BOOLEAN /\ calls \in 0 .. MaxCalls /\ readable \subseteq open
    BY Zenon DEF PoolInv, Owned
  <2>2. ASSUME NEW t \in Callers, NEW k \in DOMAIN caller[t].rest PROVE caller[t].rest[k] \in Seq(Fds)
    BY <2>1, <2>2 DEF Typed, CallerOK, Stacks
  <2>3. ASSUME NEW t \in Callers
        PROVE  /\ caller[t].at \in {"idle", "dial", "connecting", "holding", "closing"}
               /\ caller[t].at \in {"connecting", "holding"} <=> caller[t].fd \in Fds
               /\ caller[t].attempt \in Nat /\ caller[t].addr \in Nat \ {0}
               /\ caller[t].last \in {"ok", "deadline", "error"}
    BY Zenon, <2>1, <2>3 DEF Typed, CallerOK
  <2> QED BY ZenonT(60), <2>1, <2>2, <2>3 DEF PoolTypeOK, Typed
<1> QED BY <1>1, PoolInvHolds, PTL

(* Every open descriptor is in exactly one place and no closed one is in any: in the pool,
   with the thread that dials or uses it, or with the CloseIdle that is closing it. *)
THEOREM DescriptorsAreOwnedOnce == PoolSpec => []OwnedOnce
<1>1. PoolInv => OwnedOnce
  <2> SUFFICES ASSUME PoolInv, NEW fd \in Fds
               PROVE  IF fd \in open THEN \E x \in Places(fd) : Places(fd) = {x} ELSE Places(fd) = {}
    BY Zenon DEF OwnedOnce
  <2>0. Unique(pool, caller) /\ Accounted(pool, caller, open) /\ \A t \in Callers : CallerOK(caller[t])
    BY Zenon DEF PoolInv, Owned, Typed
  <2>1. \A x : x \in Places(fd) <=>
           \/ \E k \in DOMAIN pool : \E i \in DOMAIN pool[k] : pool[k][i] = fd /\ x = <<"pool", k, i>>
           \/ \E t \in Callers : caller[t].fd = fd /\ x = <<"caller", t>>
           \/ \E t \in Callers : \E k \in DOMAIN caller[t].rest : \E i \in DOMAIN caller[t].rest[k] :
                 caller[t].rest[k][i] = fd /\ x = <<"rest", t, k, i>>
    <3>1. \A x : x \in PoolPlaces(fd) <=>
             \E k \in DOMAIN pool : \E i \in DOMAIN pool[k] : pool[k][i] = fd /\ x = <<"pool", k, i>>
      BY DEF PoolPlaces
    <3>2. \A x : x \in CallerPlaces(fd) <=> \E t \in Callers : caller[t].fd = fd /\ x = <<"caller", t>>
      BY Zenon DEF CallerPlaces
    <3>3. \A x : x \in ClosingPlaces(fd) <=>
             \E t \in Callers : \E k \in DOMAIN caller[t].rest : \E i \in DOMAIN caller[t].rest[k] :
                caller[t].rest[k][i] = fd /\ x = <<"rest", t, k, i>>
      BY DEF ClosingPlaces
    <3> QED BY <3>1, <3>2, <3>3, ZenonT(60) DEF Places
  <2>2. ASSUME In(pool, fd) PROVE \E x \in Places(fd) : Places(fd) = {x}
    <3>1. \A t \in Callers : ~HeldBy(caller[t], fd)
      BY Zenon, <2>0, <2>2 DEF Unique
    <3>4. PICK k \in DOMAIN pool : \E i \in DOMAIN pool[k] : pool[k][i] = fd
      BY Zenon, <2>2 DEF In
    <3>5. PICK i \in DOMAIN pool[k] : pool[k][i] = fd
      BY Zenon, <3>4
    <3>2. \A t \in Callers : caller[t].fd # fd /\ \A m \in DOMAIN caller[t].rest : \A j \in DOMAIN caller[t].rest[m] :
             caller[t].rest[m][j] # fd
      BY Zenon, <3>1 DEF HeldBy, In
    <3>3. \A m \in DOMAIN pool : \A j \in DOMAIN pool[m] : pool[m][j] = fd => m = k /\ j = i
      BY <2>0, <3>5 DEF Unique, Once
    <3>6. \A y \in Places(fd) : y = <<"pool", k, i>>
      BY <2>1, <3>2, <3>3
    <3>7. <<"pool", k, i>> \in Places(fd)
      BY Zenon, <2>1, <3>5
    <3> QED BY Zenon, <3>6, <3>7
  <2>3. ASSUME NEW t \in Callers, caller[t].fd = fd PROVE \E x \in Places(fd) : Places(fd) = {x}
    <3>1. HeldBy(caller[t], fd) /\ ~In(caller[t].rest, fd)
      BY <2>0, <2>3, EmptyHasNone DEF HeldBy, CallerOK
    <3>2. ~In(pool, fd) /\ \A u \in Callers : HeldBy(caller[u], fd) => u = t
      BY <2>0, <3>1, ZenonT(60) DEF Unique
    <3>3. \A y \in Places(fd) : y = <<"caller", t>>
      BY <2>1, <3>1, <3>2 DEF HeldBy, In
    <3>4. <<"caller", t>> \in Places(fd)
      BY Zenon, <2>1, <2>3
    <3> QED BY Zenon, <3>3, <3>4
  <2>4. ASSUME NEW t \in Callers, In(caller[t].rest, fd) PROVE \E x \in Places(fd) : Places(fd) = {x}
    <3>1. HeldBy(caller[t], fd)
      BY Zenon, <2>4 DEF HeldBy
    <3>2. ~In(pool, fd) /\ \A u \in Callers : HeldBy(caller[u], fd) => u = t
      BY <2>0, <3>1, ZenonT(60) DEF Unique
    <3>3. caller[t].fd # fd
      BY <2>0, <2>4, EmptyHasNone DEF CallerOK
    <3>4. PICK k \in DOMAIN caller[t].rest : \E i \in DOMAIN caller[t].rest[k] : caller[t].rest[k][i] = fd
      BY Zenon, <2>4 DEF In
    <3>5. PICK i \in DOMAIN caller[t].rest[k] : caller[t].rest[k][i] = fd
      BY Zenon, <3>4
    <3>6. \A m \in DOMAIN caller[t].rest : \A j \in DOMAIN caller[t].rest[m] :
             caller[t].rest[m][j] = fd => m = k /\ j = i
      BY SMTT(60), <2>0, <3>5 DEF Unique, Once
    <3>7. \A y \in Places(fd) : y = <<"rest", t, k, i>>
      BY <2>1, <3>2, <3>3, <3>6 DEF HeldBy, In
    <3>8. <<"rest", t, k, i>> \in Places(fd)
      BY Zenon, <2>1, <3>5
    <3> QED BY Zenon, <3>7, <3>8
  <2>5. CASE fd \in open
    <3>1. In(pool, fd) \/ \E t \in Callers : caller[t].fd = fd \/ In(caller[t].rest, fd)
      BY Zenon, <2>0, <2>5 DEF Accounted, HeldBy
    <3> QED BY Zenon, <2>2, <2>3, <2>4, <2>5, <3>1
  <2>6. CASE fd \notin open
    <3>1. ~In(pool, fd) /\ \A t \in Callers : caller[t].fd # fd /\ ~In(caller[t].rest, fd)
      BY Zenon, <2>0, <2>6 DEF Accounted, HeldBy
    <3>2. \A x : x \notin Places(fd)
      BY Zenon, <2>1, <3>1 DEF In
    <3> QED BY Zenon, <2>6, <3>2
  <2> QED BY Zenon, <2>5, <2>6
<1> QED BY <1>1, PoolInvHolds, PTL

(* What Borrow hands out is a connection to the peer asked for, with no timeout left on it,
   however many threads borrow, return and close. *)
THEOREM ConnectionsAreLentToTheirPeer == PoolSpec => []LentToItsPeer
<1>1. PoolInv => LentToItsPeer
  BY Zenon DEF PoolInv, Owned, Waiting, Lent, LentToItsPeer
<1> QED BY <1>1, PoolInvHolds, PTL

(* Nothing enters the pool after Close: ~ConnPool finds it empty. *)
THEOREM ClosedPoolIsEmpty == PoolSpec => []ClosedIsEmpty
<1>1. PoolInv => ClosedIsEmpty
  BY Zenon DEF PoolInv, ClosedIsEmpty
<1> QED BY <1>1, PoolInvHolds, PTL

-----------------------------------------------------------------------------
\* The cache of routes.

RouteSpec == RouteInit /\ [][RouteNext]_routeVars

\* What a check of a question says while the routing does not change.
TrueAnswer(key) ==
    LET dst == {d \in key[2] : d.family = key[1].family}
    IN  /\ dst # {}
        /\ \/ key[1].loopback /\ \A d \in dst : d.loopback
           \/ routing.owner[key[1]] = routing.egress[key]

\* The answers but those of failed computations.
Known == {a \in answers : ~a.failed}

\* The state of a thread; what it has found out is true as long as the routing has not changed.
CheckerOK(c) ==
    /\ c \in [at : {"idle", "compute", "egress", "store"}, key : asked \cup {<<>>}, nic : {c.nic}, value : BOOLEAN]
    /\ c.at # "idle" => c.key \in asked
    /\ changes = 0 /\ c.at = "egress" => c.nic = routing.owner[c.key[1]] /\ Shortcut(c.key) = {}
    /\ changes = 0 /\ c.at = "store" => (c.value <=> TrueAnswer(c.key))

\* The answers of Route::Check are the cached ones, and as long as the routing has not
\* changed what is cached and what was answered is true.
RouteInv ==
    /\ cacheKind \in {"route", "v1"} /\ asked \in Questions /\ routing \in Routings
    /\ changes \in Nat
    /\ checker = [t \in Checkers |-> checker[t]]
    /\ \A t \in Checkers : CheckerOK(checker[t])
    /\ \A key \in DOMAIN routes : routes[key] \in BOOLEAN /\ (changes = 0 => (routes[key] <=> TrueAnswer(key)))
    /\ \A a \in Known : a.value \in BOOLEAN /\ (changes = 0 => (a.value <=> TrueAnswer(a.key)))
    /\ cacheKind = "route" => \A a \in Known : a.key \in DOMAIN routes /\ routes[a.key] = a.value

\* What is known without asking the kernel is true.
LEMMA ShortcutIsTrue ==
    ASSUME RouteInv, NEW key \in asked
    PROVE  /\ \A v \in Shortcut(key) : v \in BOOLEAN /\ (v <=> TrueAnswer(key))
           /\ Shortcut(key) = {} => (TrueAnswer(key) <=> routing.owner[key[1]] = routing.egress[key])
<1> DEFINE src == key[1]
           host == key[2]
           dst == {d \in host : d.family = src.family}
<1>1. src \in Sources /\ host \in Hosts /\ key = <<src, host>> /\ routing \in Routings
  BY RouteAssumption DEF RouteInv
<1>2. src.loopback \in BOOLEAN /\ \A d \in host : d.loopback \in BOOLEAN
  BY Zenon, <1>1, RouteAssumption
<1>3. \A d, e \in dst : d = e
  BY <1>1, RouteAssumption
<1>4. \A d \in dst : d.loopback # src.loopback => routing.owner[src] # routing.egress[key]
  BY Zenon, <1>1, LoopbackAssumption
<1>5. dst = ResolvePeerAddress(host, src.family)
  BY Zenon DEF ResolvePeerAddress
<1>6. TrueAnswer(key) <=> /\ dst # {}
                          /\ \/ src.loopback /\ \A d \in dst : d.loopback
                             \/ routing.owner[src] = routing.egress[key]
  BY Zenon DEF TrueAnswer
<1>7. Shortcut(key) = IF dst = {} THEN {FALSE}
                      ELSE IF cacheKind = "route"
                           THEN IF src.loopback \/ (\E a \in dst : a.loopback)
                                THEN {src.loopback /\ (\E a \in dst : a.loopback)} ELSE {}
                           ELSE IF src.loopback /\ (\E a \in dst : a.loopback) THEN {TRUE} ELSE {}
  BY Zenon, <1>5 DEF Shortcut
<1> HIDE DEF src, host, dst
<1>8. CASE dst = {}
  BY Zenon, <1>6, <1>7, <1>8
<1>9. CASE dst # {}
  <2>1. PICK d \in dst : dst = {d}
    BY Zenon, <1>3, <1>9
  <2>2. d.loopback \in BOOLEAN /\ (d.loopback # src.loopback => routing.owner[src] # routing.egress[key])
    BY Zenon, <1>2, <1>4 DEF dst
  <2>3. CASE src.loopback /\ d.loopback
    <3>1. (\E a \in dst : a.loopback) /\ (\A a \in dst : a.loopback)
      BY Zenon, <2>1, <2>3
    <3>2. TrueAnswer(key)
      BY Zenon, <1>6, <1>9, <2>3, <3>1
    <3>3. (src.loopback /\ (\E a \in dst : a.loopback)) = TRUE
      BY Zenon, <2>3, <3>1
    <3>4. Shortcut(key) = {TRUE}
      BY Zenon, <1>7, <1>9, <2>3, <3>1, <3>3
    <3> QED BY Zenon, <3>2, <3>4
  <2>4. CASE ~src.loopback /\ ~d.loopback
    <3>1. ~(\E a \in dst : a.loopback)
      BY Zenon, <2>1, <2>4
    <3>2. TrueAnswer(key) <=> routing.owner[src] = routing.egress[key]
      BY Zenon, <1>6, <1>9, <2>4
    <3>3. Shortcut(key) = {}
      BY Zenon, <1>7, <1>9, <2>4, <3>1
    <3> QED BY Zenon, <3>2, <3>3 DEF src
  <2>5. CASE (src.loopback /\ ~d.loopback) \/ (~src.loopback /\ d.loopback)
    <3>1. ~(src.loopback /\ (\E a \in dst : a.loopback)) /\ ~(src.loopback /\ (\A a \in dst : a.loopback))
      BY Zenon, <2>1, <2>5
    <3>2. routing.owner[src] # routing.egress[key]
      BY Zenon, <1>2, <2>2, <2>5
    <3>3. ~TrueAnswer(key)
      BY Zenon, <1>6, <3>1, <3>2
    <3>4. (src.loopback /\ (\E a \in dst : a.loopback)) = FALSE
      BY Zenon, <3>1
    <3>5. Shortcut(key) = {FALSE} \/ Shortcut(key) = {}
      BY ZenonT(60), <1>7, <1>9, <3>1, <3>4
    <3> QED BY Zenon, <3>2, <3>3, <3>5 DEF src
  <2> QED BY Zenon, <1>2, <2>2, <2>3, <2>4, <2>5
<1> QED BY Zenon, <1>8, <1>9 DEF src

\* No thread has looked yet.
LEMMA RouteInitOK == RouteInit => RouteInv
BY DEF RouteInit, RouteInv, CheckerOK, IdleChecker, Known

\* An idle thread knows nothing.
LEMMA IdleCheckerOK == CheckerOK(IdleChecker)
BY Zenon DEF CheckerOK, IdleChecker

\* An interface a reply names is the one packets leave through.
LEMMA EgressIsTrue ==
    ASSUME NEW oif, NEW reply \in Replies(oif), NEW x \in EgressOf(reply)
    PROVE  x = oif
<1>1. PICK i \in DOMAIN reply : reply[i].oif # NoNic /\ x = reply[i].oif
  BY Zenon DEF EgressOf
<1>2. \A j \in DOMAIN reply : reply[j].oif \in {oif, NoNic}
  BY DEF Replies, Message
<1> QED BY Zenon, <1>1, <1>2

\* What is right for a thread stays right while the routing stays.
LEMMA SameView ==
    ASSUME UNCHANGED <<cacheKind, asked, routing, changes>>, \A u \in Checkers : CheckerOK(checker'[u])
    PROVE  \A u \in Checkers : CheckerOK(checker[u])'
<1>1. \A x : TrueAnswer(x)' <=> TrueAnswer(x)
  BY Zenon DEF TrueAnswer
<1>2. \A x : Shortcut(x)' = Shortcut(x)
  BY Zenon DEF Shortcut
<1>3. \A x : CheckerOK(x) => /\ x \in [at : {"idle", "compute", "egress", "store"}, key : asked' \cup {<<>>},
                                       nic : {x.nic}, value : BOOLEAN]
                             /\ x.at # "idle" => x.key \in asked'
                             /\ changes' = 0 /\ x.at = "egress" =>
                                  x.nic = routing'.owner[x.key[1]] /\ Shortcut(x.key)' = {}
                             /\ changes' = 0 /\ x.at = "store" => (x.value <=> TrueAnswer(x.key)')
  BY Zenon, <1>1, <1>2 DEF CheckerOK
<1> QED BY Zenon, <1>3 DEF CheckerOK

\* One thread moves, to a state that is right, and the routing stays.
LEMMA CheckerMoves ==
    ASSUME RouteInv, UNCHANGED <<cacheKind, asked, routing, changes>>,
           NEW t \in Checkers, NEW c, CheckerOK(c), checker' = [checker EXCEPT ![t] = c]
    PROVE  /\ (cacheKind \in {"route", "v1"} /\ asked \in Questions /\ routing \in Routings /\ changes \in Nat)'
           /\ (checker = [u \in Checkers |-> checker[u]])'
           /\ \A u \in Checkers : CheckerOK(checker[u])'
<1>1. \A u \in Checkers : checker'[u] = IF u = t THEN c ELSE checker[u]
  BY Zenon DEF RouteInv
<1>2. \A u \in Checkers : CheckerOK(checker'[u])
  BY Zenon, <1>1 DEF RouteInv
<1>3. \A u \in Checkers : CheckerOK(checker[u])'
  BY Zenon, <1>2, SameView
<1> QED BY Zenon, <1>3 DEF RouteInv

\* An answer that is cached, or right, is given.
LEMMA AnswerKeeps ==
    ASSUME RouteInv, UNCHANGED <<cacheKind, asked, routing, changes>>,
           NEW t \in Checkers, NEW key, NEW value \in BOOLEAN, Answer(t, key, value),
           changes = 0 => (value <=> TrueAnswer(key)),
           \A k \in DOMAIN routes : k \in DOMAIN routes' /\ routes'[k] = routes[k],
           \A k \in DOMAIN routes' : k \notin DOMAIN routes => k = key /\ routes'[k] \in BOOLEAN
                                      /\ (changes = 0 => (routes'[k] <=> TrueAnswer(k))),
           cacheKind = "route" => key \in DOMAIN routes' /\ routes'[key] = value
    PROVE  RouteInv'
<1>1. checker' = [checker EXCEPT ![t] = IdleChecker] /\ answers' = answers \cup {Told(key, value, FALSE)}
  BY Zenon DEF Answer
<1>2. \A x : TrueAnswer(x)' <=> TrueAnswer(x)
  BY Zenon DEF TrueAnswer
<1>3. \A k \in DOMAIN routes' : routes'[k] \in BOOLEAN /\ (changes' = 0 => (routes'[k] <=> TrueAnswer(k)'))
  BY Zenon, <1>2 DEF RouteInv
<1>4. PICK a : a = Told(key, value, FALSE)
  BY Zenon
<1>5. a.key = key /\ a.value = value
  BY Zenon, <1>4 DEF Told
<1>6. \A b \in Known' : b \in Known \/ b = a
  BY Zenon, <1>1, <1>4 DEF Known
<1>7. \A b \in Known' : b.value \in BOOLEAN /\ (changes' = 0 => (b.value <=> TrueAnswer(b.key)'))
  <2>1. \A b \in Known : b.value \in BOOLEAN /\ (changes' = 0 => (b.value <=> TrueAnswer(b.key)'))
    BY Zenon, <1>2 DEF RouteInv
  <2>2. a.value \in BOOLEAN /\ (changes' = 0 => (a.value <=> TrueAnswer(a.key)'))
    BY Zenon, <1>2, <1>5
  <2> QED BY Zenon, <1>6, <2>1, <2>2
<1>8. cacheKind' = "route" => \A b \in Known' : b.key \in DOMAIN routes' /\ routes'[b.key] = b.value
  <2>1. cacheKind' = "route" => \A b \in Known : b.key \in DOMAIN routes' /\ routes'[b.key] = b.value
    BY Zenon DEF RouteInv
  <2> QED BY Zenon, <1>5, <1>6, <2>1
<1>9. /\ (cacheKind \in {"route", "v1"} /\ asked \in Questions /\ routing \in Routings /\ changes \in Nat)'
      /\ (checker = [u \in Checkers |-> checker[u]])'
      /\ \A u \in Checkers : CheckerOK(checker[u])'
  BY Zenon, <1>1, CheckerMoves, IdleCheckerOK
<1> QED BY Zenon, <1>3, <1>7, <1>8, <1>9 DEF RouteInv

\* A thread moves and tells nothing that it knows.
LEMMA QuietKeeps ==
    ASSUME RouteInv, UNCHANGED <<cacheKind, asked, routing, routes, changes>>, Known' = Known,
           NEW t \in Checkers, NEW c, CheckerOK(c), checker' = [checker EXCEPT ![t] = c]
    PROVE  RouteInv'
<1>1. \A x : TrueAnswer(x)' <=> TrueAnswer(x)
  BY Zenon DEF TrueAnswer
<1>2. /\ (cacheKind \in {"route", "v1"} /\ asked \in Questions /\ routing \in Routings /\ changes \in Nat)'
      /\ (checker = [u \in Checkers |-> checker[u]])'
      /\ \A u \in Checkers : CheckerOK(checker[u])'
  BY Zenon, CheckerMoves
<1>3. /\ \A key \in DOMAIN routes' : routes'[key] \in BOOLEAN /\ (changes' = 0 => (routes'[key] <=> TrueAnswer(key)'))
      /\ \A a \in Known' : a.value \in BOOLEAN /\ (changes' = 0 => (a.value <=> TrueAnswer(a.key)'))
      /\ cacheKind' = "route" => \A a \in Known' : a.key \in DOMAIN routes' /\ routes'[a.key] = a.value
  BY Zenon, <1>1 DEF RouteInv
<1> QED BY Zenon, <1>2, <1>3 DEF RouteInv

\* The cache answers, or the thread goes to find out.
LEMMA LookupKeeps ==
    ASSUME RouteInv, NEW t \in Checkers, NEW key \in asked, Lookup(t, key)
    PROVE  RouteInv'
<1>1. CASE key \in DOMAIN routes /\ Answer(t, key, routes[key])
  <2>1. routes[key] \in BOOLEAN /\ (changes = 0 => (routes[key] <=> TrueAnswer(key)))
    BY Zenon, <1>1 DEF RouteInv
  <2>2. UNCHANGED <<cacheKind, asked, routing, routes, changes>>
    BY Zenon DEF Lookup
  <2> QED BY Zenon, <1>1, <2>1, <2>2, AnswerKeeps
<1>2. CASE /\ checker' = [checker EXCEPT ![t] = [IdleChecker EXCEPT !.at = "compute", !.key = key]]
           /\ UNCHANGED answers
  <2>1. CheckerOK([IdleChecker EXCEPT !.at = "compute", !.key = key])
    BY Zenon DEF CheckerOK, IdleChecker
  <2>2. UNCHANGED <<cacheKind, asked, routing, routes, changes>>
    BY Zenon DEF Lookup
  <2> QED BY Zenon, <1>2, <2>1, <2>2, QuietKeeps DEF Known
<1> QED BY Zenon, <1>1, <1>2 DEF Lookup

\* What a thread says when the kernel does not answer is a failure, if it says anything.
LEMMA FailKeeps ==
    ASSUME RouteInv, NEW t \in Checkers, Fail(t), UNCHANGED <<cacheKind, asked, routing, routes, changes>>
    PROVE  RouteInv'
<1>1. checker' = [checker EXCEPT ![t] = IdleChecker]
  BY Zenon DEF Fail
<1>2. PICK a : a = Told(checker[t].key, FALSE, TRUE)
  BY Zenon
<1>3. a.failed
  BY Zenon, <1>2 DEF Told
<1>4. answers' = answers \/ answers' = answers \cup {a}
  BY Zenon, <1>2 DEF Fail
<1>5. Known' = Known
  BY Zenon, <1>3, <1>4 DEF Known
<1> QED BY Zenon, <1>1, <1>5, IdleCheckerOK, QuietKeeps

\* A thread knows the answer, or the interface that has the source.
LEMMA ComputeOwnerKeeps ==
    ASSUME RouteInv, NEW t \in Checkers, ComputeOwner(t)
    PROVE  RouteInv'
<1> DEFINE c == checker[t]
<1>1. CheckerOK(c) /\ c.at = "compute" /\ c.key \in asked /\ UNCHANGED <<cacheKind, asked, routing, routes, changes>>
  BY Zenon DEF RouteInv, ComputeOwner, CheckerOK
<1>2. ASSUME NEW v \in Shortcut(c.key),
             checker' = [checker EXCEPT ![t].at = "store", ![t].value = v], UNCHANGED answers
      PROVE  RouteInv'
  <2> DEFINE d == [c EXCEPT !.at = "store", !.value = v]
  <2>1. v \in BOOLEAN /\ (v <=> TrueAnswer(c.key))
    BY Zenon, <1>1, <1>2, ShortcutIsTrue
  <2>2. checker' = [checker EXCEPT ![t] = d]
    BY Zenon, <1>2
  <2>3. d \in [at : {"store"}, key : {c.key}, nic : {d.nic}, value : {v}]
    BY Zenon, <1>1 DEF CheckerOK
  <2> HIDE DEF d, c
  <2>4. CheckerOK(d)
    BY Zenon, <1>1, <2>1, <2>3 DEF CheckerOK
  <2> QED BY Zenon, <1>1, <1>2, <2>2, <2>4, QuietKeeps DEF Known
<1>3. ASSUME Shortcut(c.key) = {}, UNCHANGED answers,
             checker' = [checker EXCEPT ![t].at = "egress", ![t].nic = routing.owner[c.key[1]]]
      PROVE  RouteInv'
  <2> DEFINE d == [c EXCEPT !.at = "egress", !.nic = routing.owner[c.key[1]]]
  <2>1. checker' = [checker EXCEPT ![t] = d]
    BY Zenon, <1>3
  <2>2. d \in [at : {"egress"}, key : {c.key}, nic : {routing.owner[c.key[1]]}, value : BOOLEAN]
    BY ZenonT(60), <1>1 DEF CheckerOK
  <2> HIDE DEF d, c
  <2>3. CheckerOK(d)
    BY Zenon, <1>1, <1>3, <2>2 DEF CheckerOK
  <2> QED BY Zenon, <1>1, <1>3, <2>1, <2>3, QuietKeeps DEF Known
<1>4. CASE Fail(t)
  BY Zenon, <1>1, <1>4, FailKeeps
<1> QED BY SMTT(30), <1>2, <1>3, <1>4 DEF ComputeOwner

\* The interface packets leave through is compared with the one that has the source.
LEMMA ComputeEgressKeeps ==
    ASSUME RouteInv, NEW t \in Checkers, ComputeEgress(t)
    PROVE  RouteInv'
<1> DEFINE c == checker[t]
<1>1. CheckerOK(c) /\ c.at = "egress" /\ c.key \in asked /\ UNCHANGED <<cacheKind, asked, routing, routes, changes>>
  BY Zenon DEF RouteInv, ComputeEgress, CheckerOK
<1>2. ASSUME NEW reply \in Replies(routing.egress[c.key]), NEW oif \in EgressOf(reply),
             checker' = [checker EXCEPT ![t].at = "store", ![t].value = (oif = c.nic)], UNCHANGED answers
      PROVE  RouteInv'
  <2> DEFINE d == [c EXCEPT !.at = "store", !.value = (oif = c.nic)]
  <2>1. checker' = [checker EXCEPT ![t] = d]
    BY Zenon, <1>2
  <2>2. d \in [at : {"store"}, key : {c.key}, nic : {c.nic}, value : {oif = c.nic}]
    BY Zenon, <1>1 DEF CheckerOK
  <2>3. oif = routing.egress[c.key]
    BY Zenon, <1>2, EgressIsTrue
  <2>4. changes = 0 => ((oif = c.nic) <=> TrueAnswer(c.key))
    BY Zenon, <1>1, <2>3, ShortcutIsTrue DEF CheckerOK
  <2> HIDE DEF d, c
  <2>5. d.at = "store" /\ d.key = c.key /\ d.value = (oif = c.nic) /\ d.nic = c.nic
    BY Zenon, <2>2
  <2>6. CheckerOK(d)
    BY Zenon, <1>1, <2>2, <2>4, <2>5 DEF CheckerOK
  <2> QED BY Zenon, <1>1, <1>2, <2>1, <2>6, QuietKeeps DEF Known
<1>3. CASE Fail(t)
  BY Zenon, <1>1, <1>3, FailKeeps
<1> QED BY Zenon, <1>2, <1>3 DEF ComputeEgress

\* The first writer wins; Route::Check answers what is cached.
LEMMA StoreKeeps ==
    ASSUME RouteInv, NEW t \in Checkers, Store(t)
    PROVE  RouteInv'
<1> DEFINE key == checker[t].key
           cached == IF key \in DOMAIN routes THEN routes[key] ELSE checker[t].value
           value == IF cacheKind = "route" THEN cached ELSE checker[t].value
<1>1. /\ checker[t].value \in BOOLEAN /\ (changes = 0 => (checker[t].value <=> TrueAnswer(key)))
      /\ UNCHANGED <<cacheKind, asked, routing, changes>>
  BY Zenon DEF RouteInv, Store, CheckerOK
<1>2. cached \in BOOLEAN /\ (changes = 0 => (cached <=> TrueAnswer(key)))
  BY Zenon, <1>1 DEF RouteInv
<1>3. value \in BOOLEAN /\ (changes = 0 => (value <=> TrueAnswer(key)))
  BY Zenon, <1>1, <1>2
<1>4. Answer(t, key, value) /\ routes' = [k \in DOMAIN routes \cup {key} |-> IF k = key THEN cached ELSE routes[k]]
  BY Zenon DEF Store
<1>5. /\ \A k \in DOMAIN routes : k \in DOMAIN routes' /\ routes'[k] = routes[k]
      /\ \A k \in DOMAIN routes' : k \notin DOMAIN routes => k = key /\ routes'[k] = cached
      /\ cacheKind = "route" => key \in DOMAIN routes' /\ routes'[key] = value
  BY Zenon, <1>4
<1> HIDE DEF key, cached, value
<1>6. \A k \in DOMAIN routes' : k \notin DOMAIN routes => k = key /\ routes'[k] \in BOOLEAN
                                  /\ (changes = 0 => (routes'[k] <=> TrueAnswer(k)))
  BY Zenon, <1>2, <1>5
<1> QED BY ZenonT(60), <1>1, <1>3, <1>4, <1>5, <1>6, AnswerKeeps

\* Clear forgets the answers, and a change of the routing what is true.
LEMMA ClearOrChangeKeeps ==
    ASSUME RouteInv, Clear \/ RoutingChanges
    PROVE  RouteInv'
<1>1. CASE Clear
  <2>1. /\ UNCHANGED <<cacheKind, asked, routing, checker, changes>>
        /\ routes' = <<>> /\ answers' = {}
    BY Zenon, <1>1 DEF Clear
  <2>3. \A t \in Checkers : CheckerOK(checker[t])'
    BY Zenon, <2>1, SameView DEF RouteInv
  <2> QED BY <2>1, <2>3 DEF RouteInv, Known
<1>2. CASE RoutingChanges
  <2>1. /\ UNCHANGED <<cacheKind, asked, routes, checker, answers>>
        /\ routing' \in Routings /\ changes' \in Nat /\ changes' # 0
    BY <1>2 DEF RoutingChanges, RouteInv
  <2>2. \A t \in Checkers : CheckerOK(checker[t])'
    BY Zenon, <2>1 DEF RouteInv, CheckerOK
  <2> QED BY Zenon, <2>1, <2>2 DEF RouteInv, Known
<1> QED BY Zenon, <1>1, <1>2

\* RouteInv is inductive.
LEMMA RouteInvHolds == RouteSpec => []RouteInv
<1>1. RouteInv /\ [RouteNext]_routeVars => RouteInv'
  <2> SUFFICES ASSUME RouteInv, [RouteNext]_routeVars
               PROVE  RouteInv'
    OBVIOUS
  <2>1. ASSUME NEW t \in Checkers, NEW key \in asked, Lookup(t, key)
        PROVE  RouteInv'
    BY Zenon, <2>1, LookupKeeps
  <2>2. ASSUME NEW t \in Checkers, ComputeOwner(t) \/ ComputeEgress(t) \/ Store(t)
        PROVE  RouteInv'
    BY Zenon, <2>2, ComputeOwnerKeeps, ComputeEgressKeeps, StoreKeeps
  <2>3. CASE Clear \/ RoutingChanges
    BY Zenon, <2>3, ClearOrChangeKeeps
  <2>4. CASE UNCHANGED routeVars
    <3>1. \A t \in Checkers : CheckerOK(checker[t])'
      BY Zenon, <2>4, SameView DEF routeVars, RouteInv
    <3>2. \A x : TrueAnswer(x)' <=> TrueAnswer(x)
      BY Zenon, <2>4 DEF routeVars, TrueAnswer
    <3>3. /\ \A key \in DOMAIN routes' : routes'[key] \in BOOLEAN /\ (changes' = 0 => (routes'[key] <=> TrueAnswer(key)'))
          /\ \A a \in Known' : a.value \in BOOLEAN /\ (changes' = 0 => (a.value <=> TrueAnswer(a.key)'))
      BY Zenon, <2>4, <3>2 DEF routeVars, RouteInv, Known
    <3> QED BY Zenon, <2>4, <3>1, <3>3 DEF routeVars, RouteInv, Known
  <2> QED BY Zenon, <2>1, <2>2, <2>3, <2>4 DEF RouteNext
<1> QED BY <1>1, RouteInitOK, PTL DEF RouteSpec

(* Two answers of Route::Check for one question agree, whatever the threads that asked and
   however their lookups, computations and stores interleave. *)
THEOREM RouteAnswersAgree == RouteSpec => []AnswersAgree
<1>1. RouteInv => AnswersAgree
  BY ZenonT(60) DEF RouteInv, AnswersAgree, Known
<1> QED BY <1>1, RouteInvHolds, PTL

(* As long as the routing does not change, what either cache answers is what the kernel's
   tables say, also when it comes from a shortcut or from another thread's computation. *)
THEOREM RouteAnswersAreTrue == RouteSpec => []AnswersAreTrue
<1>1. RouteInv => AnswersAreTrue
  BY Zenon DEF RouteInv, AnswersAreTrue, TrueAnswer, Known
<1> QED BY <1>1, RouteInvHolds, PTL

-----------------------------------------------------------------------------
\* The rate limiter.

SlotRecords == [start : Nat, from : Nat, to : Nat]
DoneRecords == [start : Nat, from : Nat, to : Nat, end : Nat]

(* What a reservation of Consume costs is a natural number. *)
LEMMA CostIsNat == \A bytes \in Sizes : bytes * NsPerByte \in Nat
BY RateAssumption

(* The clock, the timeline and the reservations keep their types. *)
THEOREM RateTypeCorrect == RateSpec => []RateTypeOK
<1>1. RateInit => RateTypeOK
  BY RateAssumption DEF RateInit, RateTypeOK
<1>2. RateTypeOK /\ [RateNext]_rateVars => RateTypeOK'
  <2> SUFFICES ASSUME RateTypeOK, [RateNext]_rateVars PROVE RateTypeOK'
    OBVIOUS
  <2> USE RateAssumption
  <2>1. ASSUME NEW t \in Consumers, NEW bytes \in Sizes, Consume(t, bytes) PROVE RateTypeOK'
    <3>1. bytes * NsPerByte \in Nat
      BY Zenon, CostIsNat
    <3> DEFINE cost == bytes * NsPerByte
    <3>2. cost \in Nat
      BY Zenon, <3>1
    <3> HIDE DEF cost
    <3>3. ~(bytes >= 1) => UNCHANGED <<deadline, slot>>
      BY Zenon, <2>1 DEF Consume
    <3> DEFINE from == IF now > deadline THEN now ELSE deadline
    <3>4. from \in Nat /\ from + cost \in Nat
      BY <3>2 DEF RateTypeOK
    <3>5. \/ UNCHANGED <<deadline, slot>>
          \/ /\ deadline' = from + cost
             /\ slot' = [slot EXCEPT ![t] = [start |-> now, from |-> from, to |-> from + cost]]
      BY Zenon, <2>1 DEF Consume, cost
    <3>6. consumes' \in 0 .. MaxConsumes /\ now' = now /\ done' = done
      BY <2>1 DEF Consume, RateTypeOK
    <3> HIDE DEF from
    <3> QED BY <3>4, <3>5, <3>6 DEF RateTypeOK
  <2>2. ASSUME NEW t \in Consumers, Wake(t) PROVE RateTypeOK'
    <3>1. slot[t] \in SlotRecords
      BY Zenon, <2>2 DEF Wake, Sleeping, RateTypeOK, SlotRecords
    <3> QED BY <2>2, <3>1 DEF Wake, RateTypeOK, SlotRecords
  <2>3. CASE Tick
    BY <2>3 DEF Tick, RateTypeOK
  <2>4. CASE UNCHANGED rateVars
    BY ZenonT(60), <2>4 DEF rateVars, RateTypeOK
  <2> QED BY Zenon, <2>1, <2>2, <2>3, <2>4 DEF RateNext
<1> QED BY <1>1, <1>2, PTL DEF RateSpec

-----------------------------------------------------------------------------
\* SlotsDisjoint without the set Slots.
DoneBounded == \A c \in done : c.from <= c.to /\ c.to <= deadline
SleepersBounded ==
    \A t \in Consumers : Sleeping(t) => slot[t].from <= slot[t].to /\ slot[t].to <= deadline
SleepersApart ==
    \A t, u \in Consumers : t # u /\ Sleeping(t) /\ Sleeping(u) =>
         slot[t].to <= slot[u].from \/ slot[u].to <= slot[t].from
DoneApart ==
    \A c \in done : \A t \in Consumers : Sleeping(t) =>
         c.to <= slot[t].from \/ slot[t].to <= c.from
Apart == DoneBounded /\ SleepersBounded /\ SleepersApart /\ DoneApart

(* Slots that are bounded and apart pairwise are disjoint as the property says. *)
LEMMA ApartIsDisjoint == Apart => SlotsDisjoint
BY DEF Apart, DoneBounded, SleepersBounded, SleepersApart, DoneApart, SlotsDisjoint, Slots

(* A reservation begins where the timeline ends, so it meets no other. *)
LEMMA ConsumeKeepsApart ==
    ASSUME RateTypeOK, Apart, NEW t \in Consumers, NEW bytes \in Sizes, Consume(t, bytes)
    PROVE  Apart'
<1> DEFINE cost == bytes * NsPerByte
           from == IF now > deadline THEN now ELSE deadline
           mine == [start |-> now, from |-> from, to |-> from + cost]
<1>1. cost \in Nat
  BY Zenon, CostIsNat
<1>2. \/ UNCHANGED <<deadline, slot>>
      \/ deadline' = from + cost /\ slot' = [slot EXCEPT ![t] = mine]
  BY Zenon DEF Consume
<1>3. done' = done
  BY Zenon DEF Consume
<1>4. CASE UNCHANGED <<deadline, slot>>
  BY Zenon, <1>3, <1>4 DEF Apart, DoneBounded, SleepersBounded, SleepersApart, DoneApart, Sleeping
<1>5. CASE deadline' = from + cost /\ slot' = [slot EXCEPT ![t] = mine]
  <2> HIDE DEF cost
  <2>1. /\ from \in Nat /\ deadline <= from /\ mine.from = from /\ mine.to = from + cost
        /\ deadline \in Int /\ deadline' \in Int
    BY <1>1, <1>5 DEF RateTypeOK
  <2>2. /\ slot'[t] = mine
        /\ \A u \in Consumers \ {t} : slot'[u] = slot[u] /\ (Sleeping(u)' <=> Sleeping(u))
    BY Zenon, <1>5 DEF RateTypeOK, Sleeping
  <2> HIDE DEF from, mine
  <2>3. \A u \in Consumers : Sleeping(u) => slot[u] \in SlotRecords
    BY Zenon DEF RateTypeOK, Sleeping, SlotRecords
  <2>4. \A u \in Consumers \ {t} : Sleeping(u)' =>
            /\ slot'[u].from \in Nat /\ slot'[u].to \in Nat
            /\ slot'[u].from <= slot'[u].to /\ slot'[u].to <= from
    <3> TAKE u \in Consumers \ {t}
    <3> HAVE Sleeping(u)'
    <3>1. slot[u] \in SlotRecords /\ slot'[u] = slot[u] /\ Sleeping(u)
      BY Zenon, <2>2, <2>3
    <3>2. slot[u].from <= slot[u].to /\ slot[u].to <= deadline
      BY Zenon, <3>1 DEF Apart, SleepersBounded
    <3> QED BY SMTT(60), <2>1, <3>1, <3>2 DEF SlotRecords
  <2>5. \A c \in done : c.from \in Nat /\ c.to \in Nat /\ c.from <= c.to /\ c.to <= from
    BY <2>1 DEF Apart, DoneBounded, RateTypeOK
  <2>6. DoneBounded'
    BY SMTT(60), <1>1, <1>3, <1>5, <2>1, <2>5 DEF DoneBounded
  <2>7. SleepersBounded'
    BY <1>1, <1>5, <2>1, <2>2, <2>4 DEF SleepersBounded
  <2>8. SleepersApart'
    <3> SUFFICES ASSUME NEW u \in Consumers, NEW v \in Consumers, u # v, Sleeping(u)', Sleeping(v)'
                 PROVE  slot'[u].to <= slot'[v].from \/ slot'[v].to <= slot'[u].from
      BY Zenon DEF SleepersApart
    <3>1. CASE u = t
      BY Zenon, <2>1, <2>2, <2>4, <3>1
    <3>2. CASE v = t
      BY Zenon, <2>1, <2>2, <2>4, <3>2
    <3>3. CASE u # t /\ v # t
      BY Zenon, <2>2, <3>3 DEF Apart, SleepersApart
    <3> QED BY Zenon, <3>1, <3>2, <3>3
  <2>9. DoneApart'
    <3> SUFFICES ASSUME NEW c \in done, NEW u \in Consumers, Sleeping(u)'
                 PROVE  c.to <= slot'[u].from \/ slot'[u].to <= c.from
      BY Zenon, <1>3 DEF DoneApart
    <3>1. CASE u = t
      BY Zenon, <2>1, <2>2, <2>5, <3>1
    <3>2. CASE u # t
      BY Zenon, <2>2, <3>2 DEF Apart, DoneApart
    <3> QED BY Zenon, <3>1, <3>2
  <2> QED BY Zenon, <2>6, <2>7, <2>8, <2>9 DEF Apart
<1> QED BY Zenon, <1>2, <1>4, <1>5

(* The slots of the calls of BlockingRateLimiter, sleeping or returned, do not
   overlap, however the threads interleave and are delayed. *)
THEOREM SlotsNeverOverlap == RateSpec => []SlotsDisjoint
<1>1. RateInit => Apart
  BY Zenon DEF RateInit, Apart, DoneBounded, SleepersBounded, SleepersApart, DoneApart, Sleeping
<1>2. RateTypeOK /\ Apart /\ [RateNext]_rateVars => Apart'
  <2> SUFFICES ASSUME RateTypeOK, Apart, [RateNext]_rateVars PROVE Apart'
    OBVIOUS
  <2>1. ASSUME NEW t \in Consumers, NEW bytes \in Sizes, Consume(t, bytes) PROVE Apart'
    BY Zenon, <2>1, ConsumeKeepsApart
  <2>2. ASSUME NEW t \in Consumers, Wake(t) PROVE Apart'
    <3> DEFINE mine == [start |-> slot[t].start, from |-> slot[t].from, to |-> slot[t].to, end |-> now]
    <3>1. /\ Sleeping(t) /\ deadline' = deadline /\ done' = done \cup {mine}
          /\ mine.from = slot[t].from /\ mine.to = slot[t].to
      BY Zenon, <2>2 DEF Wake
    <3>2. /\ ~Sleeping(t)'
          /\ \A u \in Consumers \ {t} : slot'[u] = slot[u] /\ (Sleeping(u)' <=> Sleeping(u))
      BY Zenon, <2>2 DEF Wake, RateTypeOK, Sleeping
    <3> HIDE DEF mine
    <3>3. DoneBounded'
      BY Zenon, <3>1 DEF Apart, DoneBounded, SleepersBounded
    <3>4. SleepersBounded' /\ SleepersApart'
      BY Zenon, <3>1, <3>2 DEF Apart, SleepersBounded, SleepersApart
    <3>5. DoneApart'
      BY Zenon, <3>1, <3>2 DEF Apart, DoneApart, SleepersApart
    <3> QED BY Zenon, <3>3, <3>4, <3>5 DEF Apart
  <2>3. CASE Tick
    BY Zenon, <2>3 DEF Tick, Apart, DoneBounded, SleepersBounded, SleepersApart, DoneApart, Sleeping
  <2>4. CASE UNCHANGED rateVars
    BY Zenon, <2>4 DEF rateVars, Apart, DoneBounded, SleepersBounded, SleepersApart, DoneApart, Sleeping
  <2> QED BY Zenon, <2>1, <2>2, <2>3, <2>4 DEF RateNext
<1> QED BY <1>1, <1>2, RateTypeCorrect, ApartIsDisjoint, PTL DEF RateSpec

=============================================================================
