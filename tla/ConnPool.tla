------------------------------ MODULE ConnPool ------------------------------
(***************************************************************************)
(* The v1 API's pool of TCP connections, shared by threads that borrow a    *)
(* connection, return it, close the idle ones of a peer or close the pool,  *)
(* with the dialling of ConnectToPeer that Borrow falls back to.  A step is *)
(* what happens under mu_, or one system call outside it; the kernel hands  *)
(* out a closed descriptor again at any time.                               *)
(***************************************************************************)
EXTENDS Integers, Sequences

CONSTANTS
    Callers,        \* threads that use the pool
    Peers,          \* peer addresses
    Locals,         \* local IPs a stream may be bound to
    Fds,            \* descriptors the process can have open at a time
    Addresses,      \* Addresses[peer]: entries getaddrinfo returns, 0 when it fails
    MaxAttempts,    \* TPU_RAIDEN_TCP_CONNECT_MAX_ATTEMPTS
    MaxCalls        \* bound: calls of Borrow and CloseIdle altogether

NoFd == -1
ASSUME PoolAssumption ==
    /\ NoFd \notin Fds /\ MaxAttempts \in Int /\ MaxCalls \in Nat
    /\ Addresses \in [Peers -> Nat]

\* GenPoolKey: the text "<local_ip>-><peer>"; its suffix "->peer" determines the peer.
Keys == Locals \X Peers
PeerOf(key) == key[2]

VARIABLES
    pool,      \* pool_: a stack of idle descriptors for each key that has an entry
    stop,      \* stop_
    caller,    \* where each thread is and what it owns
    open,      \* the descriptors the kernel has open
    link,      \* the peer each open descriptor was dialled to
    readable,  \* the open descriptors with unread data or a hang-up
    timed,     \* the open descriptors with a send timeout
    calls      \* calls made so far

poolVars == <<pool, stop, caller, open, link, readable, timed, calls>>

NoKey == <<>>
IdleCaller == [at |-> "idle", key |-> NoKey, fd |-> NoFd, psp |-> FALSE,
               attempt |-> 0, addr |-> 1, last |-> "ok", rest |-> <<>>]

PoolInit ==
    /\ pool = <<>> /\ stop = FALSE
    /\ caller = [t \in Callers |-> IdleCaller]
    /\ open = {} /\ link = [fd \in Fds |-> NoKey]
    /\ readable = {} /\ timed = {} /\ calls = 0

\* CloseSocket on every descriptor of a set.
CloseAll(fds) ==
    /\ open' = open \ fds /\ readable' = readable \ fds /\ timed' = timed \ fds
    /\ link' = [fd \in Fds |-> IF fd \in fds THEN NoKey ELSE link[fd]]

IdleOf(key) == IF key \in DOMAIN pool THEN pool[key] ELSE <<>>
WithIdle(key, fds) == [k \in DOMAIN pool \cup {key} |-> IF k = key THEN fds ELSE pool[k]]

-----------------------------------------------------------------------------
\* Borrow

\* Whether n is the position of the descriptor that is lent: the last one that is not
\* readable, 0 when there is none.
LastQuiet(fds, n) ==
    /\ n > 0 => fds[n] \notin readable
    /\ \A i \in n + 1 .. Len(fds) : fds[i] \in readable

\* The start of ConnectToPeer, with its argument and resolver errors.
Dial(t, key, psp, channel) ==
    caller' = [caller EXCEPT ![t] =
        IF (psp /\ ~channel) \/ Addresses[PeerOf(key)] = 0 \/ MaxAttempts <= 0
        THEN IdleCaller
        ELSE [IdleCaller EXCEPT !.at = "dial", !.key = key, !.psp = psp]]

Borrow(t, key, psp, channel) ==
    LET fds == IdleOf(key)
    IN  /\ caller[t].at = "idle" /\ calls < MaxCalls /\ calls' = calls + 1
        /\ \/ /\ stop
              /\ UNCHANGED <<pool, caller, open, link, readable, timed>>
           \/ /\ ~stop /\ fds # <<>>
              /\ \E n \in 0 .. Len(fds) :
                   /\ LastQuiet(fds, n)
                   /\ pool' = WithIdle(key, SubSeq(fds, 1, n - 1))
                   /\ CloseAll({fds[i] : i \in n + 1 .. Len(fds)})
                   /\ \/ n > 0 /\ caller' = [caller EXCEPT ![t] =
                             [IdleCaller EXCEPT !.at = "holding", !.key = key, !.fd = fds[n]]]
                      \/ n = 0 /\ Dial(t, key, psp, channel)
           \/ /\ ~stop /\ fds = <<>>
              /\ Dial(t, key, psp, channel)
              /\ UNCHANGED <<pool, open, link, readable, timed>>
        /\ UNCHANGED stop

\* The rest of ConnectToPeer: for every attempt, for every address, a new socket
\* (a failing bind is only logged) and a connect bounded by SO_SNDTIMEO.
HasAddress(t) == caller[t].at = "dial" /\ caller[t].addr <= Addresses[PeerOf(caller[t].key)]

SocketFails(t) ==
    /\ HasAddress(t)
    /\ caller' = [caller EXCEPT ![t].addr = @ + 1]
    /\ UNCHANGED <<pool, stop, open, link, readable, timed, calls>>

OpenSocket(t, fd) ==
    /\ HasAddress(t) /\ fd \in Fds \ open
    /\ open' = open \cup {fd} /\ timed' = timed \cup {fd}
    /\ caller' = [caller EXCEPT ![t].at = "connecting", ![t].fd = fd]
    /\ UNCHANGED <<pool, stop, link, readable, calls>>

\* ConnectWithTimeout succeeds and restores the timeout; the loops end.
ConnectOk_timed(t) ==
    /\ caller[t].at = "connecting" /\ ~caller[t].psp
    /\ link' = [link EXCEPT ![caller[t].fd] = PeerOf(caller[t].key)]
    /\ caller' = [caller EXCEPT ![t] =
         [IdleCaller EXCEPT !.at = "holding", !.key = caller[t].key, !.fd = caller[t].fd]]
    /\ UNCHANGED <<pool, stop, open, readable, timed, calls>>
ConnectOk(t) ==
    /\ caller[t].at = "connecting" /\ ~caller[t].psp
    /\ timed' = timed \ {caller[t].fd}
    /\ link' = [link EXCEPT ![caller[t].fd] = PeerOf(caller[t].key)]
    /\ caller' = [caller EXCEPT ![t] =
         [IdleCaller EXCEPT !.at = "holding", !.key = caller[t].key, !.fd = caller[t].fd]]
    /\ UNCHANGED <<pool, stop, open, readable, calls>>

\* It times out ("deadline") or fails ("error"; always so with PSP, which this
\* build does not support): close, and go on with the next address.
ConnectFails(t, why) ==
    /\ caller[t].at = "connecting" /\ (caller[t].psp => why = "error")
    /\ CloseAll({caller[t].fd})
    /\ caller' = [caller EXCEPT ![t].at = "dial", ![t].fd = NoFd, ![t].addr = @ + 1, ![t].last = why]
    /\ UNCHANGED <<pool, stop, calls>>

\* All addresses failed: another attempt after a timeout, while there are any.
RetryOrGiveUp(t) ==
    LET again == caller[t].last = "deadline" /\ caller[t].attempt + 1 < MaxAttempts
    IN  /\ caller[t].at = "dial" /\ ~HasAddress(t)
        /\ \/ again /\ caller' = [caller EXCEPT ![t].attempt = @ + 1, ![t].addr = 1]
           \/ ~again /\ caller' = [caller EXCEPT ![t] = IdleCaller]
        /\ UNCHANGED <<pool, stop, open, link, readable, timed, calls>>

-----------------------------------------------------------------------------
\* Return, CloseIdle and Close

Return(t, ok) ==
    LET fd == caller[t].fd
        key == caller[t].key
    IN  /\ caller[t].at = "holding"
        /\ caller' = [caller EXCEPT ![t] = IdleCaller]
        /\ \/ ok /\ ~stop /\ pool' = WithIdle(key, Append(IdleOf(key), fd))
              /\ UNCHANGED <<open, link, readable, timed>>
           \/ (~ok \/ stop) /\ CloseAll({fd}) /\ UNCHANGED pool
        /\ UNCHANGED <<stop, calls>>

\* The entries of the peer leave the pool under mu_, and are closed after it.
CloseIdle_kept(t, peer) ==
    LET to_close == [k \in {k \in DOMAIN pool : PeerOf(k) = peer} |-> pool[k]]
    IN  /\ caller[t].at = "idle" /\ calls < MaxCalls /\ calls' = calls + 1
        /\ caller' = [caller EXCEPT ![t] = [IdleCaller EXCEPT !.at = "closing", !.rest = to_close]]
        /\ UNCHANGED <<pool, stop, open, link, readable, timed>>
CloseIdle(t, peer) ==
    LET to_close == [k \in {k \in DOMAIN pool : PeerOf(k) = peer} |-> pool[k]]
    IN  /\ caller[t].at = "idle" /\ calls < MaxCalls /\ calls' = calls + 1
        /\ pool' = [k \in {k \in DOMAIN pool : PeerOf(k) # peer} |-> pool[k]]
        /\ caller' = [caller EXCEPT ![t] = [IdleCaller EXCEPT !.at = "closing", !.rest = to_close]]
        /\ UNCHANGED <<stop, open, link, readable, timed>>

\* The order of the entries is that of a hash map.
CloseNext(t) ==
    LET left == {k \in DOMAIN caller[t].rest : caller[t].rest[k] # <<>>}
    IN  /\ caller[t].at = "closing"
        /\ \/ \E k \in left :
                /\ CloseAll({Head(caller[t].rest[k])})
                /\ caller' = [caller EXCEPT ![t].rest[k] = Tail(@)]
           \/ /\ left = {} /\ caller' = [caller EXCEPT ![t] = IdleCaller]
              /\ UNCHANGED <<open, link, readable, timed>>
        /\ UNCHANGED <<pool, stop, calls>>

Close ==
    /\ ~stop /\ stop' = TRUE /\ pool' = <<>>
    /\ CloseAll(UNION {{pool[k][i] : i \in DOMAIN pool[k]} : k \in DOMAIN pool})
    /\ UNCHANGED <<caller, calls>>

\* The peer sends something or hangs up on a connection.
Arrive(fd) ==
    /\ fd \in open \ readable /\ link[fd] # NoKey
    /\ readable' = readable \cup {fd}
    /\ UNCHANGED <<pool, stop, caller, open, link, timed, calls>>

Call(t) ==
    \/ \E key \in Keys, psp, channel \in BOOLEAN : Borrow(t, key, psp, channel)
    \/ \E peer \in Peers : CloseIdle(t, peer)

Progress(t) ==
    \/ SocketFails(t)
    \/ \E fd \in Fds : OpenSocket(t, fd)
    \/ ConnectOk(t)
    \/ \E why \in {"deadline", "error"} : ConnectFails(t, why)
    \/ RetryOrGiveUp(t)
    \/ CloseNext(t)

PoolNext ==
    \/ \E t \in Callers : Call(t) \/ Progress(t) \/ (\E ok \in BOOLEAN : Return(t, ok))
    \/ Close
    \/ \E fd \in Fds : Arrive(fd)

-----------------------------------------------------------------------------
\* The values of the pool's state: a caller of Borrow has a descriptor exactly while it
\* dials or holds one, and only open descriptors are readable or have a timeout.
PoolTypeOK ==
    /\ DOMAIN pool \subseteq Keys /\ \A k \in DOMAIN pool : pool[k] \in Seq(Fds)
    /\ stop \in BOOLEAN /\ calls \in 0 .. MaxCalls
    /\ open \subseteq Fds /\ readable \subseteq open /\ timed \subseteq open
    /\ link \in [Fds -> Peers \cup {NoKey}]
    /\ \A t \in Callers :
         /\ caller[t].at \in {"idle", "dial", "connecting", "holding", "closing"}
         /\ caller[t].at \in {"connecting", "holding"} <=> caller[t].fd \in Fds
         /\ caller[t].attempt \in Nat /\ caller[t].addr \in Nat \ {0}
         /\ caller[t].last \in {"ok", "deadline", "error"}
         /\ \A k \in DOMAIN caller[t].rest : caller[t].rest[k] \in Seq(Fds)

\* The places where a descriptor is held: a position of a stack of the pool, a
\* caller, or a position of a stack that a CloseIdle is closing.
PoolPlaces(fd) ==
    UNION {{<<"pool", k, i>> : i \in {i \in DOMAIN pool[k] : pool[k][i] = fd}} : k \in DOMAIN pool}
CallerPlaces(fd) == {<<"caller", t>> : t \in {t \in Callers : caller[t].fd = fd}}
ClosingPlaces(fd) ==
    UNION {UNION {{<<"rest", t, k, i>> : i \in {i \in DOMAIN caller[t].rest[k] : caller[t].rest[k][i] = fd}} :
                  k \in DOMAIN caller[t].rest} : t \in Callers}
Places(fd) == PoolPlaces(fd) \cup CallerPlaces(fd) \cup ClosingPlaces(fd)

\* Every open descriptor is in exactly one place and no closed one is in any, however
\* Borrow, Return, CloseIdle and Close interleave and whichever descriptor numbers
\* the kernel hands out again: nothing is leaked, closed twice or used after its close.
OwnedOnce ==
    \A fd \in Fds : IF fd \in open THEN \E x \in Places(fd) : Places(fd) = {x} ELSE Places(fd) = {}

\* Once Close has run the pool holds nothing, also when connections are returned
\* or dialled later: what the destructor of ConnPool asserts (conn_pool.h:29).
ClosedIsEmpty == stop => DOMAIN pool = {}

\* What Borrow hands out, and what waits in the pool, is a connection to the peer
\* asked for, without the timeout that bounded its connect.
LentToItsPeer ==
    /\ \A t \in Callers : caller[t].at = "holding" =>
         link[caller[t].fd] = PeerOf(caller[t].key) /\ caller[t].fd \notin timed
    /\ \A k \in DOMAIN pool : \A i \in DOMAIN pool[k] :
         link[pool[k][i]] = PeerOf(k) /\ pool[k][i] \notin timed

=============================================================================
