----------------------------- MODULE EngineLife -----------------------------
(***************************************************************************)
(* The life of an Engine: its main thread dials peers through EngineHelper  *)
(* and TcpManager and makes send workers of the sockets, its tcpmgr thread  *)
(* makes recv workers of the accepted ones, every worker runs a send and a  *)
(* recv loop, and the destructor joins and destroys all of it, in the       *)
(* reverse order of the members.  What the workers carry is in Transport.   *)
(***************************************************************************)
EXTENDS TcpManager

CONSTANTS
    Main,          \* the main thread, as a caller of TcpManager::Connect
    NumConns,      \* config_.num_conns_per_peer
    MaxPosts       \* bound: posts of users and of read callbacks

ASSUME LifeAssumption == Main \in Callers /\ NumConns \in Nat \ {0} /\ MaxPosts \in Nat

VARIABLES
    life,          \* how far the destructor is
    main,          \* where mainLoop is, its attempts and channels
    acceptor,      \* where tcpmgrLoop is
    queued, posted,               \* posts_, and posts made so far
    sendWorkers, recvWorkers,     \* the sockets of the workers
    loops,         \* the loops that run, of each socket
    broken,        \* sockets shut down by either side
    dying          \* the worker whose destructor runs

lifeVars == <<life, main, acceptor, queued, posted, sendWorkers, recvWorkers, loops, broken, dying>>
engineVars == <<tcpVars, lifeVars>>

AtRest == [at |-> "idle", attempts |-> 0, channels |-> {}]

LifeInit ==
    /\ life = "alive" /\ main = AtRest /\ acceptor = "check" /\ queued = 0 /\ posted = 0
    /\ sendWorkers = {} /\ recvWorkers = {} /\ loops = [f \in Fds |-> {}] /\ broken = {}
    /\ dying = None

Workers == sendWorkers \cup recvWorkers
Run(fds) == loops' = [f \in Fds |-> IF f \in fds THEN {"send", "recv"} ELSE loops[f]]

-----------------------------------------------------------------------------
\* Posts come from users, and from read requests that a recv loop hands over.

Post ==
    /\ life = "alive" \/ \E f \in Workers : "recv" \in loops[f]
    /\ posted < MaxPosts
    /\ queued' = queued + 1 /\ posted' = posted + 1
    /\ UNCHANGED <<tcpVars, life, main, acceptor, sendWorkers, recvWorkers, loops, broken, dying>>

mainOnly == <<life, acceptor, posted, recvWorkers, broken, dying>>

\* mainLoop: take a post, dial if the peer has too few workers; leave when stopped and idle.
TakePost ==
    /\ main.at = "idle" /\ queued > 0
    /\ queued' = queued - 1
    /\ main' = IF Cardinality(sendWorkers) < NumConns THEN [AtRest EXCEPT !.at = "dial"] ELSE main
    /\ UNCHANGED <<tcpVars, mainOnly, sendWorkers, loops>>
MainExits ==
    /\ main.at = "idle" /\ queued = 0 /\ life # "alive"
    /\ main' = [AtRest EXCEPT !.at = "exited"]
    /\ UNCHANGED <<tcpVars, mainOnly, queued, sendWorkers, loops>>

\* connectTcp: at most 2 n blocking connects, until there are n channels.
DialMore == Cardinality(main.channels) < NumConns /\ main.attempts < 2 * NumConns
Dial ==
    /\ main.at = "dial" /\ DialMore
    /\ Connect(Main)
    /\ main' = [main EXCEPT !.at = "dialing", !.attempts = @ + 1]
    /\ UNCHANGED <<mainOnly, queued, sendWorkers, loops>>
Dialing ==
    /\ main.at = "dialing"
    /\ \/ CreateSocket(Main) \/ AddConnected(Main) \/ CloseRejected(Main)
       \/ ConnectSocket(Main) /\ caller'[Main] # "register"
    /\ UNCHANGED lifeVars
Collect ==
    /\ main.at = "dialing" /\ caller[Main] = "idle"
    /\ main' = [main EXCEPT !.at = "dial", !.channels = @ \cup outgoing]
    /\ outgoing' = {} /\ user' = user \cup outgoing
    /\ UNCHANGED <<listeners, connectors, incoming, expired, kernelVars, envOnly>>
    /\ UNCHANGED <<mainOnly, queued, sendWorkers, loops>>
\* createSendWorkers, also when the peer's host info is not to be had.
CreateSendWorkers ==
    /\ main.at = "dial" /\ (~DialMore \/ main.attempts = 0)
    /\ sendWorkers' = sendWorkers \cup main.channels /\ Run(main.channels) /\ main' = AtRest
    /\ UNCHANGED <<tcpVars, mainOnly, queued>>

-----------------------------------------------------------------------------
\* tcpmgrLoop: the check of stop_, then createRecvWorkers.

TcpmgrCheck ==
    /\ acceptor = "check"
    /\ acceptor' = IF life = "alive" THEN "take" ELSE "exited"
    /\ UNCHANGED <<tcpVars, life, main, queued, posted, sendWorkers, recvWorkers, loops, broken, dying>>
\* Sockets that have lost their peer are dropped.
CreateRecvWorkers ==
    /\ acceptor = "take" /\ acceptor' = "check"
    /\ \E kept \in SUBSET incoming :
         /\ recvWorkers' = recvWorkers \cup kept /\ Run(kept)
         /\ user' = user \cup kept /\ Close(incoming \ kept)
    /\ incoming' = {}
    /\ UNCHANGED <<listeners, connectors, outgoing, expired, envOnly>>
    /\ UNCHANGED <<life, main, queued, posted, sendWorkers, broken, dying>>

\* A peer breaks a connection; a loop of a broken channel ends.
Break(f) ==
    /\ f \in Workers \ broken /\ broken' = broken \cup {f}
    /\ UNCHANGED <<tcpVars, life, main, acceptor, queued, posted, sendWorkers, recvWorkers, loops, dying>>
LoopEnds(f) ==
    /\ f \in broken /\ \E l \in loops[f] : loops' = [loops EXCEPT ![f] = @ \ {l}]
    /\ UNCHANGED <<tcpVars, life, main, acceptor, queued, posted, sendWorkers, recvWorkers, broken, dying>>

-----------------------------------------------------------------------------
\* ~Engine: stop_, then the members in reverse order.

Goes(from, to) ==
    /\ life = from /\ life' = to
    /\ UNCHANGED <<main, acceptor, queued, posted, sendWorkers, recvWorkers, loops, broken, dying>>
BeginDestroy == Goes("alive", "threads") /\ UNCHANGED tcpVars
JoinThreads_main ==
    main.at = "exited" /\ Goes("threads", "recv workers") /\ UNCHANGED tcpVars
JoinThreads ==
    main.at = "exited" /\ acceptor = "exited" /\ Goes("threads", "recv workers") /\ UNCHANGED tcpVars
WorkersGone ==
    /\ \/ recvWorkers = {} /\ Goes("recv workers", "send workers")
       \/ sendWorkers = {} /\ Goes("send workers", "helper")
    /\ UNCHANGED tcpVars

\* ~Worker: stop_ and Shutdown, join both loops, close the socket.
Doomed == IF life = "recv workers" THEN recvWorkers ELSE IF life = "send workers" THEN sendWorkers ELSE {}
ShutWorker_open(f) ==
    /\ f \in Doomed /\ dying = None /\ dying' = f
    /\ UNCHANGED <<tcpVars, life, main, acceptor, queued, posted, sendWorkers, recvWorkers, loops, broken>>
ShutWorker(f) ==
    /\ f \in Doomed /\ dying = None
    /\ dying' = f /\ broken' = broken \cup {f}
    /\ UNCHANGED <<tcpVars, life, main, acceptor, queued, posted, sendWorkers, recvWorkers, loops>>
CloseWorker(f) ==
    /\ f = dying /\ loops[f] = {} /\ dying' = None
    /\ UserCloses(f) /\ broken' = broken \ {f}
    /\ sendWorkers' = sendWorkers \ {f} /\ recvWorkers' = recvWorkers \ {f}
    /\ UNCHANGED <<life, main, acceptor, queued, posted, loops>>

\* ~EngineHelper: Stop() the manager, then join its thread.
StopManager == life = "helper" /\ Stop /\ UNCHANGED lifeVars
JoinPoller == stopper = "stopped" /\ poller = "done" /\ Goes("helper", "destroyed") /\ UNCHANGED tcpVars

Destructor ==
    \/ JoinThreads \/ WorkersGone \/ StopManager \/ JoinPoller
    \/ \E f \in Fds : ShutWorker(f) \/ CloseWorker(f)
MainStep == TakePost \/ MainExits \/ Dial \/ Dialing \/ Collect \/ CreateSendWorkers
AcceptorStep == TcpmgrCheck \/ CreateRecvWorkers

LifeNext ==
    \/ Post \/ MainStep \/ AcceptorStep
    \/ \E f \in Fds : Break(f) \/ LoopEnds(f)
    \/ BeginDestroy \/ Destructor
    \/ PollerStep /\ UNCHANGED lifeVars
    \/ \E f \in ListenFds : Arrive(f) /\ UNCHANGED lifeVars

\* Every thread of the engine runs; peers and the owner of the engine need not act.
LifeFairness ==
    /\ WF_engineVars(MainStep) /\ WF_engineVars(AcceptorStep) /\ WF_engineVars(Destructor)
    /\ WF_engineVars(PollerStep /\ UNCHANGED lifeVars)
    /\ \A f \in Fds \ ListenFds : WF_engineVars(LoopEnds(f))

LifeSpec == TcpInit /\ LifeInit /\ [][LifeNext]_engineVars
LifeFairSpec == LifeSpec /\ LifeFairness

-----------------------------------------------------------------------------
(* No loop runs on a socket that is not that of a live worker: a destructor
   joins the loops before the socket, and with it its descriptor, is given up.
   Once ~EngineHelper begins nobody is left that uses the manager, the metrics
   or the tracer; when ~Engine returns every thread has ended and every socket
   is closed. *)
DestroyedIsClean ==
    /\ \A f \in Fds : loops[f] # {} => f \in Workers /\ socket[f] = "connected"
    /\ life \in {"helper", "destroyed"} =>
         /\ main.at = "exited" /\ acceptor = "exited" /\ \A f \in Fds : loops[f] = {}
         /\ user = {}
    /\ life = "destroyed" => \A f \in Fds : socket[f] = "closed"

(* ~Engine returns. *)
DestructorReturns == (life # "alive") ~> (life = "destroyed")
=============================================================================
