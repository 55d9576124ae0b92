----------------------------- MODULE TcpManager -----------------------------
(***************************************************************************)
(* TcpManager: threads call Connect(), one thread runs Start(), the poller  *)
(* loop, and one calls Stop().  Sockets are file descriptors, which the     *)
(* system reuses as soon as they are closed; closing one also takes it out  *)
(* of the interest set of epoll.                                            *)
(***************************************************************************)
EXTENDS Integers, FiniteSets

CONSTANTS
    Fds,           \* file descriptors
    ListenFds,     \* those of the listeners, open from the start
    Callers,       \* threads that call Connect()
    MaxBacklog     \* bound: connections of peers that wait to be accepted

None == 0      \* no descriptor

ASSUME TcpAssumption ==
    /\ ListenFds \subseteq Fds /\ IsFiniteSet(Fds) /\ None \notin Fds
    /\ MaxBacklog \in Nat

VARIABLES
    socket,        \* the state of each descriptor
    interest,      \* descriptors registered with the poller
    listeners, connectors, incoming, outgoing,   \* the tables, as sets of descriptors
    expired,       \* connectors whose expiration has passed
    sealed,        \* the sealed_ flags set so far
    stop_,
    caller, fdOf,  \* where each call of Connect() is, and its socket
    poller,        \* where Start() is
    batch, event,  \* the events it has to handle, and the one it handles
    dead,          \* sockets in its hands
    stopper,       \* what Stop() does next
    user,          \* sockets moved out by GetIncomingSockets and GetOutgoingSockets
    backlog,       \* connections waiting to be accepted
    unhandled      \* the DCHECK(false) of Start() was reached

tableVars == <<listeners, connectors, incoming, outgoing, expired>>
kernelVars == <<socket, interest, backlog>>
callVars == <<caller, fdOf>>
pollVars == <<poller, batch, event, dead>>
tcpVars == <<tableVars, kernelVars, callVars, pollVars, sealed, stop_, stopper, user,
             unhandled>>

CallerStates == {"idle", "create", "connect", "produce", "register", "close"}
PollerStates == {"loop", "check", "dispatch", "accept", "produce", "outgoing",
                 "unregister expired", "close expired", "close", "done"}
SocketStates == {"closed", "listening", "shut", "fresh", "connecting", "ready", "failed",
                 "hungup", "connected"}
StopSteps == {"running", "seal incoming", "seal outgoing", "set stop", "shutdown",
              "close incoming", "close outgoing", "stopped"}

NoEvent == [fd |-> None, flag |-> "none"]

TcpInit ==
    /\ socket = [f \in Fds |-> IF f \in ListenFds THEN "listening" ELSE "closed"]
    /\ interest = ListenFds /\ listeners = ListenFds
    /\ connectors = {} /\ incoming = {} /\ outgoing = {} /\ expired = {} /\ user = {}
    /\ sealed = {} /\ stop_ = FALSE
    /\ caller = [c \in Callers |-> "idle"] /\ fdOf = [c \in Callers |-> None]
    /\ poller = "loop" /\ batch = {} /\ event = NoEvent /\ dead = {} /\ stopper = "running"
    /\ backlog = [f \in ListenFds |-> 0]
    /\ unhandled = FALSE

\* Closing descriptors; the kernel forgets their registration.
Close(fds) ==
    /\ socket' = [f \in Fds |-> IF f \in fds THEN "closed" ELSE socket[f]]
    /\ interest' = interest \ fds
    /\ UNCHANGED backlog
Becomes(fd, state) ==
    /\ socket' = [socket EXCEPT ![fd] = state]
    /\ UNCHANGED <<interest, backlog>>

-----------------------------------------------------------------------------
\* Connect() of thread c.  Only Connect_, AddConnected and AddConnector share state.

CallerGoes(c, state) == caller' = [caller EXCEPT ![c] = state] /\ UNCHANGED fdOf
CallerReturns(c) == caller' = [caller EXCEPT ![c] = "idle"] /\ fdOf' = [fdOf EXCEPT ![c] = None]
callerOnly == <<sealed, stop_, pollVars, stopper, user, unhandled>>

\* The check of isStopped().
Connect(c) ==
    /\ caller[c] = "idle"
    /\ IF stop_ THEN UNCHANGED callVars ELSE CallerGoes(c, "create")
    /\ UNCHANGED <<tableVars, kernelVars, callerOnly>>

\* TcpSocket::Create, or its failure or that of Bind.
CreateSocket(c) ==
    /\ caller[c] = "create"
    /\ \/ \E f \in Fds : /\ socket[f] = "closed" /\ Becomes(f, "fresh")
                         /\ caller' = [caller EXCEPT ![c] = "connect"]
                         /\ fdOf' = [fdOf EXCEPT ![c] = f]
       \/ CallerReturns(c) /\ UNCHANGED kernelVars
    /\ UNCHANGED <<tableVars, callerOnly>>

\* socket->Connect(), blocking or not.
ConnectSocket(c) ==
    /\ caller[c] = "connect"
    /\ \E next \in {"produce", "register", "close"} :
         /\ CallerGoes(c, next)
         /\ Becomes(fdOf[c], CASE next = "produce" -> "connected"
                                    [] next = "register" -> "connecting"
                                    [] OTHER -> "failed")
    /\ UNCHANGED <<tableVars, callerOnly>>

\* addConnected: outgoing_.Add unless it is sealed.
AddConnected(c) ==
    /\ caller[c] = "produce"
    /\ IF "outgoing" \in sealed THEN CallerGoes(c, "close") /\ UNCHANGED outgoing
       ELSE /\ outgoing' = outgoing \cup {fdOf[c]} /\ CallerReturns(c)
    /\ UNCHANGED <<listeners, connectors, incoming, expired, kernelVars, callerOnly>>

\* connectors_.Add, which registers the descriptor under its lock; Register may fail.
AddConnector_unlocked(c) ==
    /\ caller[c] = "register"
    /\ connectors' = connectors \cup {fdOf[c]} /\ CallerReturns(c)
    /\ interest' = interest \cup {fdOf[c]}
    /\ UNCHANGED <<listeners, incoming, outgoing, expired, socket, backlog, callerOnly>>
AddConnector_unregistered(c) ==
    /\ caller[c] = "register"
    /\ \/ /\ "connectors" \notin sealed /\ fdOf[c] \notin connectors
          /\ connectors' = connectors \cup {fdOf[c]} /\ CallerReturns(c)
       \/ CallerGoes(c, "close") /\ UNCHANGED connectors
    /\ UNCHANGED <<listeners, incoming, outgoing, expired, kernelVars, callerOnly>>
AddConnector(c) ==
    /\ caller[c] = "register"
    /\ \/ /\ "connectors" \notin sealed /\ fdOf[c] \notin connectors
          /\ connectors' = connectors \cup {fdOf[c]} /\ CallerReturns(c)
          /\ interest' = interest \cup {fdOf[c]}
       \/ CallerGoes(c, "close") /\ UNCHANGED <<connectors, interest>>
    /\ UNCHANGED <<listeners, incoming, outgoing, expired, socket, backlog, callerOnly>>

\* The error return: the socket goes out of scope.
CloseRejected(c) ==
    /\ caller[c] = "close"
    /\ Close({fdOf[c]}) /\ CallerReturns(c)
    /\ UNCHANGED <<tableVars, callerOnly>>

-----------------------------------------------------------------------------
\* Start(): the poller thread.

PollerGoes(state) == poller' = state /\ UNCHANGED <<batch, event, dead>>
pollerOnly == <<sealed, stop_, callVars, stopper, user>>

\* The event in hand is done with.
NextEvent == poller' = "dispatch" /\ event' = NoEvent /\ dead' = {} /\ UNCHANGED batch

EventFlag(f) ==
    CASE socket[f] = "listening" -> IF backlog[f] > 0 THEN "IN" ELSE "none"
      [] socket[f] = "shut" -> "HUP"
      [] socket[f] = "ready" -> "OUT"
      [] socket[f] = "failed" -> "ERR"
      [] socket[f] = "hungup" -> "RDHUP"
      [] OTHER -> "none"

\* BlockingWait returns the pending events, or none after kTimeoutMs.
BlockingWait ==
    /\ poller = "loop"
    /\ IF stop_ THEN PollerGoes("close")
       ELSE /\ poller' = "check" /\ UNCHANGED <<event, dead>>
            /\ batch' = {[fd |-> f, flag |-> EventFlag(f)] :
                           f \in {f \in interest : EventFlag(f) # "none"}}
    /\ UNCHANGED <<tableVars, kernelVars, pollerOnly, unhandled>>

CheckStopped ==
    /\ poller = "check"
    /\ IF stop_ THEN poller' = "close" /\ batch' = {} /\ UNCHANGED <<event, dead>>
       ELSE PollerGoes("dispatch")
    /\ UNCHANGED <<tableVars, kernelVars, pollerOnly, unhandled>>

\* removeListener: Unregister, then close.
RemoveListener(f) ==
    /\ Close({f}) /\ listeners' = listeners \ {f}
    /\ UNCHANGED <<connectors, incoming, outgoing, expired>>

\* One event of the batch, in the order of the array.
Dispatch ==
    /\ poller = "dispatch"
    /\ \E e \in batch :
         /\ batch' = batch \ {e}
         /\ IF e.fd \in listeners
            THEN IF e.flag = "IN"
                 THEN /\ poller' = "accept" /\ event' = e
                      /\ UNCHANGED <<dead, tableVars, kernelVars, unhandled>>
                 ELSE RemoveListener(e.fd) /\ UNCHANGED <<poller, event, dead, unhandled>>
            ELSE IF e.fd \in connectors
            THEN /\ connectors' = connectors \ {e.fd} /\ expired' = expired \ {e.fd}
                 /\ poller' = "outgoing" /\ event' = e /\ dead' = {e.fd}
                 /\ UNCHANGED <<listeners, incoming, outgoing, kernelVars, unhandled>>
            ELSE unhandled' = TRUE /\ UNCHANGED <<poller, event, dead, tableVars, kernelVars>>
    /\ UNCHANGED pollerOnly

\* handleAllIncoming: accept until nothing waits, an error, or Stop().
Accept ==
    /\ poller = "accept"
    /\ \/ /\ stop_ \/ socket[event.fd] = "listening"
          /\ NextEvent /\ UNCHANGED <<tableVars, kernelVars>>
       \/ /\ ~stop_ /\ socket[event.fd] = "shut"
          /\ NextEvent /\ RemoveListener(event.fd)
       \/ /\ ~stop_ /\ socket[event.fd] = "listening" /\ backlog[event.fd] > 0
          /\ \E f \in Fds : /\ socket[f] = "closed" /\ socket' = [socket EXCEPT ![f] = "connected"]
                            /\ dead' = {f}
          /\ poller' = "produce" /\ UNCHANGED <<batch, event>>
          /\ backlog' = [backlog EXCEPT ![event.fd] = @ - 1]
          /\ UNCHANGED <<tableVars, interest>>
    /\ UNCHANGED <<pollerOnly, unhandled>>

\* incoming_.Add, or the end of the loop and of the socket.
AddIncoming ==
    /\ poller = "produce"
    /\ IF "incoming" \in sealed
       THEN NextEvent /\ Close(dead) /\ UNCHANGED tableVars
       ELSE /\ incoming' = incoming \cup dead
            /\ poller' = "accept" /\ dead' = {} /\ UNCHANGED <<batch, event>>
            /\ UNCHANGED <<listeners, connectors, outgoing, expired, kernelVars>>
    /\ UNCHANGED <<pollerOnly, unhandled>>

\* handleOneOutgoing, after connectors_.Remove: Unregister, then keep or close.
FinishOutgoing ==
    /\ poller = "outgoing" /\ NextEvent
    /\ IF event.flag = "OUT" /\ socket[event.fd] = "ready" /\ "outgoing" \notin sealed
       THEN /\ outgoing' = outgoing \cup {event.fd} /\ interest' = interest \ {event.fd}
            /\ socket' = [socket EXCEPT ![event.fd] = "connected"]
            /\ UNCHANGED <<listeners, connectors, incoming, expired, backlog>>
       ELSE Close(dead) /\ UNCHANGED tableVars
    /\ UNCHANGED <<pollerOnly, unhandled>>

\* removeExpiredOutgoing: take the expired connectors, unregister them, close them.
RemoveExpired_early ==
    /\ poller = "dispatch"
    /\ connectors' = connectors \ expired /\ expired' = {}
    /\ poller' = "unregister expired" /\ dead' = expired /\ UNCHANGED <<batch, event>>
    /\ UNCHANGED <<listeners, incoming, outgoing, kernelVars, pollerOnly, unhandled>>
RemoveExpired ==
    /\ poller = "dispatch" /\ batch = {}
    /\ connectors' = connectors \ expired /\ expired' = {}
    /\ poller' = "unregister expired" /\ dead' = expired /\ UNCHANGED <<batch, event>>
    /\ UNCHANGED <<listeners, incoming, outgoing, kernelVars, pollerOnly, unhandled>>
UnregisterExpired_closes ==
    /\ poller = "unregister expired" /\ PollerGoes("close expired")
    /\ Close(dead)
    /\ UNCHANGED <<tableVars, pollerOnly, unhandled>>
UnregisterExpired ==
    /\ poller = "unregister expired" /\ PollerGoes("close expired")
    /\ interest' = interest \ dead
    /\ UNCHANGED <<tableVars, socket, backlog, pollerOnly, unhandled>>
CloseExpired ==
    /\ poller = "close expired" /\ poller' = "loop" /\ dead' = {}
    /\ Close(dead) /\ UNCHANGED <<batch, event>>
    /\ UNCHANGED <<tableVars, pollerOnly, unhandled>>

\* After the loop: listeners_.Close() and connectors_.Close().
CloseTables ==
    /\ poller = "close"
    /\ \/ listeners # {} /\ Close(listeners) /\ listeners' = {} /\ UNCHANGED <<connectors, expired, pollVars>>
       \/ /\ listeners = {} /\ Close(connectors) /\ connectors' = {} /\ expired' = {}
          /\ PollerGoes("done") /\ UNCHANGED listeners
    /\ UNCHANGED <<incoming, outgoing, pollerOnly, unhandled>>

-----------------------------------------------------------------------------
\* Stop(), step by step.

stopOnly == <<callVars, pollVars, user, unhandled>>
Seal(at, table, next) ==
    /\ stopper = at /\ stopper' = next
    /\ sealed' = sealed \cup {table}
    /\ UNCHANGED <<tableVars, kernelVars, stop_, stopOnly>>
SetStop ==
    /\ stopper = "set stop" /\ stopper' = "shutdown"
    /\ stop_' = TRUE
    /\ UNCHANGED <<tableVars, kernelVars, sealed, stopOnly>>
ShutdownListeners ==
    /\ stopper = "shutdown" /\ stopper' = "close incoming"
    /\ socket' = [f \in Fds |-> IF f \in listeners THEN "shut" ELSE socket[f]]
    /\ UNCHANGED <<tableVars, interest, backlog, sealed, stop_, stopOnly>>
CloseIncoming ==
    /\ stopper = "close incoming" /\ stopper' = "close outgoing"
    /\ Close(incoming) /\ incoming' = {}
    /\ UNCHANGED <<listeners, connectors, outgoing, expired, sealed, stop_, stopOnly>>
CloseOutgoing ==
    /\ stopper = "close outgoing" /\ stopper' = "stopped"
    /\ Close(outgoing) /\ outgoing' = {}
    /\ UNCHANGED <<listeners, connectors, incoming, expired, sealed, stop_, stopOnly>>

Stop ==
    \/ Seal("running", "connectors", "seal incoming")
    \/ Seal("seal incoming", "incoming", "seal outgoing")
    \/ Seal("seal outgoing", "outgoing", "set stop")
    \/ SetStop \/ ShutdownListeners \/ CloseIncoming \/ CloseOutgoing

-----------------------------------------------------------------------------
\* GetIncomingSockets and GetOutgoingSockets move everything; users close sockets.

envOnly == <<sealed, stop_, callVars, pollVars, stopper, unhandled>>
GetIncomingSockets ==
    /\ incoming # {} /\ incoming' = {} /\ user' = user \cup incoming
    /\ UNCHANGED <<listeners, connectors, outgoing, expired, kernelVars, envOnly>>
GetOutgoingSockets ==
    /\ outgoing # {} /\ outgoing' = {} /\ user' = user \cup outgoing
    /\ UNCHANGED <<listeners, connectors, incoming, expired, kernelVars, envOnly>>
UserCloses(f) ==
    /\ f \in user /\ user' = user \ {f}
    /\ Close({f}) /\ UNCHANGED <<tableVars, envOnly>>

\* The network: a peer connects, a pending connection comes to an end; time passes.
Arrive(f) ==
    /\ socket[f] = "listening" /\ backlog[f] < MaxBacklog
    /\ backlog' = [backlog EXCEPT ![f] = @ + 1]
    /\ UNCHANGED <<tableVars, socket, interest, envOnly, user>>
Resolve(f) ==
    /\ socket[f] = "connecting" /\ \E end \in {"ready", "failed", "hungup"} : Becomes(f, end)
    /\ UNCHANGED <<tableVars, envOnly, user>>
Expire(f) ==
    /\ f \in connectors \ expired /\ expired' = expired \cup {f}
    /\ UNCHANGED <<listeners, connectors, incoming, outgoing, kernelVars, envOnly, user>>

ConnectStep(c) ==
    Connect(c) \/ CreateSocket(c) \/ ConnectSocket(c) \/ AddConnected(c) \/ AddConnector(c)
    \/ CloseRejected(c)
PollerStep ==
    \/ BlockingWait \/ CheckStopped \/ Dispatch \/ Accept \/ AddIncoming
    \/ FinishOutgoing
    \/ RemoveExpired \/ UnregisterExpired \/ CloseExpired \/ CloseTables
Environment ==
    \/ \E f \in ListenFds : Arrive(f)
    \/ \E f \in Fds : Resolve(f) \/ Expire(f)

TcpNext ==
    \/ \E c \in Callers : ConnectStep(c)
    \/ PollerStep \/ Stop
    \/ GetIncomingSockets \/ GetOutgoingSockets \/ \E f \in Fds : UserCloses(f)
    \/ Environment

TcpSpec == TcpInit /\ [][TcpNext]_tcpVars

\* Every thread runs, and the system gives up a connection that gets no answer; deadlines
\* may be infinite, and peers, users and the caller of Stop() need not act.
TcpFairness ==
    /\ WF_tcpVars(PollerStep) /\ WF_tcpVars(stopper # "running" /\ Stop)
    /\ \A f \in Fds \ ListenFds : WF_tcpVars(Resolve(f))

TcpFairSpec == TcpSpec /\ TcpFairness

-----------------------------------------------------------------------------
\* Who holds a descriptor.
Holders(f) ==
    {h \in {"listeners", "connectors", "incoming", "outgoing", "user", "poller"} :
        f \in CASE h = "listeners" -> listeners [] h = "connectors" -> connectors
                [] h = "incoming" -> incoming   [] h = "outgoing" -> outgoing
                [] h = "user" -> user           [] OTHER -> dead}
    \cup {c \in Callers : fdOf[c] = f}

(* Every open socket has exactly one owner among the tables, the threads and
   the users, and no closed one is still in a table: nothing leaks, nothing is
   closed twice, whatever races with Stop(). *)
OneOwner ==
    \A f \in Fds : IF socket[f] = "closed" THEN Holders(f) = {} ELSE \E h \in Holders(f) : Holders(f) = {h}

(* The poller watches exactly the listeners and the connectors, and what
   Start() is about to unregister: a connection in progress is never forgotten,
   even when its descriptor has just been reused. *)
WatchesItsTables ==
    interest = listeners \cup connectors
               \cup (IF poller \in {"outgoing", "unregister expired"} THEN dead ELSE {})

(* The poller never meets an event it cannot attribute, DCHECK(false): an event
   of the batch is still that of the socket it was reported for. *)
EveryEventIsHandled ==
    /\ ~unhandled
    /\ \A e \in batch : /\ e.fd \in listeners \cup connectors
                        /\ e.flag = "IN" <=> e.fd \in listeners /\ e.flag # "HUP"

(* After Stop() no Connect() succeeds and no socket is produced: the produced
   tables stay empty, and so does that of the connectors once Start() returned. *)
NothingAfterStop ==
    /\ stopper = "stopped" => incoming = {} /\ outgoing = {}
    /\ poller = "done" => connectors = {}

(* When Stop() and Start() have returned and no call is in progress, the
   manager holds no socket. *)
StoppedIsEmpty ==
    stopper = "stopped" /\ poller = "done" /\ (\A c \in Callers : caller[c] = "idle")
    => \A f \in Fds : socket[f] # "closed" => f \in user

(* A connection in progress is produced or given up, unless peers connect so
   fast that the loop of handleAllIncoming never finds its backlog empty. *)
ConnectorsResolve ==
    <>[](poller \in {"accept", "produce"})
    \/ \A f \in Fds \ ListenFds : (f \in connectors) ~> (f \notin connectors)
=============================================================================
