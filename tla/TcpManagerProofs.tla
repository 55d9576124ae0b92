-------------------------- MODULE TcpManagerProofs --------------------------
(***************************************************************************)
(* TcpManager keeps track of its sockets, for any number of descriptors and *)
(* of callers: every open socket has one owner, the poller watches what the *)
(* tables hold, after Stop() nothing is left, and no event of a batch is    *)
(* stale.  The engine that uses it leaves nothing behind when it is         *)
(* destroyed.  TcpInv, EventsInv and LifeInv are the inductive invariants,  *)
(* and each action has a lemma that says why it keeps them.                 *)
(***************************************************************************)
EXTENDS EngineLife, TLAPS

\* The types of what the invariant speaks about.
CallTypes ==
    /\ socket \in [Fds -> SocketStates]
    /\ caller \in [Callers -> CallerStates] /\ fdOf \in [Callers -> Fds \cup {None}]
TableTypes ==
    /\ listeners \subseteq ListenFds /\ connectors \subseteq Fds /\ incoming \subseteq Fds
    /\ outgoing \subseteq Fds /\ user \subseteq Fds /\ expired \subseteq connectors
    /\ dead \subseteq Fds
StepTypes ==
    /\ poller \in PollerStates /\ stopper \in StopSteps
    /\ sealed \subseteq {"connectors", "incoming", "outgoing"}
Types == CallTypes /\ TableTypes /\ StepTypes

\* A caller has a descriptor exactly between creating it and giving it away.
CallersHold ==
    \A c \in Callers : caller[c] \in {"connect", "produce", "register", "close"} <=> fdOf[c] \in Fds
\* What the poller has taken out of a table and not yet closed, step by step.
PollerHolds ==
    /\ poller \in {"accept", "produce"} => event.fd \in listeners
    /\ poller = "outgoing" => dead = {event.fd}
    /\ poller \notin {"produce", "outgoing", "unregister expired", "close expired"} => dead = {}

\* Somebody other than a caller has the descriptor.
InTables(f) ==
    f \in listeners \/ f \in connectors \/ f \in incoming \/ f \in outgoing \/ f \in user \/ f \in dead
\* No descriptor is in two tables.
Disjoint ==
    \A f \in Fds :
        /\ f \in listeners => f \notin connectors \cup incoming \cup outgoing \cup user \cup dead
        /\ f \in connectors => f \notin incoming \cup outgoing \cup user \cup dead
        /\ f \in incoming => f \notin outgoing \cup user \cup dead
        /\ f \in outgoing => f \notin user \cup dead
        /\ f \in user => f \notin dead
\* What a caller has is in no table, and no other caller has it.
CallersApart ==
    \A c \in Callers : fdOf[c] \in Fds =>
        /\ ~InTables(fdOf[c])
        /\ \A d \in Callers \ {c} : fdOf[d] # fdOf[c]
\* A socket is open exactly when somebody has it.
OpenIsHeld ==
    \A f \in Fds : socket[f] # "closed" <=> InTables(f) \/ \E c \in Callers : fdOf[c] = f
Owned == Disjoint /\ CallersApart /\ OpenIsHeld

\* How far Stop() has come: what is sealed, and what is empty for good.
StopOK ==
    /\ stop_ => sealed = {"connectors", "incoming", "outgoing"}
    /\ stopper \notin {"running"} => "connectors" \in sealed
    /\ stopper \notin {"running", "seal incoming"} => "incoming" \in sealed
    /\ stopper \notin {"running", "seal incoming", "seal outgoing"} => "outgoing" \in sealed
    /\ poller \in {"close", "done"} => stop_
    /\ stopper \in {"close outgoing", "stopped"} => incoming = {}
    /\ stopper = "stopped" => outgoing = {}
    /\ poller = "done" => listeners = {} /\ connectors = {}

\* A caller that enters Connect() holds no socket yet.
LEMMA ConnectKeeps ==
    ASSUME Types, CallersHold, PollerHolds, Owned, WatchesItsTables, StopOK,
           NEW c \in Callers, Connect(c)
    PROVE  Types' /\ CallersHold' /\ PollerHolds' /\ Owned' /\ WatchesItsTables' /\ StopOK'
<1> USE TcpAssumption
<1>1. CallTypes'
  BY Zenon DEF Connect, kernelVars, callVars, CallerGoes, Types, CallTypes, CallerStates
<1>2. TableTypes'
  BY Zenon DEF Connect, callerOnly, tableVars, pollVars, Types, TableTypes
<1>3. StepTypes'
  BY Zenon DEF Connect, callerOnly, pollVars, Types, StepTypes
<1>4. Types'
  BY Zenon, <1>1, <1>2, <1>3 DEF Types
<1>5. CallersHold' /\ PollerHolds'
  BY Zenon DEF Connect, callerOnly, tableVars, callVars, pollVars, CallerGoes, Types, CallTypes,
     CallersHold, PollerHolds
<1>6. Disjoint'
  BY Zenon DEF Connect, callerOnly, tableVars, pollVars, Owned, Disjoint
<1>7. CallersApart'
  BY Zenon DEF Connect, callerOnly, tableVars, callVars, pollVars, CallerGoes, Owned, CallersApart,
     InTables
<1>8. OpenIsHeld'
  BY Zenon DEF Connect, callerOnly, kernelVars, tableVars, callVars, pollVars, CallerGoes, Owned,
     Disjoint, CallersApart, OpenIsHeld, InTables
<1>9. WatchesItsTables'
  BY Zenon DEF Connect, callerOnly, kernelVars, tableVars, pollVars, WatchesItsTables
<1>10. StopOK'
  BY Zenon DEF Connect, callerOnly, tableVars, pollVars, StopOK
<1> QED BY Zenon, <1>4, <1>5, <1>6, <1>7, <1>8, <1>9, <1>10 DEF Owned

\* The descriptor a caller is given was closed, so nobody else has it.
LEMMA CreateSocketKeeps ==
    ASSUME Types, CallersHold, PollerHolds, Owned, WatchesItsTables, StopOK,
           NEW c \in Callers, CreateSocket(c)
    PROVE  Types' /\ CallersHold' /\ PollerHolds' /\ Owned' /\ WatchesItsTables' /\ StopOK'
<1> USE TcpAssumption
<1>1. ASSUME CallerReturns(c), UNCHANGED kernelVars
      PROVE  CallTypes' /\ CallersApart' /\ OpenIsHeld'
  <2>1. fdOf'[c] = None /\ caller'[c] = "idle" /\ (\A d \in Callers \ {c} : fdOf'[d] = fdOf[d] /\ caller'[d] = caller[d])
    BY Zenon, <1>1 DEF CallerReturns, Types, CallTypes
  <2>2. fdOf' \in [Callers -> Fds \cup {None}] /\ caller' \in [Callers -> CallerStates] /\ socket' \in [Fds -> SocketStates]
    BY Zenon, <1>1 DEF CallerReturns, Types, CallTypes, CallerStates, kernelVars
  <2>3. fdOf[c] \notin Fds
    BY Zenon DEF CreateSocket, CallersHold
  <2>4. socket' = socket /\ \A f \in Fds : InTables(f)' <=> InTables(f)
    BY Zenon, <1>1 DEF CreateSocket, tableVars, kernelVars, callerOnly, pollVars, InTables
  <2>5. CallersApart' /\ OpenIsHeld'
    BY <2>1, <2>2, <2>3, <2>4 DEF Owned, CallersApart, OpenIsHeld
  <2> QED BY Zenon, <2>2, <2>5 DEF CallTypes
<1>2. ASSUME NEW f \in Fds, socket[f] = "closed", Becomes(f, "fresh"),
             caller' = [caller EXCEPT ![c] = "connect"], fdOf' = [fdOf EXCEPT ![c] = f]
      PROVE  CallTypes' /\ CallersApart' /\ OpenIsHeld'
  <2>1. fdOf'[c] = f /\ (\A d \in Callers \ {c} : fdOf'[d] = fdOf[d])
    BY Zenon, <1>2 DEF Types, CallTypes
  <2>2. fdOf' \in [Callers -> Fds \cup {None}] /\ caller' \in [Callers -> CallerStates]
    BY Zenon, <1>2 DEF Types, CallTypes, CallerStates
  <2>3. /\ socket'[f] = "fresh" /\ \A g \in Fds \ {f} : socket'[g] = socket[g]
        /\ socket' \in [Fds -> SocketStates]
    BY Zenon, <1>2 DEF Becomes, Types, CallTypes, SocketStates
  <2>4. \A g \in Fds : InTables(g)' <=> InTables(g)
    BY Zenon DEF CreateSocket, tableVars, callerOnly, pollVars, InTables
  <2>5. fdOf[c] \notin Fds /\ ~InTables(f) /\ \A d \in Callers : fdOf[d] # f
    BY Zenon, <1>2 DEF CreateSocket, CallersHold, Owned, OpenIsHeld
  <2>6. CallersApart'
    BY Zenon, <2>1, <2>2, <2>4, <2>5 DEF Owned, CallersApart
  <2>7. OpenIsHeld'
    BY <2>1, <2>2, <2>3, <2>4, <2>5 DEF Owned, OpenIsHeld
  <2> QED BY Zenon, <2>2, <2>3, <2>6, <2>7 DEF CallTypes
<1>3. CallTypes' /\ CallersApart' /\ OpenIsHeld'
  BY Zenon, <1>1, <1>2 DEF CreateSocket, CallersApart
<1>4. CallTypes'
  BY Zenon, <1>3
<1>5. TableTypes'
  BY Zenon DEF CreateSocket, callerOnly, tableVars, pollVars, Types, TableTypes
<1>6. StepTypes'
  BY Zenon DEF CreateSocket, Becomes, CallerReturns, callerOnly, kernelVars, tableVars, callVars,
     pollVars, Types, StepTypes, PollerStates, StopSteps
<1>7. Types'
  BY Zenon, <1>4, <1>5, <1>6 DEF Types
<1>8. CallersHold' /\ PollerHolds'
  BY ZenonT(60) DEF CreateSocket, Becomes, CallerReturns, callerOnly, kernelVars, tableVars, callVars,
     pollVars, Types, CallTypes, TableTypes, CallersHold, PollerHolds, Owned, Disjoint
<1>9. Disjoint'
  BY Zenon DEF CreateSocket, callerOnly, tableVars, pollVars, Owned, Disjoint
<1>10. CallersApart'
  BY Zenon, <1>3
<1>11. OpenIsHeld'
  BY Zenon, <1>3
<1>12. WatchesItsTables'
  BY Zenon DEF CreateSocket, Becomes, callerOnly, kernelVars, tableVars, pollVars, WatchesItsTables
<1>13. StopOK'
  BY Zenon DEF CreateSocket, callerOnly, tableVars, pollVars, StopOK
<1> QED BY Zenon, <1>7, <1>8, <1>9, <1>10, <1>11, <1>12, <1>13 DEF Owned

\* Connecting changes the state of a socket its caller holds, and of no other.
LEMMA ConnectSocketKeeps ==
    ASSUME Types, CallersHold, PollerHolds, Owned, WatchesItsTables, StopOK,
           NEW c \in Callers, ConnectSocket(c)
    PROVE  Types' /\ CallersHold' /\ PollerHolds' /\ Owned' /\ WatchesItsTables' /\ StopOK'
<1> USE TcpAssumption
<1>1. PICK next \in {"produce", "register", "close"} :
        /\ CallerGoes(c, next)
        /\ Becomes(fdOf[c], CASE next = "produce" -> "connected"
                              [] next = "register" -> "connecting"
                              [] OTHER -> "failed")
  BY Zenon DEF ConnectSocket
<1>2. fdOf[c] \in Fds /\ caller[c] = "connect"
  BY Zenon DEF ConnectSocket, CallersHold
<1>3. /\ caller'[c] = next /\ \A d \in Callers \ {c} : caller'[d] = caller[d]
      /\ caller' \in [Callers -> CallerStates] /\ fdOf' = fdOf
  BY Zenon, <1>1 DEF CallerGoes, Types, CallTypes, CallerStates
<1>4. PICK state \in {"connected", "connecting", "failed"} : socket' = [socket EXCEPT ![fdOf[c]] = state]
  BY Zenon, <1>1 DEF Becomes
<1>5. socket' \in [Fds -> SocketStates] /\ \A f \in Fds : socket'[f] # "closed" <=> socket[f] # "closed"
  <2>1. socket[fdOf[c]] # "closed"
    BY Zenon, <1>2 DEF Owned, OpenIsHeld
  <2> QED BY Zenon, <1>2, <1>4, <2>1 DEF Types, CallTypes, SocketStates
<1>6. \A f \in Fds : InTables(f)' <=> InTables(f)
  BY Zenon DEF ConnectSocket, tableVars, callerOnly, pollVars, InTables
<1>7. CallTypes'
  BY Zenon, <1>3, <1>5 DEF Types, CallTypes
<1>8. TableTypes'
  BY Zenon DEF ConnectSocket, callerOnly, tableVars, pollVars, Types, TableTypes
<1>9. StepTypes'
  BY Zenon DEF ConnectSocket, callerOnly, pollVars, Types, StepTypes
<1>10. Types'
  BY Zenon, <1>7, <1>8, <1>9 DEF Types
<1>11. CallersHold' /\ PollerHolds'
  <2>1. CallersHold'
    BY Zenon, <1>1, <1>2, <1>3 DEF CallersHold
  <2>2. PollerHolds'
    BY Zenon DEF ConnectSocket, tableVars, callerOnly, pollVars, PollerHolds
  <2> QED BY Zenon, <2>1, <2>2
<1>12. Disjoint'
  BY Zenon DEF ConnectSocket, callerOnly, tableVars, pollVars, Owned, Disjoint
<1>13. CallersApart'
  BY Zenon, <1>3, <1>6 DEF Owned, CallersApart
<1>14. OpenIsHeld'
  BY Zenon, <1>3, <1>5, <1>6 DEF Owned, OpenIsHeld
<1>15. WatchesItsTables'
  BY Zenon DEF ConnectSocket, Becomes, callerOnly, tableVars, pollVars, WatchesItsTables
<1>16. StopOK'
  BY Zenon DEF ConnectSocket, callerOnly, tableVars, pollVars, StopOK
<1> QED BY Zenon, <1>10, <1>11, <1>12, <1>13, <1>14, <1>15, <1>16 DEF Owned

\* A socket that is connected at once moves from its caller to the outgoing table, unless
\* Stop() has sealed it.
LEMMA AddConnectedKeeps ==
    ASSUME Types, CallersHold, PollerHolds, Owned, WatchesItsTables, StopOK,
           NEW c \in Callers, AddConnected(c)
    PROVE  Types' /\ CallersHold' /\ PollerHolds' /\ Owned' /\ WatchesItsTables' /\ StopOK'
<1> USE TcpAssumption
<1>1. fdOf[c] \in Fds /\ ~InTables(fdOf[c])
  BY Zenon DEF AddConnected, CallersHold, Owned, CallersApart
<1>2. ASSUME CallerReturns(c), outgoing' = outgoing \cup {fdOf[c]}
      PROVE  Disjoint' /\ CallersApart' /\ OpenIsHeld' /\ outgoing' \subseteq Fds
  <2>1. fdOf'[c] = None /\ (\A d \in Callers \ {c} : fdOf'[d] = fdOf[d])
    BY Zenon, <1>2 DEF CallerReturns, Types, CallTypes
  <2>2. socket' = socket /\ UNCHANGED <<listeners, connectors, incoming, user, dead>>
    BY Zenon DEF AddConnected, callerOnly, kernelVars, pollVars
  <2>3. \A f \in Fds : InTables(f)' <=> InTables(f) \/ f = fdOf[c]
    BY Zenon, <1>1, <1>2, <2>2 DEF InTables
  <2>4. fdOf' \in [Callers -> Fds \cup {None}]
    BY Zenon, <1>2 DEF CallerReturns, Types, CallTypes
  <2>5. Disjoint'
    BY Zenon, <1>1, <1>2, <2>2 DEF Owned, Disjoint, InTables
  <2>6. \A d \in Callers \ {c} : fdOf[d] # fdOf[c]
    BY Zenon, <1>1 DEF Owned, CallersApart
  <2>7. CallersApart'
    BY Zenon, <2>1, <2>3, <2>4, <2>6 DEF Owned, CallersApart
  <2>8. OpenIsHeld'
    BY <1>1, <2>1, <2>2, <2>3, <2>4 DEF Owned, OpenIsHeld
  <2>9. outgoing' \subseteq Fds
    BY Zenon, <1>1, <1>2 DEF Types, TableTypes
  <2> QED BY Zenon, <2>2, <2>5, <2>7, <2>8, <2>9, <1>2
<1>3. ASSUME CallerGoes(c, "close"), UNCHANGED outgoing
      PROVE  Disjoint' /\ CallersApart' /\ OpenIsHeld' /\ outgoing' \subseteq Fds
  <2>1. socket' = socket /\ fdOf' = fdOf /\ UNCHANGED <<listeners, connectors, incoming, outgoing, user, dead>>
    BY Zenon, <1>3 DEF AddConnected, CallerGoes, callerOnly, kernelVars, pollVars
  <2>2. \A f \in Fds : InTables(f)' <=> InTables(f)
    BY Zenon, <2>1 DEF InTables
  <2>3. CallersApart' /\ OpenIsHeld'
    BY Zenon, <2>1, <2>2 DEF Owned, CallersApart, OpenIsHeld
  <2>4. Disjoint' /\ outgoing' \subseteq Fds
    BY Zenon, <2>1 DEF Owned, Disjoint, Types, TableTypes
  <2> QED BY Zenon, <2>3, <2>4
<1>4. Disjoint' /\ CallersApart' /\ OpenIsHeld' /\ outgoing' \subseteq Fds
  BY Zenon, <1>2, <1>3 DEF AddConnected
<1>5. CallTypes'
  BY Zenon DEF AddConnected, CallerGoes, CallerReturns, kernelVars, Types, CallTypes, CallerStates
<1>6. TableTypes'
  BY Zenon, <1>4 DEF AddConnected, callerOnly, kernelVars, pollVars, Types, TableTypes
<1>7. StepTypes'
  BY Zenon DEF AddConnected, callerOnly, pollVars, Types, StepTypes
<1>8. Types'
  BY Zenon, <1>5, <1>6, <1>7 DEF Types
<1>9. CallersHold' /\ PollerHolds'
  BY ZenonT(60) DEF AddConnected, CallerGoes, CallerReturns, callerOnly, pollVars, Types, CallTypes,
     CallersHold, PollerHolds
<1>10. Disjoint'
  BY Zenon, <1>4
<1>11. CallersApart'
  BY Zenon, <1>4
<1>12. OpenIsHeld'
  BY Zenon, <1>4
<1>13. WatchesItsTables'
  BY Zenon DEF AddConnected, callerOnly, kernelVars, pollVars, WatchesItsTables
<1>14. StopOK'
  BY Zenon DEF AddConnected, callerOnly, pollVars, StopOK
<1> QED BY Zenon, <1>8, <1>9, <1>10, <1>11, <1>12, <1>13, <1>14 DEF Owned

\* A socket in progress moves from its caller to the connectors and to the interest set
\* in one step, unless Stop() has sealed them.
LEMMA AddConnectorKeeps ==
    ASSUME Types, CallersHold, PollerHolds, Owned, WatchesItsTables, StopOK,
           NEW c \in Callers, AddConnector(c)
    PROVE  Types' /\ CallersHold' /\ PollerHolds' /\ Owned' /\ WatchesItsTables' /\ StopOK'
<1> USE TcpAssumption
<1>1. fdOf[c] \in Fds /\ ~InTables(fdOf[c])
  BY Zenon DEF AddConnector, CallersHold, Owned, CallersApart
<1>2. ASSUME CallerReturns(c), connectors' = connectors \cup {fdOf[c]}
      PROVE  Disjoint' /\ CallersApart' /\ OpenIsHeld' /\ connectors' \subseteq Fds
  <2>1. fdOf'[c] = None /\ (\A d \in Callers \ {c} : fdOf'[d] = fdOf[d])
    BY Zenon, <1>2 DEF CallerReturns, Types, CallTypes
  <2>2. socket' = socket /\ UNCHANGED <<listeners, incoming, outgoing, user, dead>>
    BY Zenon DEF AddConnector, callerOnly, kernelVars, pollVars
  <2>3. \A f \in Fds : InTables(f)' <=> InTables(f) \/ f = fdOf[c]
    BY Zenon, <1>1, <1>2, <2>2 DEF InTables
  <2>4. fdOf' \in [Callers -> Fds \cup {None}]
    BY Zenon, <1>2 DEF CallerReturns, Types, CallTypes
  <2>5. Disjoint'
    BY Zenon, <1>1, <1>2, <2>2 DEF Owned, Disjoint, InTables
  <2>6. \A d \in Callers \ {c} : fdOf[d] # fdOf[c]
    BY Zenon, <1>1 DEF Owned, CallersApart
  <2>7. CallersApart'
    BY Zenon, <2>1, <2>3, <2>4, <2>6 DEF Owned, CallersApart
  <2>8. OpenIsHeld'
    BY <1>1, <2>1, <2>2, <2>3, <2>4 DEF Owned, OpenIsHeld
  <2>9. connectors' \subseteq Fds
    BY Zenon, <1>1, <1>2 DEF Types, TableTypes
  <2> QED BY Zenon, <2>2, <2>5, <2>7, <2>8, <2>9, <1>2
<1>3. ASSUME CallerGoes(c, "close"), UNCHANGED connectors
      PROVE  Disjoint' /\ CallersApart' /\ OpenIsHeld' /\ connectors' \subseteq Fds
  <2>1. socket' = socket /\ fdOf' = fdOf /\ UNCHANGED <<listeners, incoming, outgoing, connectors, user, dead>>
    BY Zenon, <1>3 DEF AddConnector, CallerGoes, callerOnly, kernelVars, pollVars
  <2>2. \A f \in Fds : InTables(f)' <=> InTables(f)
    BY Zenon, <2>1 DEF InTables
  <2>3. CallersApart' /\ OpenIsHeld'
    BY Zenon, <2>1, <2>2 DEF Owned, CallersApart, OpenIsHeld
  <2>4. Disjoint' /\ connectors' \subseteq Fds
    BY Zenon, <2>1 DEF Owned, Disjoint, Types, TableTypes
  <2> QED BY Zenon, <2>3, <2>4
<1>4. Disjoint' /\ CallersApart' /\ OpenIsHeld' /\ connectors' \subseteq Fds
  BY Zenon, <1>2, <1>3 DEF AddConnector
<1>5. CallTypes'
  BY Zenon DEF AddConnector, CallerGoes, CallerReturns, Types, CallTypes, CallerStates
<1>6. TableTypes'
  BY Zenon, <1>4 DEF AddConnector, callerOnly, kernelVars, pollVars, Types, TableTypes
<1>7. StepTypes'
  BY Zenon DEF AddConnector, callerOnly, pollVars, Types, StepTypes
<1>8. Types'
  BY Zenon, <1>5, <1>6, <1>7 DEF Types
<1>9. CallersHold' /\ PollerHolds'
  BY ZenonT(60) DEF AddConnector, CallerGoes, CallerReturns, callerOnly, pollVars, Types, CallTypes,
     CallersHold, PollerHolds, Owned
<1>10. Disjoint'
  BY Zenon, <1>4
<1>11. CallersApart'
  BY Zenon, <1>4
<1>12. OpenIsHeld'
  BY Zenon, <1>4
<1>13. WatchesItsTables'
  BY Zenon DEF AddConnector, callerOnly, pollVars, WatchesItsTables
<1>14. StopOK'
  BY Zenon DEF AddConnector, callerOnly, pollVars, StopOK
<1> QED BY Zenon, <1>8, <1>9, <1>10, <1>11, <1>12, <1>13, <1>14 DEF Owned

\* A socket that a sealed table refused is closed by the caller, its only holder.
LEMMA CloseRejectedKeeps ==
    ASSUME Types, CallersHold, PollerHolds, Owned, WatchesItsTables, StopOK,
           NEW c \in Callers, CloseRejected(c)
    PROVE  Types' /\ CallersHold' /\ PollerHolds' /\ Owned' /\ WatchesItsTables' /\ StopOK'
<1> USE TcpAssumption
<1>1. fdOf[c] \in Fds /\ ~InTables(fdOf[c]) /\ (\A d \in Callers \ {c} : fdOf[d] # fdOf[c])
  BY Zenon DEF CloseRejected, CallersHold, Owned, CallersApart
<1>2. /\ fdOf'[c] = None /\ (\A d \in Callers \ {c} : fdOf'[d] = fdOf[d])
      /\ fdOf' \in [Callers -> Fds \cup {None}]
  BY Zenon DEF CloseRejected, CallerReturns, Types, CallTypes
<1>3. UNCHANGED <<listeners, connectors, incoming, outgoing, user, poller, dead>>
  BY Zenon DEF CloseRejected, callerOnly, tableVars, pollVars
<1>4. \A f \in Fds : InTables(f)' <=> InTables(f)
  BY Zenon, <1>3 DEF InTables
<1>5. \A f \in Fds : socket'[f] # "closed" <=> socket[f] # "closed" /\ f # fdOf[c]
  BY Zenon DEF CloseRejected, Close
<1>6. interest' = interest \ {fdOf[c]}
  BY Zenon DEF CloseRejected, Close
<1>7. CallTypes'
  BY Zenon DEF CloseRejected, Close, CallerReturns, callerOnly, tableVars, callVars, pollVars, Types,
     CallTypes, TableTypes, PollerHolds, CallerStates, SocketStates
<1>8. TableTypes'
  BY Zenon DEF CloseRejected, callerOnly, tableVars, pollVars, Types, TableTypes
<1>9. StepTypes'
  BY Zenon DEF CloseRejected, callerOnly, pollVars, Types, StepTypes
<1>10. Types'
  BY Zenon, <1>7, <1>8, <1>9 DEF Types
<1>11. CallersHold' /\ PollerHolds'
  BY Zenon DEF CloseRejected, CallerReturns, callerOnly, tableVars, pollVars, Types, CallTypes,
     CallersHold, PollerHolds
<1>12. Disjoint'
  BY Zenon DEF CloseRejected, callerOnly, tableVars, pollVars, Owned, Disjoint
<1>13. CallersApart'
  BY Zenon, <1>1, <1>2, <1>4 DEF Owned, CallersApart
<1>14. OpenIsHeld'
  BY <1>1, <1>2, <1>4, <1>5 DEF Owned, OpenIsHeld
<1>15. WatchesItsTables'
  BY Zenon, <1>1, <1>3, <1>6 DEF InTables, WatchesItsTables
<1>16. StopOK'
  BY Zenon DEF CloseRejected, callerOnly, tableVars, pollVars, StopOK
<1> QED BY Zenon, <1>10, <1>11, <1>12, <1>13, <1>14, <1>15, <1>16 DEF Owned

\* Waiting for events changes no table.
LEMMA BlockingWaitKeeps ==
    ASSUME Types, CallersHold, PollerHolds, Owned, WatchesItsTables, StopOK,
           BlockingWait
    PROVE  Types' /\ CallersHold' /\ PollerHolds' /\ Owned' /\ WatchesItsTables' /\ StopOK'
<1> USE TcpAssumption
<1>1. CallTypes'
  BY Zenon DEF BlockingWait, pollerOnly, kernelVars, callVars, Types, CallTypes
<1>2. TableTypes'
  BY Zenon DEF BlockingWait, PollerGoes, pollerOnly, tableVars, Types, TableTypes
<1>3. StepTypes'
  BY Zenon DEF BlockingWait, PollerGoes, pollerOnly, Types, StepTypes, PollerStates
<1>4. Types'
  BY Zenon, <1>1, <1>2, <1>3 DEF Types
<1>5. CallersHold' /\ PollerHolds'
  BY Zenon DEF BlockingWait, PollerGoes, pollerOnly, callVars, CallersHold, PollerHolds
<1>6. Disjoint'
  BY Zenon DEF BlockingWait, PollerGoes, pollerOnly, tableVars, Owned, Disjoint
<1>7. CallersApart'
  BY Zenon DEF BlockingWait, PollerGoes, pollerOnly, tableVars, callVars, Owned, CallersApart,
     InTables
<1>8. OpenIsHeld'
  BY Zenon DEF BlockingWait, PollerGoes, pollerOnly, tableVars, kernelVars, callVars, Owned,
     OpenIsHeld, InTables
<1>9. WatchesItsTables'
  BY Zenon DEF BlockingWait, PollerGoes, tableVars, kernelVars, WatchesItsTables
<1>10. StopOK'
  BY Zenon DEF BlockingWait, PollerGoes, pollerOnly, tableVars, StopOK
<1> QED BY Zenon, <1>4, <1>5, <1>6, <1>7, <1>8, <1>9, <1>10 DEF Owned

\* The poller goes to its last step only after stop_ is set.
LEMMA CheckStoppedKeeps ==
    ASSUME Types, CallersHold, PollerHolds, Owned, WatchesItsTables, StopOK,
           CheckStopped
    PROVE  Types' /\ CallersHold' /\ PollerHolds' /\ Owned' /\ WatchesItsTables' /\ StopOK'
<1> USE TcpAssumption
<1>1. CallTypes'
  BY Zenon DEF CheckStopped, pollerOnly, kernelVars, callVars, Types, CallTypes
<1>2. TableTypes'
  BY Zenon DEF CheckStopped, PollerGoes, pollerOnly, tableVars, Types, TableTypes
<1>3. StepTypes'
  BY Zenon DEF CheckStopped, PollerGoes, pollerOnly, Types, StepTypes, PollerStates
<1>4. Types'
  BY Zenon, <1>1, <1>2, <1>3 DEF Types
<1>5. CallersHold' /\ PollerHolds'
  BY Zenon DEF CheckStopped, PollerGoes, pollerOnly, callVars, CallersHold, PollerHolds
<1>6. Disjoint'
  BY Zenon DEF CheckStopped, PollerGoes, pollerOnly, tableVars, Owned, Disjoint
<1>7. CallersApart'
  BY Zenon DEF CheckStopped, PollerGoes, pollerOnly, tableVars, callVars, Owned, CallersApart,
     InTables
<1>8. OpenIsHeld'
  BY Zenon DEF CheckStopped, PollerGoes, pollerOnly, tableVars, kernelVars, callVars, Owned,
     OpenIsHeld, InTables
<1>9. WatchesItsTables'
  BY Zenon DEF CheckStopped, PollerGoes, tableVars, kernelVars, WatchesItsTables
<1>10. StopOK'
  BY Zenon DEF CheckStopped, PollerGoes, pollerOnly, tableVars, StopOK
<1> QED BY Zenon, <1>4, <1>5, <1>6, <1>7, <1>8, <1>9, <1>10 DEF Owned

\* A listener that hung up is closed with its entry; a connector is taken out of its
\* table before it is finished or closed.
LEMMA DispatchKeeps ==
    ASSUME Types, CallersHold, PollerHolds, Owned, WatchesItsTables, StopOK,
           Dispatch
    PROVE  Types' /\ CallersHold' /\ PollerHolds' /\ Owned' /\ WatchesItsTables' /\ StopOK'
<1> USE TcpAssumption
<1>1. dead = {} /\ interest = listeners \cup connectors
  BY Zenon DEF Dispatch, PollerHolds, WatchesItsTables
<1>2. PICK e \in batch :
         IF e.fd \in listeners
         THEN IF e.flag = "IN"
              THEN /\ poller' = "accept" /\ event' = e
                   /\ UNCHANGED <<dead, tableVars, kernelVars, unhandled>>
              ELSE RemoveListener(e.fd) /\ UNCHANGED <<poller, event, dead, unhandled>>
         ELSE IF e.fd \in connectors
         THEN /\ connectors' = connectors \ {e.fd} /\ expired' = expired \ {e.fd}
              /\ poller' = "outgoing" /\ event' = e /\ dead' = {e.fd}
              /\ UNCHANGED <<listeners, incoming, outgoing, kernelVars, unhandled>>
         ELSE unhandled' = TRUE /\ UNCHANGED <<poller, event, dead, tableVars, kernelVars>>
  BY Zenon DEF Dispatch
<1>3. poller = "dispatch" /\ UNCHANGED callVars
  BY Zenon DEF Dispatch, pollerOnly
<1>4. CallTypes'
  BY Zenon DEF Dispatch, RemoveListener, Close, pollerOnly, kernelVars, callVars, Types, CallTypes,
     SocketStates
<1>5. TableTypes'
  BY DEF Dispatch, RemoveListener, pollerOnly, tableVars, kernelVars, Types, TableTypes
<1>6. StepTypes'
  BY Zenon DEF Dispatch, pollerOnly, Types, StepTypes, PollerStates
<1>7. Types'
  BY Zenon, <1>4, <1>5, <1>6 DEF Types
<1>8. CallersHold' /\ PollerHolds'
  <2>1. CallersHold'
    BY Zenon, <1>3 DEF callVars, CallersHold
  <2>2. \/ poller' = "accept" /\ event' = e /\ e.fd \in listeners /\ listeners' = listeners /\ dead' = dead
        \/ poller' = "outgoing" /\ event' = e /\ dead' = {e.fd}
        \/ poller' = "dispatch" /\ dead' = dead
    BY Zenon, <1>2, <1>3 DEF RemoveListener, tableVars
  <2>3. PollerHolds'
    BY Zenon, <1>1, <2>2 DEF PollerHolds
  <2> QED BY Zenon, <2>1, <2>3
<1>9. Disjoint'
  BY DEF Dispatch, RemoveListener, pollerOnly, tableVars, pollVars, Types, CallTypes,
     TableTypes, CallersHold, PollerHolds, Owned, Disjoint, CallersApart, OpenIsHeld, InTables
<1>10. CallersApart'
  BY DEF Dispatch, RemoveListener, pollerOnly, tableVars, callVars, CallTypes, TableTypes,
     Owned, CallersApart, OpenIsHeld, InTables
<1>11. OpenIsHeld'
  BY DEF Dispatch, RemoveListener, Close, pollerOnly, tableVars, kernelVars, callVars,
     CallTypes, TableTypes, CallersHold, PollerHolds, Owned, Disjoint, CallersApart, OpenIsHeld,
     InTables
<1>12. WatchesItsTables'
  <2>1. CASE e.fd \in listeners /\ e.flag = "IN"
    BY Zenon, <1>1, <1>2, <1>3, <2>1 DEF tableVars, kernelVars, WatchesItsTables
  <2>2. CASE e.fd \in listeners /\ e.flag # "IN"
    <3>1. /\ interest' = interest \ {e.fd} /\ listeners' = listeners \ {e.fd}
          /\ connectors' = connectors /\ poller' = poller
      BY Zenon, <1>2, <2>2 DEF RemoveListener, Close
    <3>2. e.fd \notin connectors
      BY Zenon, <2>2 DEF Owned, Disjoint, Types, TableTypes
    <3> QED BY Zenon, <1>1, <1>3, <3>1, <3>2 DEF WatchesItsTables
  <2>3. CASE e.fd \notin listeners /\ e.fd \in connectors
    <3>1. /\ interest' = interest /\ listeners' = listeners /\ connectors' = connectors \ {e.fd}
          /\ poller' = "outgoing" /\ dead' = {e.fd}
      BY Zenon, <1>2, <2>3 DEF kernelVars
    <3> QED BY Zenon, <1>1, <2>3, <3>1 DEF WatchesItsTables
  <2>4. CASE e.fd \notin listeners /\ e.fd \notin connectors
    BY Zenon, <1>1, <1>2, <1>3, <2>4 DEF tableVars, kernelVars, WatchesItsTables
  <2> QED BY Zenon, <2>1, <2>2, <2>3, <2>4
<1>13. StopOK'
  BY ZenonT(60) DEF Dispatch, RemoveListener, pollerOnly, tableVars, StopOK
<1> QED BY Zenon, <1>7, <1>8, <1>9, <1>10, <1>11, <1>12, <1>13 DEF Owned

\* An accepted socket has a descriptor that was closed, and belongs to the poller.
LEMMA AcceptKeeps ==
    ASSUME Types, CallersHold, PollerHolds, Owned, WatchesItsTables, StopOK,
           Accept
    PROVE  Types' /\ CallersHold' /\ PollerHolds' /\ Owned' /\ WatchesItsTables' /\ StopOK'
<1> USE TcpAssumption
<1>1. CallTypes'
  BY DEF Accept, RemoveListener, Close, pollerOnly, kernelVars, callVars, Types, CallTypes,
     SocketStates
<1>2. TableTypes'
  BY Zenon DEF Accept, NextEvent, RemoveListener, pollerOnly, tableVars, Types, TableTypes
<1>3. StepTypes'
  BY ZenonT(60) DEF Accept, NextEvent, pollerOnly, Types, StepTypes, PollerStates
<1>4. Types'
  BY Zenon, <1>1, <1>2, <1>3 DEF Types
<1>5. CallersHold' /\ PollerHolds'
  BY ZenonT(60) DEF Accept, NextEvent, pollerOnly, tableVars, callVars, CallersHold, PollerHolds
<1>6. Disjoint'
  BY DEF Accept, NextEvent, RemoveListener, pollerOnly, tableVars, CallTypes, TableTypes,
     CallersHold, PollerHolds, Owned, Disjoint, CallersApart, OpenIsHeld, InTables
<1>7. CallersApart'
  BY Zenon DEF Accept, NextEvent, RemoveListener, pollerOnly, tableVars, callVars, Owned,
     CallersApart, OpenIsHeld, InTables
<1>8. OpenIsHeld'
  BY DEF Accept, NextEvent, RemoveListener, Close, pollerOnly, tableVars, kernelVars, callVars,
     pollVars, Types, CallTypes, TableTypes, CallersHold, PollerHolds, Owned, Disjoint,
     CallersApart, OpenIsHeld, InTables
<1>9. WatchesItsTables'
  <2>1. dead = {} /\ interest = listeners \cup connectors
    BY Zenon DEF Accept, PollerHolds, WatchesItsTables
  <2>2. connectors' = connectors /\ poller' \in {"dispatch", "produce"}
    BY Zenon DEF Accept, NextEvent, RemoveListener, tableVars
  <2>3. CASE UNCHANGED <<listeners, interest>>
    BY Zenon, <2>1, <2>2, <2>3 DEF WatchesItsTables
  <2>4. CASE RemoveListener(event.fd)
    <3>1. event.fd \in listeners /\ event.fd \notin connectors
      BY Zenon DEF Accept, PollerHolds, Owned, Disjoint, Types, TableTypes
    <3>2. interest' = interest \ {event.fd} /\ listeners' = listeners \ {event.fd}
      BY Zenon, <2>4 DEF RemoveListener, Close
    <3> QED BY Zenon, <2>1, <2>2, <3>1, <3>2 DEF WatchesItsTables
  <2> QED BY Zenon, <2>3, <2>4 DEF Accept, tableVars, kernelVars
<1>10. StopOK'
  BY Zenon DEF Accept, NextEvent, RemoveListener, pollerOnly, tableVars, StopOK
<1> QED BY Zenon, <1>4, <1>5, <1>6, <1>7, <1>8, <1>9, <1>10 DEF Owned

\* The accepted socket moves from the poller to the incoming table, or is closed when
\* Stop() has sealed it.
LEMMA AddIncomingKeeps ==
    ASSUME Types, CallersHold, PollerHolds, Owned, WatchesItsTables, StopOK,
           AddIncoming
    PROVE  Types' /\ CallersHold' /\ PollerHolds' /\ Owned' /\ WatchesItsTables' /\ StopOK'
<1> USE TcpAssumption
<1>1. CallTypes'
  BY Zenon DEF AddIncoming, Close, pollerOnly, kernelVars, callVars, Types, CallTypes, SocketStates
<1>2. TableTypes'
  BY Zenon DEF AddIncoming, NextEvent, pollerOnly, tableVars, Types, TableTypes
<1>3. StepTypes'
  BY Zenon DEF AddIncoming, NextEvent, pollerOnly, Types, StepTypes, PollerStates
<1>4. Types'
  BY Zenon, <1>1, <1>2, <1>3 DEF Types
<1>5. CallersHold' /\ PollerHolds'
  <2>1. CallersHold'
    BY Zenon DEF AddIncoming, pollerOnly, callVars, CallersHold
  <2>2. event.fd \in listeners
    BY Zenon DEF AddIncoming, PollerHolds
  <2>3. CASE "incoming" \in sealed
    <3>1. poller' = "dispatch" /\ dead' = {}
      BY Zenon, <2>3 DEF AddIncoming, NextEvent
    <3> QED BY Zenon, <2>1, <3>1 DEF PollerHolds
  <2>4. CASE "incoming" \notin sealed
    <3>1. poller' = "accept" /\ dead' = {} /\ event' = event /\ listeners' = listeners
      BY Zenon, <2>4 DEF AddIncoming
    <3> QED BY Zenon, <2>1, <2>2, <3>1 DEF PollerHolds
  <2> QED BY Zenon, <2>3, <2>4
<1>6. Disjoint'
  BY Zenon DEF AddIncoming, NextEvent, pollerOnly, tableVars, Owned, Disjoint
<1>7. CallersApart'
  BY Zenon DEF AddIncoming, NextEvent, pollerOnly, tableVars, callVars, Owned, CallersApart, InTables
<1>8. OpenIsHeld'
  BY DEF AddIncoming, NextEvent, Close, pollerOnly, tableVars, kernelVars, callVars, TableTypes,
     Owned, Disjoint, CallersApart, OpenIsHeld, InTables
<1>9. WatchesItsTables'
  BY Zenon DEF AddIncoming, NextEvent, Close, tableVars, kernelVars, Types, TableTypes, Owned,
     Disjoint, WatchesItsTables
<1>10. StopOK'
  BY Zenon DEF AddIncoming, NextEvent, pollerOnly, tableVars, StopOK
<1> QED BY Zenon, <1>4, <1>5, <1>6, <1>7, <1>8, <1>9, <1>10 DEF Owned

\* A connector that is through moves from the poller to the outgoing table, or is closed;
\* either way it is unregistered.
LEMMA FinishOutgoingKeeps ==
    ASSUME Types, CallersHold, PollerHolds, Owned, WatchesItsTables, StopOK,
           FinishOutgoing
    PROVE  Types' /\ CallersHold' /\ PollerHolds' /\ Owned' /\ WatchesItsTables' /\ StopOK'
<1> USE TcpAssumption
<1>1. CallTypes'
  BY Zenon DEF FinishOutgoing, Close, pollerOnly, callVars, Types, CallTypes, SocketStates
<1>2. TableTypes'
  BY Zenon DEF FinishOutgoing, NextEvent, pollerOnly, tableVars, Types, TableTypes, PollerHolds
<1>3. StepTypes'
  BY Zenon DEF FinishOutgoing, NextEvent, pollerOnly, Types, StepTypes, PollerStates
<1>4. Types'
  BY Zenon, <1>1, <1>2, <1>3 DEF Types
<1>5. CallersHold' /\ PollerHolds'
  BY Zenon DEF FinishOutgoing, NextEvent, pollerOnly, callVars, CallersHold, PollerHolds
<1>6. Disjoint'
  BY ZenonT(60) DEF FinishOutgoing, NextEvent, pollerOnly, tableVars, CallTypes, TableTypes, CallersHold,
     PollerHolds, Owned, Disjoint, CallersApart, OpenIsHeld, InTables
<1>7. CallersApart'
  BY Zenon DEF FinishOutgoing, NextEvent, pollerOnly, tableVars, callVars, PollerHolds, Owned,
     CallersApart, OpenIsHeld, InTables
<1>8. OpenIsHeld'
  BY DEF FinishOutgoing, NextEvent, Close, pollerOnly, tableVars, callVars, Types, CallTypes,
     TableTypes, PollerHolds, Owned, Disjoint, CallersApart, OpenIsHeld, InTables
<1>9. WatchesItsTables'
  BY Zenon DEF FinishOutgoing, NextEvent, Close, tableVars, Types, TableTypes, PollerHolds, Owned,
     Disjoint, WatchesItsTables
<1>10. StopOK'
  BY Zenon DEF FinishOutgoing, NextEvent, pollerOnly, tableVars, StopOK
<1> QED BY Zenon, <1>4, <1>5, <1>6, <1>7, <1>8, <1>9, <1>10 DEF Owned

\* Expired connectors leave their table and belong to the poller.
LEMMA RemoveExpiredKeeps ==
    ASSUME Types, CallersHold, PollerHolds, Owned, WatchesItsTables, StopOK,
           RemoveExpired
    PROVE  Types' /\ CallersHold' /\ PollerHolds' /\ Owned' /\ WatchesItsTables' /\ StopOK'
<1> USE TcpAssumption
<1>1. CallTypes'
  BY Zenon DEF RemoveExpired, pollerOnly, kernelVars, callVars, Types, CallTypes
<1>2. TableTypes'
  BY Zenon DEF RemoveExpired, pollerOnly, Types, TableTypes
<1>3. StepTypes'
  BY Zenon DEF RemoveExpired, pollerOnly, Types, StepTypes, PollerStates
<1>4. Types'
  BY Zenon, <1>1, <1>2, <1>3 DEF Types
<1>5. CallersHold' /\ PollerHolds'
  BY Zenon DEF RemoveExpired, pollerOnly, callVars, CallersHold, PollerHolds
<1>6. Disjoint'
  BY Zenon DEF RemoveExpired, pollerOnly, Types, TableTypes, Owned, Disjoint
<1>7. CallersApart'
  BY Zenon DEF RemoveExpired, pollerOnly, callVars, Types, TableTypes, Owned, CallersApart, InTables
<1>8. OpenIsHeld'
  BY Zenon DEF RemoveExpired, pollerOnly, kernelVars, callVars, Types, TableTypes, PollerHolds, Owned,
     OpenIsHeld, InTables
<1>9. WatchesItsTables'
  BY Zenon DEF RemoveExpired, kernelVars, Types, TableTypes, WatchesItsTables
<1>10. StopOK'
  BY Zenon DEF RemoveExpired, pollerOnly, StopOK
<1> QED BY Zenon, <1>4, <1>5, <1>6, <1>7, <1>8, <1>9, <1>10 DEF Owned

\* Only sockets the poller holds are unregistered.
LEMMA UnregisterExpiredKeeps ==
    ASSUME Types, CallersHold, PollerHolds, Owned, WatchesItsTables, StopOK,
           UnregisterExpired
    PROVE  Types' /\ CallersHold' /\ PollerHolds' /\ Owned' /\ WatchesItsTables' /\ StopOK'
<1> USE TcpAssumption
<1>1. CallTypes'
  BY Zenon DEF UnregisterExpired, pollerOnly, callVars, Types, CallTypes
<1>2. TableTypes'
  BY Zenon DEF UnregisterExpired, PollerGoes, pollerOnly, tableVars, Types, TableTypes
<1>3. StepTypes'
  BY Zenon DEF UnregisterExpired, PollerGoes, pollerOnly, Types, StepTypes, PollerStates
<1>4. Types'
  BY Zenon, <1>1, <1>2, <1>3 DEF Types
<1>5. CallersHold' /\ PollerHolds'
  BY Zenon DEF UnregisterExpired, PollerGoes, pollerOnly, callVars, CallersHold, PollerHolds
<1>6. Disjoint'
  BY Zenon DEF UnregisterExpired, PollerGoes, pollerOnly, tableVars, Owned, Disjoint
<1>7. CallersApart'
  BY Zenon DEF UnregisterExpired, PollerGoes, pollerOnly, tableVars, callVars, Owned, CallersApart,
     InTables
<1>8. OpenIsHeld'
  BY Zenon DEF UnregisterExpired, PollerGoes, pollerOnly, tableVars, callVars, Owned, OpenIsHeld,
     InTables
<1>9. WatchesItsTables'
  BY Zenon DEF UnregisterExpired, PollerGoes, tableVars, Types, TableTypes, Owned, Disjoint,
     WatchesItsTables
<1>10. StopOK'
  BY Zenon DEF UnregisterExpired, PollerGoes, pollerOnly, tableVars, StopOK
<1> QED BY Zenon, <1>4, <1>5, <1>6, <1>7, <1>8, <1>9, <1>10 DEF Owned

\* The expired connectors are closed by the poller, their only holder.
LEMMA CloseExpiredKeeps ==
    ASSUME Types, CallersHold, PollerHolds, Owned, WatchesItsTables, StopOK,
           CloseExpired
    PROVE  Types' /\ CallersHold' /\ PollerHolds' /\ Owned' /\ WatchesItsTables' /\ StopOK'
<1> USE TcpAssumption
<1>1. CallTypes'
  BY Zenon DEF CloseExpired, Close, pollerOnly, callVars, Types, CallTypes, SocketStates
<1>2. TableTypes'
  BY Zenon DEF CloseExpired, pollerOnly, tableVars, Types, TableTypes
<1>3. StepTypes'
  BY ZenonT(60) DEF CloseExpired, pollerOnly, Types, StepTypes, PollerStates
<1>4. Types'
  BY Zenon, <1>1, <1>2, <1>3 DEF Types
<1>5. CallersHold' /\ PollerHolds'
  BY Zenon DEF CloseExpired, pollerOnly, callVars, CallersHold, PollerHolds
<1>6. Disjoint'
  BY Zenon DEF CloseExpired, pollerOnly, tableVars, Owned, Disjoint
<1>7. CallersApart'
  BY ZenonT(60) DEF CloseExpired, pollerOnly, tableVars, callVars, Owned, CallersApart, InTables
<1>8. OpenIsHeld'
  <2>1. \A f \in Fds : socket'[f] # "closed" <=> socket[f] # "closed" /\ f \notin dead
    BY Zenon DEF CloseExpired, Close
  <2>2. \A f \in Fds : InTables(f)' <=> InTables(f) /\ f \notin dead
    BY Zenon DEF CloseExpired, tableVars, pollerOnly, InTables, Owned, Disjoint
  <2>3. \A f \in dead, c \in Callers : f \in Fds => fdOf[c] # f
    BY Zenon DEF Owned, CallersApart, InTables
  <2>4. fdOf' = fdOf
    BY Zenon DEF CloseExpired, pollerOnly, callVars
  <2> QED BY Zenon, <2>1, <2>2, <2>3, <2>4 DEF Owned, OpenIsHeld
<1>9. WatchesItsTables'
  BY Zenon DEF CloseExpired, Close, tableVars, Types, TableTypes, Owned, Disjoint, WatchesItsTables
<1>10. StopOK'
  BY Zenon DEF CloseExpired, pollerOnly, tableVars, StopOK
<1> QED BY Zenon, <1>4, <1>5, <1>6, <1>7, <1>8, <1>9, <1>10 DEF Owned

\* The last step of Start() closes listeners and connectors with their entries.
LEMMA CloseTablesKeeps ==
    ASSUME Types, CallersHold, PollerHolds, Owned, WatchesItsTables, StopOK,
           CloseTables
    PROVE  Types' /\ CallersHold' /\ PollerHolds' /\ Owned' /\ WatchesItsTables' /\ StopOK'
<1> USE TcpAssumption
<1>1. CallTypes'
  BY Zenon DEF CloseTables, Close, pollerOnly, callVars, Types, CallTypes, CallerStates, SocketStates
<1>2. TableTypes'
  BY Zenon DEF CloseTables, PollerGoes, pollerOnly, pollVars, Types, TableTypes
<1>3. StepTypes'
  BY Zenon DEF CloseTables, PollerGoes, pollerOnly, pollVars, Types, StepTypes, PollerStates
<1>4. Types'
  BY Zenon, <1>1, <1>2, <1>3 DEF Types
<1>5. CallersHold' /\ PollerHolds'
  BY Zenon DEF CloseTables, PollerGoes, pollerOnly, callVars, pollVars, CallersHold, PollerHolds
<1>6. Disjoint'
  BY Zenon DEF CloseTables, PollerGoes, pollerOnly, pollVars, Owned, Disjoint
<1>7. CallersApart'
  BY Zenon DEF CloseTables, PollerGoes, pollerOnly, callVars, pollVars, Owned, CallersApart, InTables
<1>8. OpenIsHeld'
  BY DEF CloseTables, PollerGoes, Close, pollerOnly, callVars, pollVars, Types, CallTypes,
     TableTypes, Owned, Disjoint, CallersApart, OpenIsHeld, InTables
<1>9. WatchesItsTables'
  BY Zenon DEF CloseTables, PollerGoes, Close, pollVars, Types, TableTypes, Owned, Disjoint,
     WatchesItsTables
<1>10. StopOK'
  BY ZenonT(60) DEF CloseTables, pollerOnly, pollVars, StopOK
<1> QED BY Zenon, <1>4, <1>5, <1>6, <1>7, <1>8, <1>9, <1>10 DEF Owned

\* Every step of Stop() seals a table, sets the flag, or empties a table that is sealed.
LEMMA StopKeeps ==
    ASSUME Types, CallersHold, PollerHolds, Owned, WatchesItsTables, StopOK,
           Stop
    PROVE  Types' /\ CallersHold' /\ PollerHolds' /\ Owned' /\ WatchesItsTables' /\ StopOK'
<1> USE TcpAssumption
<1>1. CallTypes'
  BY ZenonT(60) DEF Stop, Seal, SetStop, ShutdownListeners, CloseIncoming, CloseOutgoing, Close, stopOnly,
     kernelVars, callVars, Types, CallTypes, SocketStates
<1>2. TableTypes'
  BY ZenonT(60) DEF Stop, Seal, SetStop, ShutdownListeners, CloseIncoming, CloseOutgoing, stopOnly,
     tableVars, pollVars, Types, TableTypes
<1>3. StepTypes'
  BY ZenonT(60) DEF Stop, Seal, SetStop, ShutdownListeners, CloseIncoming, CloseOutgoing, stopOnly,
     pollVars, Types, StepTypes, StopSteps
<1>4. Types'
  BY Zenon, <1>1, <1>2, <1>3 DEF Types
<1>5. CallersHold' /\ PollerHolds'
  BY ZenonT(60) DEF Stop, Seal, SetStop, ShutdownListeners, CloseIncoming, CloseOutgoing, stopOnly,
     tableVars, callVars, pollVars, CallersHold, PollerHolds
<1>6. Disjoint'
  BY ZenonT(60) DEF Stop, Seal, SetStop, ShutdownListeners, CloseIncoming, CloseOutgoing, stopOnly,
     tableVars, pollVars, Owned, Disjoint
<1>7. CallersApart'
  BY Zenon DEF Stop, Seal, SetStop, ShutdownListeners, CloseIncoming, CloseOutgoing, stopOnly,
     tableVars, callVars, pollVars, Owned, CallersApart, InTables
<1>8. OpenIsHeld'
  <2>1. fdOf' = fdOf /\ UNCHANGED <<listeners, connectors, user, dead>>
    BY ZenonT(60) DEF Stop, Seal, SetStop, ShutdownListeners, CloseIncoming, CloseOutgoing, Close,
       stopOnly, tableVars, kernelVars, callVars, pollVars
  <2>2. CASE socket' = socket /\ UNCHANGED <<incoming, outgoing>>
    BY Zenon, <2>1, <2>2 DEF Owned, OpenIsHeld, InTables
  <2>3. CASE ShutdownListeners
    <3>1. \A f \in Fds : socket'[f] # "closed" <=> socket[f] # "closed"
      BY Zenon, <2>3 DEF ShutdownListeners, Owned, OpenIsHeld, InTables
    <3>2. UNCHANGED <<incoming, outgoing>>
      BY ZenonT(60), <2>3 DEF ShutdownListeners, tableVars
    <3> QED BY Zenon, <2>1, <3>1, <3>2 DEF Owned, OpenIsHeld, InTables
  <2>4. ASSUME NEW gone \in {incoming, outgoing}, Close(gone),
               \A f \in Fds : InTables(f)' <=> InTables(f) /\ f \notin gone
        PROVE  OpenIsHeld'
    <3>1. \A f \in Fds : socket'[f] # "closed" <=> socket[f] # "closed" /\ f \notin gone
      BY Zenon, <2>4 DEF Close
    <3>2. \A f \in gone, c \in Callers : f \in Fds => fdOf[c] # f
      BY Zenon DEF Owned, CallersApart, InTables
    <3> QED BY Zenon, <2>1, <2>4, <3>1, <3>2 DEF Owned, OpenIsHeld
  <2>5. CASE CloseIncoming
    <3>1. \A f \in Fds : InTables(f)' <=> InTables(f) /\ f \notin incoming
      BY Zenon, <2>1, <2>5 DEF CloseIncoming, InTables, Owned, Disjoint
    <3> QED BY Zenon, <2>4, <2>5, <3>1 DEF CloseIncoming
  <2>6. CASE CloseOutgoing
    <3>1. \A f \in Fds : InTables(f)' <=> InTables(f) /\ f \notin outgoing
      BY ZenonT(60), <2>1, <2>6 DEF CloseOutgoing, InTables, Owned, Disjoint
    <3> QED BY Zenon, <2>4, <2>6, <3>1 DEF CloseOutgoing
  <2> QED BY ZenonT(60), <2>2, <2>3, <2>5, <2>6 DEF Stop, Seal, SetStop, tableVars, kernelVars
<1>9. WatchesItsTables'
  BY Zenon DEF Stop, Seal, SetStop, ShutdownListeners, CloseIncoming, CloseOutgoing, Close, stopOnly,
     tableVars, kernelVars, pollVars, Types, TableTypes, Owned, Disjoint, WatchesItsTables
<1>10. StopOK'
  <2>1. CASE Seal("running", "connectors", "seal incoming")
    BY Zenon, <2>1 DEF Seal, stopOnly, tableVars, pollVars, Types, StepTypes, StopOK, StopSteps
  <2>2. CASE Seal("seal incoming", "incoming", "seal outgoing")
    BY Zenon, <2>2 DEF Seal, stopOnly, tableVars, pollVars, Types, StepTypes, StopOK, StopSteps
  <2>3. CASE Seal("seal outgoing", "outgoing", "set stop")
    BY Zenon, <2>3 DEF Seal, stopOnly, tableVars, pollVars, Types, StepTypes, StopOK, StopSteps
  <2>4. CASE SetStop
    BY Zenon, <2>4 DEF SetStop, stopOnly, tableVars, pollVars, Types, StepTypes, StopOK, StopSteps
  <2>5. CASE ShutdownListeners
    BY Zenon, <2>5 DEF ShutdownListeners, stopOnly, tableVars, pollVars, Types, StepTypes, StopOK,
       StopSteps
  <2>6. CASE CloseIncoming
    BY Zenon, <2>6 DEF CloseIncoming, stopOnly, pollVars, Types, StepTypes, StopOK, StopSteps
  <2>7. CASE CloseOutgoing
    BY Zenon, <2>7 DEF CloseOutgoing, stopOnly, pollVars, Types, StepTypes, StopOK, StopSteps
  <2> QED BY ZenonT(60), <2>1, <2>2, <2>3, <2>4, <2>5, <2>6, <2>7 DEF Stop
<1> QED BY Zenon, <1>4, <1>5, <1>6, <1>7, <1>8, <1>9, <1>10 DEF Owned

\* Accepted sockets move to the user.
LEMMA GetIncomingSocketsKeeps ==
    ASSUME Types, CallersHold, PollerHolds, Owned, WatchesItsTables, StopOK,
           GetIncomingSockets
    PROVE  Types' /\ CallersHold' /\ PollerHolds' /\ Owned' /\ WatchesItsTables' /\ StopOK'
<1> USE TcpAssumption
<1>1. CallTypes'
  BY Zenon DEF GetIncomingSockets, envOnly, kernelVars, callVars, Types, CallTypes
<1>2. TableTypes'
  BY Zenon DEF GetIncomingSockets, envOnly, pollVars, Types, TableTypes
<1>3. StepTypes'
  BY Zenon DEF GetIncomingSockets, envOnly, pollVars, Types, StepTypes
<1>4. Types'
  BY Zenon, <1>1, <1>2, <1>3 DEF Types
<1>5. CallersHold' /\ PollerHolds'
  BY Zenon DEF GetIncomingSockets, envOnly, callVars, pollVars, CallersHold, PollerHolds
<1>6. Disjoint'
  BY Zenon DEF GetIncomingSockets, envOnly, pollVars, Owned, Disjoint
<1>7. CallersApart'
  BY Zenon DEF GetIncomingSockets, envOnly, callVars, pollVars, Owned, CallersApart, InTables
<1>8. OpenIsHeld'
  BY Zenon DEF GetIncomingSockets, envOnly, kernelVars, callVars, pollVars, Owned, OpenIsHeld,
     InTables
<1>9. WatchesItsTables'
  BY Zenon DEF GetIncomingSockets, envOnly, kernelVars, pollVars, WatchesItsTables
<1>10. StopOK'
  BY ZenonT(60) DEF GetIncomingSockets, envOnly, pollVars, StopOK
<1> QED BY Zenon, <1>4, <1>5, <1>6, <1>7, <1>8, <1>9, <1>10 DEF Owned

\* Connected sockets move to the user.
LEMMA GetOutgoingSocketsKeeps ==
    ASSUME Types, CallersHold, PollerHolds, Owned, WatchesItsTables, StopOK,
           GetOutgoingSockets
    PROVE  Types' /\ CallersHold' /\ PollerHolds' /\ Owned' /\ WatchesItsTables' /\ StopOK'
<1> USE TcpAssumption
<1>1. CallTypes'
  BY Zenon DEF GetOutgoingSockets, envOnly, kernelVars, callVars, Types, CallTypes
<1>2. TableTypes'
  BY Zenon DEF GetOutgoingSockets, envOnly, pollVars, Types, TableTypes
<1>3. StepTypes'
  BY Zenon DEF GetOutgoingSockets, envOnly, pollVars, Types, StepTypes
<1>4. Types'
  BY Zenon, <1>1, <1>2, <1>3 DEF Types
<1>5. CallersHold' /\ PollerHolds'
  BY Zenon DEF GetOutgoingSockets, envOnly, callVars, pollVars, CallersHold, PollerHolds
<1>6. Disjoint'
  BY Zenon DEF GetOutgoingSockets, envOnly, pollVars, Owned, Disjoint
<1>7. CallersApart'
  BY Zenon DEF GetOutgoingSockets, envOnly, callVars, pollVars, Owned, CallersApart, InTables
<1>8. OpenIsHeld'
  BY Zenon DEF GetOutgoingSockets, envOnly, kernelVars, callVars, pollVars, Owned, OpenIsHeld,
     InTables
<1>9. WatchesItsTables'
  BY Zenon DEF GetOutgoingSockets, envOnly, kernelVars, pollVars, WatchesItsTables
<1>10. StopOK'
  BY Zenon DEF GetOutgoingSockets, envOnly, pollVars, StopOK
<1> QED BY Zenon, <1>4, <1>5, <1>6, <1>7, <1>8, <1>9, <1>10 DEF Owned

\* The user closes a socket no table has.
LEMMA UserClosesKeeps ==
    ASSUME Types, CallersHold, PollerHolds, Owned, WatchesItsTables, StopOK,
           NEW f \in Fds, UserCloses(f)
    PROVE  Types' /\ CallersHold' /\ PollerHolds' /\ Owned' /\ WatchesItsTables' /\ StopOK'
<1> USE TcpAssumption
<1>1. CallTypes'
  BY Zenon DEF UserCloses, Close, envOnly, callVars, Types, CallTypes, SocketStates
<1>2. TableTypes'
  BY Zenon DEF UserCloses, envOnly, tableVars, pollVars, Types, TableTypes
<1>3. StepTypes'
  BY Zenon DEF UserCloses, envOnly, pollVars, Types, StepTypes
<1>4. Types'
  BY Zenon, <1>1, <1>2, <1>3 DEF Types
<1>5. CallersHold' /\ PollerHolds'
  BY Zenon DEF UserCloses, envOnly, tableVars, callVars, pollVars, CallersHold, PollerHolds
<1>6. Disjoint'
  BY Zenon DEF UserCloses, envOnly, tableVars, pollVars, Owned, Disjoint
<1>7. CallersApart'
  BY Zenon DEF UserCloses, envOnly, tableVars, callVars, pollVars, Owned, CallersApart, InTables
<1>8. OpenIsHeld'
  <2>1. \A g \in Fds : socket'[g] # "closed" <=> socket[g] # "closed" /\ g # f
    BY Zenon DEF UserCloses, Close
  <2>2. \A g \in Fds : InTables(g)' <=> InTables(g) /\ g # f
    BY Zenon DEF UserCloses, tableVars, envOnly, pollVars, InTables, Owned, Disjoint
  <2>3. \A c \in Callers : fdOf[c] # f
    BY Zenon DEF UserCloses, Owned, CallersApart, InTables
  <2>4. fdOf' = fdOf
    BY Zenon DEF UserCloses, envOnly, callVars
  <2> QED BY Zenon, <2>1, <2>2, <2>3, <2>4 DEF Owned, OpenIsHeld
<1>9. WatchesItsTables'
  <2>1. f \notin listeners /\ f \notin connectors /\ f \notin dead
    BY Zenon DEF UserCloses, Owned, Disjoint
  <2>2. interest' = interest \ {f} /\ UNCHANGED <<listeners, connectors, poller, dead>>
    BY Zenon DEF UserCloses, Close, tableVars, envOnly, pollVars
  <2> QED BY Zenon, <2>1, <2>2 DEF WatchesItsTables
<1>10. StopOK'
  BY Zenon DEF UserCloses, envOnly, tableVars, pollVars, StopOK
<1> QED BY Zenon, <1>4, <1>5, <1>6, <1>7, <1>8, <1>9, <1>10 DEF Owned

\* A peer that connects changes no descriptor of this process.
LEMMA ArriveKeeps ==
    ASSUME Types, CallersHold, PollerHolds, Owned, WatchesItsTables, StopOK,
           NEW f \in ListenFds, Arrive(f)
    PROVE  Types' /\ CallersHold' /\ PollerHolds' /\ Owned' /\ WatchesItsTables' /\ StopOK'
<1> USE TcpAssumption
<1>1. CallTypes'
  BY Zenon DEF Arrive, envOnly, callVars, Types, CallTypes
<1>2. TableTypes'
  BY Zenon DEF Arrive, envOnly, tableVars, pollVars, Types, TableTypes
<1>3. StepTypes'
  BY Zenon DEF Arrive, envOnly, pollVars, Types, StepTypes
<1>4. Types'
  BY Zenon, <1>1, <1>2, <1>3 DEF Types
<1>5. CallersHold' /\ PollerHolds'
  BY ZenonT(60) DEF Arrive, envOnly, tableVars, callVars, pollVars, CallersHold, PollerHolds
<1>6. Disjoint'
  BY Zenon DEF Arrive, envOnly, tableVars, pollVars, Owned, Disjoint
<1>7. CallersApart'
  BY Zenon DEF Arrive, envOnly, tableVars, callVars, pollVars, Owned, CallersApart, InTables
<1>8. OpenIsHeld'
  BY ZenonT(60) DEF Arrive, envOnly, tableVars, callVars, pollVars, Owned, OpenIsHeld, InTables
<1>9. WatchesItsTables'
  BY ZenonT(60) DEF Arrive, envOnly, tableVars, pollVars, WatchesItsTables
<1>10. StopOK'
  BY Zenon DEF Arrive, envOnly, tableVars, pollVars, StopOK
<1> QED BY Zenon, <1>4, <1>5, <1>6, <1>7, <1>8, <1>9, <1>10 DEF Owned

\* An answer from the network changes the state of a connector, and opens or closes
\* nothing.
LEMMA ResolveKeeps ==
    ASSUME Types, CallersHold, PollerHolds, Owned, WatchesItsTables, StopOK,
           NEW f \in Fds, Resolve(f)
    PROVE  Types' /\ CallersHold' /\ PollerHolds' /\ Owned' /\ WatchesItsTables' /\ StopOK'
<1> USE TcpAssumption
<1>1. PICK end \in {"ready", "failed", "hungup"} : socket' = [socket EXCEPT ![f] = end]
  BY Zenon DEF Resolve, Becomes
<1>2. socket' \in [Fds -> SocketStates] /\ \A g \in Fds : socket'[g] # "closed" <=> socket[g] # "closed"
  BY Zenon, <1>1 DEF Resolve, Types, CallTypes, SocketStates
<1>3. \A g \in Fds : InTables(g)' <=> InTables(g)
  BY Zenon DEF Resolve, tableVars, envOnly, pollVars, InTables
<1>4. UNCHANGED <<caller, fdOf>>
  BY Zenon DEF Resolve, envOnly, callVars
<1>5. CallTypes'
  BY Zenon, <1>2, <1>4 DEF Types, CallTypes
<1>6. TableTypes'
  BY Zenon DEF Resolve, envOnly, tableVars, pollVars, Types, TableTypes
<1>7. StepTypes'
  BY Zenon DEF Resolve, envOnly, pollVars, Types, StepTypes
<1>8. Types'
  BY Zenon, <1>5, <1>6, <1>7 DEF Types
<1>9. CallersHold' /\ PollerHolds'
  BY ZenonT(60) DEF Resolve, envOnly, tableVars, callVars, pollVars, CallersHold, PollerHolds
<1>10. Disjoint'
  BY Zenon DEF Resolve, envOnly, tableVars, pollVars, Owned, Disjoint
<1>11. CallersApart'
  BY Zenon DEF Resolve, envOnly, tableVars, callVars, pollVars, Owned, CallersApart, InTables
<1>12. OpenIsHeld'
  BY ZenonT(60), <1>2, <1>3, <1>4 DEF Owned, OpenIsHeld
<1>13. WatchesItsTables'
  BY Zenon DEF Resolve, Becomes, envOnly, tableVars, pollVars, WatchesItsTables
<1>14. StopOK'
  BY Zenon DEF Resolve, envOnly, tableVars, pollVars, StopOK
<1> QED BY Zenon, <1>8, <1>9, <1>10, <1>11, <1>12, <1>13, <1>14 DEF Owned

\* A deadline that passes only marks a connector.
LEMMA ExpireKeeps ==
    ASSUME Types, CallersHold, PollerHolds, Owned, WatchesItsTables, StopOK,
           NEW f \in Fds, Expire(f)
    PROVE  Types' /\ CallersHold' /\ PollerHolds' /\ Owned' /\ WatchesItsTables' /\ StopOK'
<1> USE TcpAssumption
<1>1. CallTypes'
  BY Zenon DEF Expire, envOnly, kernelVars, callVars, Types, CallTypes
<1>2. TableTypes'
  BY Zenon DEF Expire, envOnly, pollVars, Types, TableTypes
<1>3. StepTypes'
  BY Zenon DEF Expire, envOnly, pollVars, Types, StepTypes
<1>4. Types'
  BY Zenon, <1>1, <1>2, <1>3 DEF Types
<1>5. CallersHold' /\ PollerHolds'
  BY ZenonT(60) DEF Expire, envOnly, callVars, pollVars, CallersHold, PollerHolds
<1>6. Disjoint'
  BY Zenon DEF Expire, envOnly, pollVars, Owned, Disjoint
<1>7. CallersApart'
  BY Zenon DEF Expire, envOnly, callVars, pollVars, Owned, CallersApart, InTables
<1>8. OpenIsHeld'
  BY Zenon DEF Expire, envOnly, kernelVars, callVars, pollVars, Owned, OpenIsHeld, InTables
<1>9. WatchesItsTables'
  BY Zenon DEF Expire, envOnly, kernelVars, pollVars, WatchesItsTables
<1>10. StopOK'
  BY Zenon DEF Expire, envOnly, pollVars, StopOK
<1> QED BY Zenon, <1>4, <1>5, <1>6, <1>7, <1>8, <1>9, <1>10 DEF Owned

TcpInv == Types /\ CallersHold /\ PollerHolds /\ Owned /\ WatchesItsTables /\ StopOK

\* At the start only the listeners are open.
LEMMA TcpInitInv == TcpInit => TcpInv
<1> SUFFICES ASSUME TcpInit PROVE TcpInv
  OBVIOUS
<1> USE TcpAssumption
<1>1. /\ listeners = ListenFds /\ connectors = {} /\ incoming = {} /\ outgoing = {} /\ user = {}
      /\ dead = {} /\ expired = {} /\ interest = ListenFds /\ sealed = {} /\ stop_ = FALSE
      /\ poller = "loop" /\ stopper = "running"
  BY Zenon DEF TcpInit
<1>2. /\ \A f \in Fds : socket[f] # "closed" <=> f \in ListenFds
      /\ socket \in [Fds -> SocketStates]
  BY Zenon DEF TcpInit, SocketStates
<1>3. /\ \A c \in Callers : caller[c] = "idle" /\ fdOf[c] = None
      /\ caller \in [Callers -> CallerStates] /\ fdOf \in [Callers -> Fds \cup {None}]
  BY Zenon DEF TcpInit, CallerStates
<1>4. Types
  BY Zenon, <1>1, <1>2, <1>3 DEF Types, CallTypes, TableTypes, StepTypes, PollerStates, StopSteps
<1>5. CallersHold /\ PollerHolds
  BY Zenon, <1>1, <1>3 DEF CallersHold, PollerHolds
<1>6. Owned
  BY Zenon, <1>1, <1>2, <1>3 DEF Owned, Disjoint, CallersApart, OpenIsHeld, InTables
<1>7. WatchesItsTables /\ StopOK
  BY Zenon, <1>1 DEF WatchesItsTables, StopOK
<1> QED BY Zenon, <1>4, <1>5, <1>6, <1>7 DEF TcpInv

\* No step of a caller, of the poller, of Stop(), of a user or of the network breaks it.
LEMMA TcpStepInv == TcpInv /\ [TcpNext]_tcpVars => TcpInv'
<1> SUFFICES ASSUME TcpInv, [TcpNext]_tcpVars PROVE TcpInv'
  BY SMTT(30)
<1> USE DEF TcpInv
<1>1. ASSUME NEW c \in Callers, ConnectStep(c) PROVE TcpInv'
  BY Zenon, <1>1, ConnectKeeps, CreateSocketKeeps, ConnectSocketKeeps, AddConnectedKeeps,
     AddConnectorKeeps,
     CloseRejectedKeeps DEF ConnectStep
<1>2. CASE PollerStep
  BY Zenon, <1>2, BlockingWaitKeeps, CheckStoppedKeeps, DispatchKeeps, AcceptKeeps, AddIncomingKeeps,
     FinishOutgoingKeeps, RemoveExpiredKeeps, UnregisterExpiredKeeps, CloseExpiredKeeps,
     CloseTablesKeeps DEF PollerStep
<1>3. CASE Environment
  BY Zenon, <1>3, ArriveKeeps, ResolveKeeps, ExpireKeeps DEF Environment
<1>4. CASE Stop \/ GetIncomingSockets \/ GetOutgoingSockets \/ \E f \in Fds : UserCloses(f)
  BY Zenon, <1>4, StopKeeps, GetIncomingSocketsKeeps, GetOutgoingSocketsKeeps, UserClosesKeeps
<1>5. CASE UNCHANGED tcpVars
  <2>1. UNCHANGED <<listeners, connectors, incoming, outgoing, expired, user, dead, socket, interest,
                    caller, fdOf, poller, event, stopper, sealed, stop_>>
    BY Zenon, <1>5 DEF tcpVars, tableVars, kernelVars, callVars, pollVars
  <2>2. Types' /\ CallersHold' /\ PollerHolds'
    BY ZenonT(60), <2>1 DEF Types, CallTypes, TableTypes, StepTypes, CallersHold, PollerHolds
  <2>3. Owned'
    BY Zenon, <2>1 DEF Owned, Disjoint, CallersApart, OpenIsHeld, InTables
  <2>4. WatchesItsTables' /\ StopOK'
    BY Zenon, <2>1 DEF WatchesItsTables, StopOK
  <2> QED BY Zenon, <2>2, <2>3, <2>4
<1> QED BY Zenon, <1>1, <1>2, <1>3, <1>4, <1>5 DEF TcpNext

(* The invariant that carries the theorems below holds always. *)
LEMMA TcpInvHolds == TcpSpec => []TcpInv
BY TcpInitInv, TcpStepInv, PTL DEF TcpSpec

(* epoll watches exactly the listeners, the connectors and what Start() is about
   to unregister, for any number of descriptors and of threads in Connect(). *)
THEOREM InterestIsTheTables == TcpSpec => []WatchesItsTables
<1>1. TcpInv => WatchesItsTables
  BY Zenon DEF TcpInv
<1> QED BY <1>1, TcpInvHolds, PTL

(* Every open socket of the TcpManager has exactly one owner and every closed one
   has none, although the system reuses descriptors: nothing leaks and nothing is
   closed twice. *)
THEOREM SocketsHaveOneOwner == TcpSpec => []OneOwner
<1>1. ASSUME TcpInv PROVE OneOwner
  <2> SUFFICES ASSUME NEW f \in Fds
               PROVE  IF socket[f] = "closed" THEN Holders(f) = {} ELSE \E h \in Holders(f) : Holders(f) = {h}
    BY Zenon DEF OneOwner
  <2> USE TcpAssumption
  <2>1. CASE socket[f] = "closed"
    <3>1. ~InTables(f) /\ \A c \in Callers : fdOf[c] # f
      BY Zenon, <1>1, <2>1 DEF TcpInv, Owned, OpenIsHeld
    <3>2. Holders(f) = {}
      BY Zenon, <3>1 DEF Holders, InTables
    <3> QED BY Zenon, <2>1, <3>2
  <2>2. CASE socket[f] # "closed"
    <3>1. ASSUME NEW c \in Callers, fdOf[c] = f PROVE Holders(f) = {c}
      <4>1. ~InTables(f) /\ \A d \in Callers \ {c} : fdOf[d] # f
        BY Zenon, <1>1, <3>1 DEF TcpInv, Owned, CallersApart
      <4> QED BY <3>1, <4>1 DEF Holders, InTables
    <3>2. ASSUME InTables(f)
          PROVE  \E h : Holders(f) = {h}
      <4>1. \A c \in Callers : fdOf[c] # f
        BY Zenon, <1>1, <3>2 DEF TcpInv, Owned, CallersApart
      <4>2. /\ f \in listeners => f \notin connectors \cup incoming \cup outgoing \cup user \cup dead
            /\ f \in connectors => f \notin incoming \cup outgoing \cup user \cup dead
            /\ f \in incoming => f \notin outgoing \cup user \cup dead
            /\ f \in outgoing => f \notin user \cup dead
            /\ f \in user => f \notin dead
        BY Zenon, <1>1 DEF TcpInv, Owned, Disjoint
      <4>3. CASE f \in listeners
        <5>1. Holders(f) = {"listeners"} BY Zenon, <4>1, <4>2, <4>3 DEF Holders
        <5> QED BY Zenon, <5>1
      <4>4. CASE f \in connectors
        <5>1. Holders(f) = {"connectors"} BY Zenon, <4>1, <4>2, <4>4 DEF Holders
        <5> QED BY Zenon, <5>1
      <4>5. CASE f \in incoming
        <5>1. Holders(f) = {"incoming"} BY Zenon, <4>1, <4>2, <4>5 DEF Holders
        <5> QED BY Zenon, <5>1
      <4>6. CASE f \in outgoing
        <5>1. Holders(f) = {"outgoing"} BY Zenon, <4>1, <4>2, <4>6 DEF Holders
        <5> QED BY Zenon, <5>1
      <4>7. CASE f \in user
        <5>1. Holders(f) = {"user"} BY Zenon, <4>1, <4>2, <4>7 DEF Holders
        <5> QED BY Zenon, <5>1
      <4>8. CASE f \in dead
        <5>1. Holders(f) = {"poller"} BY Zenon, <4>1, <4>2, <4>8 DEF Holders
        <5> QED BY Zenon, <5>1
      <4> QED BY Zenon, <3>2, <4>3, <4>4, <4>5, <4>6, <4>7, <4>8 DEF InTables
    <3>3. \E h : Holders(f) = {h}
      BY Zenon, <1>1, <2>2, <3>1, <3>2 DEF TcpInv, Owned, OpenIsHeld
    <3> QED BY Zenon, <2>2, <3>3
  <2> QED BY Zenon, <2>1, <2>2
<1> QED BY <1>1, TcpInvHolds, PTL

(* After Stop() nothing is produced any more, and after Start() returned no
   connector is left. *)
THEOREM NothingIsProducedAfterStop == TcpSpec => []NothingAfterStop
<1>1. TcpInv => NothingAfterStop
  BY Zenon DEF TcpInv, StopOK, NothingAfterStop
<1> QED BY <1>1, TcpInvHolds, PTL

(* When Stop() and Start() have returned and no thread is in Connect(), every
   socket that is still open was given to the user. *)
THEOREM StoppedManagerIsEmpty == TcpSpec => []StoppedIsEmpty
<1>1. ASSUME TcpInv PROVE StoppedIsEmpty
  <2> SUFFICES ASSUME stopper = "stopped", poller = "done", \A c \in Callers : caller[c] = "idle",
                      NEW f \in Fds, socket[f] # "closed"
               PROVE  f \in user
    BY Zenon DEF StoppedIsEmpty
  <2>1. \A c \in Callers : fdOf[c] \notin Fds
    BY Zenon, <1>1 DEF TcpInv, CallersHold
  <2>2. listeners = {} /\ connectors = {} /\ incoming = {} /\ outgoing = {} /\ dead = {}
    BY Zenon, <1>1 DEF TcpInv, StopOK, PollerHolds
  <2> QED BY Zenon, <1>1, <2>1, <2>2 DEF TcpInv, Owned, OpenIsHeld, InTables
<1> QED BY <1>1, TcpInvHolds, PTL

-----------------------------------------------------------------------------
\* Events: nobody closes the socket of an event between epoll_wait and its handling.

\* What a connector may be, to the kernel.
Pending == {"connecting", "ready", "failed", "hungup"}
\* What the sockets of the tables are to the kernel.
SocketsOK ==
    /\ \A f \in listeners : socket[f] \in {"listening", "shut"}
    /\ \A f \in connectors : socket[f] \in Pending
    /\ \A c \in Callers : caller[c] = "register" => socket[fdOf[c]] \in Pending
\* The batch has one event for each of its sockets, of the right kind, and none for the
\* socket that is being handled; outside the loop it is empty.
BatchOK ==
    /\ \A e \in batch : /\ e.fd \in listeners \/ e.fd \in connectors
                        /\ e.flag = "IN" <=> e.fd \in listeners /\ e.flag # "HUP"
    /\ \A e, g \in batch : e.fd = g.fd => e = g
    /\ poller \in {"accept", "produce", "outgoing"} => \A e \in batch : e.fd # event.fd
    /\ poller \notin {"check", "dispatch", "accept", "produce", "outgoing"} => batch = {}

\* A caller that enters Connect() touches no socket of the batch.
LEMMA ConnectEvents ==
    ASSUME TcpInv, SocketsOK, BatchOK, ~unhandled,
           NEW c \in Callers, Connect(c)
    PROVE  SocketsOK' /\ BatchOK' /\ ~unhandled'
<1> USE TcpAssumption
<1>1. SocketsOK'
  <2>1. /\ UNCHANGED <<listeners, connectors, socket, fdOf>>
        /\ \A d \in Callers : caller'[d] = "register" => caller[d] = "register"
    BY Zenon DEF Connect, CallerGoes, callVars, tableVars, kernelVars, TcpInv, Types, CallTypes
  <2> QED BY Zenon, <2>1 DEF SocketsOK
<1>2. BatchOK'
  BY Zenon DEF Connect, callerOnly, tableVars, pollVars, BatchOK
<1>3. ~unhandled'
  BY Zenon DEF Connect, callerOnly, kernelVars, tableVars, callVars, pollVars, CallerGoes, BatchOK
<1> QED BY Zenon, <1>1, <1>2, <1>3

\* The new descriptor was closed, so no event of the batch is for it.
LEMMA CreateSocketEvents ==
    ASSUME TcpInv, SocketsOK, BatchOK, ~unhandled,
           NEW c \in Callers, CreateSocket(c)
    PROVE  SocketsOK' /\ BatchOK' /\ ~unhandled'
<1> USE TcpAssumption
<1>1. SocketsOK'
  <2>1. UNCHANGED <<listeners, connectors>> /\ listeners \subseteq Fds /\ connectors \subseteq Fds
    BY Zenon DEF CreateSocket, tableVars, TcpInv, Types, TableTypes
  <2>2. \A d \in Callers : caller'[d] = "register" => caller[d] = "register" /\ fdOf'[d] = fdOf[d]
    BY Zenon DEF CreateSocket, CallerReturns, TcpInv, Types, CallTypes
  <2>3. \A d \in Callers : caller[d] = "register" => fdOf[d] \in Fds
    BY Zenon DEF TcpInv, CallersHold
  <2>4. \A f \in Fds : socket[f] # "closed" => socket'[f] = socket[f]
    BY Zenon DEF CreateSocket, Becomes, kernelVars, TcpInv, Types, CallTypes
  <2>5. "closed" \notin Pending
    BY Zenon DEF Pending
  <2> QED BY <2>1, <2>2, <2>3, <2>4, <2>5 DEF SocketsOK
<1>2. BatchOK'
  BY Zenon DEF CreateSocket, callerOnly, tableVars, pollVars, BatchOK
<1>3. ~unhandled'
  BY Zenon DEF CreateSocket, callerOnly
<1> QED BY Zenon, <1>1, <1>2, <1>3

\* The socket is its caller's, so no event of the batch is for it.
LEMMA ConnectSocketEvents ==
    ASSUME TcpInv, SocketsOK, BatchOK, ~unhandled,
           NEW c \in Callers, ConnectSocket(c)
    PROVE  SocketsOK' /\ BatchOK' /\ ~unhandled'
<1> USE TcpAssumption
<1>1. SocketsOK'
  <2>1. PICK next \in {"produce", "register", "close"} :
          /\ CallerGoes(c, next)
          /\ Becomes(fdOf[c], CASE next = "produce" -> "connected"
                                [] next = "register" -> "connecting"
                                [] OTHER -> "failed")
    BY Zenon DEF ConnectSocket
  <2>2. /\ fdOf[c] \in Fds /\ ~InTables(fdOf[c]) /\ \A d \in Callers \ {c} : fdOf[d] # fdOf[c]
        /\ \A d \in Callers : caller[d] = "register" => fdOf[d] \in Fds
    BY Zenon DEF ConnectSocket, TcpInv, CallersHold, Owned, CallersApart
  <2>3. /\ UNCHANGED <<listeners, connectors, fdOf>>
        /\ caller'[c] = next /\ \A d \in Callers \ {c} : caller'[d] = caller[d]
    BY Zenon, <2>1 DEF ConnectSocket, CallerGoes, tableVars, TcpInv, Types, CallTypes
  <2>4. \A f \in Fds \ {fdOf[c]} : socket'[f] = socket[f]
    BY Zenon, <2>1, <2>2 DEF Becomes, TcpInv, Types, CallTypes
  <2>5. next = "register" => socket'[fdOf[c]] = "connecting"
    BY Zenon, <2>1, <2>2 DEF Becomes, TcpInv, Types, CallTypes
  <2>6. listeners \subseteq Fds \ {fdOf[c]} /\ connectors \subseteq Fds \ {fdOf[c]}
    BY Zenon, <2>2 DEF InTables, TcpInv, Types, TableTypes
  <2>7. \A d \in Callers : caller'[d] = "register" => socket'[fdOf'[d]] \in Pending
    <3> SUFFICES ASSUME NEW d \in Callers, caller'[d] = "register" PROVE socket'[fdOf[d]] \in Pending
      BY Zenon, <2>3
    <3>1. CASE d = c
      BY Zenon, <2>3, <2>5, <3>1 DEF Pending
    <3>2. CASE d # c
      BY ZenonT(60), <2>2, <2>3, <2>4, <3>2 DEF SocketsOK
    <3> QED BY Zenon, <3>1, <3>2
  <2> QED BY Zenon, <2>3, <2>4, <2>6, <2>7 DEF SocketsOK
<1>2. BatchOK'
  BY Zenon DEF ConnectSocket, callerOnly, tableVars, pollVars, BatchOK
<1>3. ~unhandled'
  BY Zenon DEF ConnectSocket, callerOnly
<1> QED BY Zenon, <1>1, <1>2, <1>3

\* The socket was its caller's and becomes one nobody polls.
LEMMA AddConnectedEvents ==
    ASSUME TcpInv, SocketsOK, BatchOK, ~unhandled,
           NEW c \in Callers, AddConnected(c)
    PROVE  SocketsOK' /\ BatchOK' /\ ~unhandled'
<1> USE TcpAssumption
<1>1. SocketsOK'
  <2>1. /\ UNCHANGED <<listeners, socket>>
        /\ \A d \in Callers : caller'[d] = "register" => caller[d] = "register" /\ fdOf'[d] = fdOf[d]
    BY Zenon DEF AddConnected, CallerGoes, CallerReturns, kernelVars, TcpInv, Types, CallTypes
  <2>2. connectors' = connectors
    BY Zenon DEF AddConnected, SocketsOK
  <2> QED BY Zenon, <2>1, <2>2 DEF SocketsOK
<1>2. BatchOK'
  BY Zenon DEF AddConnected, callerOnly, pollVars, BatchOK
<1>3. ~unhandled'
  BY Zenon DEF AddConnected, callerOnly
<1> QED BY Zenon, <1>1, <1>2, <1>3

\* A new connector has had no event yet.
LEMMA AddConnectorEvents ==
    ASSUME TcpInv, SocketsOK, BatchOK, ~unhandled,
           NEW c \in Callers, AddConnector(c)
    PROVE  SocketsOK' /\ BatchOK' /\ ~unhandled'
<1> USE TcpAssumption
<1>1. SocketsOK'
  <2>1. /\ UNCHANGED <<listeners, socket>>
        /\ \A d \in Callers : caller'[d] = "register" => caller[d] = "register" /\ fdOf'[d] = fdOf[d]
    BY Zenon DEF AddConnector, CallerGoes, CallerReturns, kernelVars, TcpInv, Types, CallTypes
  <2>2. \A f \in connectors' : socket[f] \in Pending
    BY Zenon DEF AddConnector, SocketsOK
  <2> QED BY Zenon, <2>1, <2>2 DEF SocketsOK
<1>2. BatchOK'
  BY Zenon DEF AddConnector, callerOnly, pollVars, BatchOK
<1>3. ~unhandled'
  BY Zenon DEF AddConnector, callerOnly
<1> QED BY Zenon, <1>1, <1>2, <1>3

\* The socket that is closed is in no table, so no event of the batch is for it.
LEMMA CloseRejectedEvents ==
    ASSUME TcpInv, SocketsOK, BatchOK, ~unhandled,
           NEW c \in Callers, CloseRejected(c)
    PROVE  SocketsOK' /\ BatchOK' /\ ~unhandled'
<1> USE TcpAssumption
<1>1. SocketsOK'
  <2>1. UNCHANGED <<listeners, connectors>> /\ listeners \subseteq Fds /\ connectors \subseteq Fds
    BY Zenon DEF CloseRejected, tableVars, TcpInv, Types, TableTypes
  <2>2. \A d \in Callers : caller'[d] = "register" => d # c /\ caller[d] = "register" /\ fdOf'[d] = fdOf[d]
    BY Zenon DEF CloseRejected, CallerReturns, TcpInv, Types, CallTypes
  <2>3. \A f \in Fds \ {fdOf[c]} : socket'[f] = socket[f]
    BY Zenon DEF CloseRejected, Close
  <2>4. /\ fdOf[c] \notin listeners /\ fdOf[c] \notin connectors
        /\ \A d \in Callers \ {c} : fdOf[d] # fdOf[c]
        /\ \A d \in Callers : caller[d] = "register" => fdOf[d] \in Fds
    BY Zenon DEF CloseRejected, TcpInv, CallersHold, Owned, CallersApart, InTables
  <2> QED BY <2>1, <2>2, <2>3, <2>4 DEF SocketsOK
<1>2. BatchOK'
  BY Zenon DEF CloseRejected, callerOnly, tableVars, pollVars, BatchOK
<1>3. ~unhandled'
  BY Zenon DEF CloseRejected, callerOnly
<1> QED BY Zenon, <1>1, <1>2, <1>3

\* The events of a new batch are for sockets in the interest set, which are those of the
\* tables.
LEMMA BlockingWaitEvents ==
    ASSUME TcpInv, SocketsOK, BatchOK, ~unhandled,
           BlockingWait
    PROVE  SocketsOK' /\ BatchOK' /\ ~unhandled'
<1> USE TcpAssumption
<1>1. SocketsOK'
  BY Zenon DEF BlockingWait, pollerOnly, tableVars, kernelVars, callVars, SocketsOK
<1>2. BatchOK'
  <2>1. UNCHANGED <<listeners, connectors>> /\ batch = {} /\ interest = listeners \cup connectors
    BY Zenon DEF BlockingWait, tableVars, BatchOK, TcpInv, WatchesItsTables
  <2>2. CASE stop_
    BY Zenon, <2>1, <2>2 DEF BlockingWait, PollerGoes, BatchOK
  <2>3. CASE ~stop_
    <3>1. /\ poller' = "check"
          /\ batch' = {[fd |-> f, flag |-> EventFlag(f)] :
                          f \in {f \in interest : EventFlag(f) # "none"}}
      BY Zenon, <2>3 DEF BlockingWait
    <3>2. ASSUME NEW e \in batch'
          PROVE  /\ e.fd \in listeners \/ e.fd \in connectors
                 /\ e.flag = EventFlag(e.fd) /\ e.flag # "none"
                 /\ e = [fd |-> e.fd, flag |-> EventFlag(e.fd)]
      BY <2>1, <3>1
    <3>3. \A f \in listeners : EventFlag(f) # "none" => EventFlag(f) \in {"IN", "HUP"}
      BY Zenon DEF EventFlag, SocketsOK
    <3>4. \A f \in connectors : EventFlag(f) # "IN"
      BY Zenon DEF EventFlag, SocketsOK, Pending
    <3>5. \A f \in connectors : f \notin listeners
      BY Zenon DEF TcpInv, Types, TableTypes, Owned, Disjoint
    <3>6. \A e \in batch' : /\ e.fd \in listeners' \/ e.fd \in connectors'
                            /\ e.flag = "IN" <=> e.fd \in listeners' /\ e.flag # "HUP"
      BY Zenon, <2>1, <3>2, <3>3, <3>4, <3>5
    <3>7. \A e, g \in batch' : e.fd = g.fd => e = g
      <4> SUFFICES ASSUME NEW e \in batch', NEW g \in batch', e.fd = g.fd PROVE e = g
        OBVIOUS
      <4> QED BY Zenon, <3>2
    <3> QED BY Zenon, <3>1, <3>6, <3>7 DEF BatchOK
  <2> QED BY Zenon, <2>2, <2>3
<1>3. ~unhandled'
  BY Zenon DEF BlockingWait
<1> QED BY Zenon, <1>1, <1>2, <1>3

\* When the manager stops the rest of the batch is dropped.
LEMMA CheckStoppedEvents ==
    ASSUME TcpInv, SocketsOK, BatchOK, ~unhandled,
           CheckStopped
    PROVE  SocketsOK' /\ BatchOK' /\ ~unhandled'
<1> USE TcpAssumption
<1>1. SocketsOK'
  BY Zenon DEF CheckStopped, pollerOnly, tableVars, kernelVars, callVars, SocketsOK
<1>2. BatchOK'
  BY Zenon DEF CheckStopped, PollerGoes, tableVars, BatchOK
<1>3. ~unhandled'
  BY ZenonT(60) DEF CheckStopped
<1> QED BY Zenon, <1>1, <1>2, <1>3

\* An event is removed from the batch when it is handled; it is the only one for its
\* socket.
LEMMA DispatchEvents ==
    ASSUME TcpInv, SocketsOK, BatchOK, ~unhandled,
           Dispatch
    PROVE  SocketsOK' /\ BatchOK' /\ ~unhandled'
<1> USE TcpAssumption
<1>1. SocketsOK'
  BY DEF Dispatch, RemoveListener, Close, pollerOnly, tableVars, kernelVars, callVars, TcpInv,
     Types, TableTypes, CallersHold, SocketsOK, Pending
<1>2. BatchOK'
  <2>1. PICK e \in batch :
           /\ batch' = batch \ {e}
           /\ IF e.fd \in listeners
              THEN IF e.flag = "IN"
                   THEN /\ poller' = "accept" /\ event' = e
                        /\ UNCHANGED <<dead, tableVars, kernelVars, unhandled>>
                   ELSE RemoveListener(e.fd) /\ UNCHANGED <<poller, event, dead, unhandled>>
              ELSE IF e.fd \in connectors
              THEN /\ connectors' = connectors \ {e.fd} /\ expired' = expired \ {e.fd}
                   /\ poller' = "outgoing" /\ event' = e /\ dead' = {e.fd}
                   /\ UNCHANGED <<listeners, incoming, outgoing, kernelVars, unhandled>>
              ELSE unhandled' = TRUE /\ UNCHANGED <<poller, event, dead, tableVars, kernelVars>>
    BY Zenon DEF Dispatch
  <2>2. \A g \in batch' : g \in batch /\ g.fd # e.fd
    BY Zenon, <2>1 DEF BatchOK
  <2>3. /\ \A f : f # e.fd => (f \in listeners' <=> f \in listeners) /\ (f \in connectors' <=> f \in connectors)
        /\ \/ poller' = "accept" /\ event' = e
           \/ poller' = "outgoing" /\ event' = e
           \/ poller' = "dispatch"
    BY Zenon, <2>1 DEF Dispatch, RemoveListener, tableVars
  <2>4. \A g \in batch' : /\ g.fd \in listeners' \/ g.fd \in connectors'
                          /\ g.flag = "IN" <=> g.fd \in listeners' /\ g.flag # "HUP"
    BY Zenon, <2>2, <2>3 DEF BatchOK
  <2>5. \A g, h \in batch' : g.fd = h.fd => g = h
    BY Zenon, <2>2 DEF BatchOK
  <2> QED BY Zenon, <2>2, <2>3, <2>4, <2>5 DEF BatchOK
<1>3. ~unhandled'
  BY ZenonT(60) DEF Dispatch, BatchOK
<1> QED BY Zenon, <1>1, <1>2, <1>3

\* An accepted socket has a descriptor nobody had, and removing the listener touches no
\* other socket.
LEMMA AcceptEvents ==
    ASSUME TcpInv, SocketsOK, BatchOK, ~unhandled,
           Accept
    PROVE  SocketsOK' /\ BatchOK' /\ ~unhandled'
<1> USE TcpAssumption
<1>1. SocketsOK'
  BY DEF Accept, RemoveListener, Close, pollerOnly, tableVars, kernelVars, callVars, TcpInv,
     Types, CallTypes, TableTypes, CallersHold, SocketsOK, Pending
<1>2. BatchOK'
  BY Zenon DEF Accept, NextEvent, RemoveListener, tableVars, BatchOK
<1>3. ~unhandled'
  BY ZenonT(60) DEF Accept
<1> QED BY Zenon, <1>1, <1>2, <1>3

\* Sockets that are produced have no events.
LEMMA AddIncomingEvents ==
    ASSUME TcpInv, SocketsOK, BatchOK, ~unhandled,
           AddIncoming
    PROVE  SocketsOK' /\ BatchOK' /\ ~unhandled'
<1> USE TcpAssumption
<1>1. SocketsOK'
  BY DEF AddIncoming, Close, pollerOnly, tableVars, kernelVars, callVars, TcpInv, Types,
     TableTypes, CallersHold, Owned, Disjoint, CallersApart, InTables, SocketsOK
<1>2. BatchOK'
  <2>1. UNCHANGED <<listeners, connectors, batch>>
    BY Zenon DEF AddIncoming, NextEvent, tableVars
  <2>2. CASE "incoming" \in sealed
    <3>1. poller' = "dispatch"
      BY Zenon, <2>2 DEF AddIncoming, NextEvent
    <3> QED BY Zenon, <2>1, <3>1 DEF BatchOK
  <2>3. CASE "incoming" \notin sealed
    <3>1. poller = "produce" /\ poller' = "accept" /\ event' = event
      BY Zenon, <2>3 DEF AddIncoming
    <3> QED BY Zenon, <2>1, <3>1 DEF BatchOK
  <2> QED BY Zenon, <2>2, <2>3
<1>3. ~unhandled'
  BY ZenonT(60) DEF AddIncoming
<1> QED BY Zenon, <1>1, <1>2, <1>3

\* The connector's only event has been handled.
LEMMA FinishOutgoingEvents ==
    ASSUME TcpInv, SocketsOK, BatchOK, ~unhandled,
           FinishOutgoing
    PROVE  SocketsOK' /\ BatchOK' /\ ~unhandled'
<1> USE TcpAssumption
<1>1. SocketsOK'
  BY DEF FinishOutgoing, Close, pollerOnly, tableVars, callVars, TcpInv, Types, CallTypes,
     TableTypes, CallersHold, PollerHolds, Owned, Disjoint, CallersApart, InTables, SocketsOK,
     Pending
<1>2. BatchOK'
  BY Zenon DEF FinishOutgoing, NextEvent, tableVars, BatchOK
<1>3. ~unhandled'
  BY Zenon DEF FinishOutgoing
<1> QED BY Zenon, <1>1, <1>2, <1>3

\* Connectors are removed for their age only when the batch is empty.
LEMMA RemoveExpiredEvents ==
    ASSUME TcpInv, SocketsOK, BatchOK, ~unhandled,
           RemoveExpired
    PROVE  SocketsOK' /\ BatchOK' /\ ~unhandled'
<1> USE TcpAssumption
<1>1. SocketsOK'
  BY Zenon DEF RemoveExpired, pollerOnly, kernelVars, callVars, SocketsOK
<1>2. BatchOK'
  BY Zenon DEF RemoveExpired, BatchOK
<1>3. ~unhandled'
  BY Zenon DEF RemoveExpired
<1> QED BY Zenon, <1>1, <1>2, <1>3

\* The batch is empty.
LEMMA UnregisterExpiredEvents ==
    ASSUME TcpInv, SocketsOK, BatchOK, ~unhandled,
           UnregisterExpired
    PROVE  SocketsOK' /\ BatchOK' /\ ~unhandled'
<1> USE TcpAssumption
<1>1. SocketsOK'
  BY Zenon DEF UnregisterExpired, pollerOnly, tableVars, callVars, SocketsOK
<1>2. BatchOK'
  BY Zenon DEF UnregisterExpired, PollerGoes, BatchOK
<1>3. ~unhandled'
  BY Zenon DEF UnregisterExpired
<1> QED BY Zenon, <1>1, <1>2, <1>3

\* The batch is empty.
LEMMA CloseExpiredEvents ==
    ASSUME TcpInv, SocketsOK, BatchOK, ~unhandled,
           CloseExpired
    PROVE  SocketsOK' /\ BatchOK' /\ ~unhandled'
<1> USE TcpAssumption
<1>1. SocketsOK'
  BY Zenon DEF CloseExpired, Close, pollerOnly, tableVars, callVars, TcpInv, Types, TableTypes,
     CallersHold, Owned, Disjoint, CallersApart, InTables, SocketsOK
<1>2. BatchOK'
  BY Zenon DEF CloseExpired, BatchOK
<1>3. ~unhandled'
  BY ZenonT(60) DEF CloseExpired
<1> QED BY Zenon, <1>1, <1>2, <1>3

\* The batch is empty, and so are the tables in the end.
LEMMA CloseTablesEvents ==
    ASSUME TcpInv, SocketsOK, BatchOK, ~unhandled,
           CloseTables
    PROVE  SocketsOK' /\ BatchOK' /\ ~unhandled'
<1> USE TcpAssumption
<1>1. SocketsOK'
  BY DEF CloseTables, Close, pollerOnly, callVars, TcpInv, Types, TableTypes, CallersHold,
     Owned, Disjoint, CallersApart, InTables, SocketsOK, Pending
<1>2. BatchOK'
  BY Zenon DEF CloseTables, PollerGoes, pollVars, BatchOK
<1>3. ~unhandled'
  BY Zenon DEF CloseTables
<1> QED BY Zenon, <1>1, <1>2, <1>3

\* Stop() shuts listeners down without closing them, and closes sockets nobody polls.
LEMMA StopEvents ==
    ASSUME TcpInv, SocketsOK, BatchOK, ~unhandled,
           Stop
    PROVE  SocketsOK' /\ BatchOK' /\ ~unhandled'
<1> USE TcpAssumption
<1>1. SocketsOK'
  <2>1. UNCHANGED <<listeners, connectors, caller, fdOf>>
    BY Zenon DEF Stop, Seal, SetStop, ShutdownListeners, CloseIncoming, CloseOutgoing, stopOnly,
       callVars, tableVars
  <2>2. CASE socket' = socket
    BY Zenon, <2>1, <2>2 DEF SocketsOK
  <2>3. /\ listeners \subseteq Fds /\ connectors \subseteq Fds
        /\ \A c \in Callers : caller[c] = "register" => fdOf[c] \in Fds /\ ~InTables(fdOf[c])
    BY Zenon DEF TcpInv, Types, TableTypes, CallersHold, Owned, CallersApart
  <2>4. \A f \in connectors : f \notin listeners /\ f \notin incoming /\ f \notin outgoing
    BY Zenon, <2>3 DEF TcpInv, Owned, Disjoint
  <2>5. \A f \in listeners : f \notin incoming /\ f \notin outgoing
    BY Zenon, <2>3 DEF TcpInv, Owned, Disjoint
  <2>6. CASE ShutdownListeners
    <3>1. \A f \in Fds : socket'[f] = IF f \in listeners THEN "shut" ELSE socket[f]
      BY Zenon, <2>6 DEF ShutdownListeners
    <3> QED BY Zenon, <2>1, <2>3, <2>4, <3>1 DEF SocketsOK, InTables
  <2>7. CASE CloseIncoming \/ CloseOutgoing
    <3>1. \A f \in Fds : f \notin incoming /\ f \notin outgoing => socket'[f] = socket[f]
      BY Zenon, <2>7 DEF CloseIncoming, CloseOutgoing, Close
    <3> QED BY Zenon, <2>1, <2>3, <2>4, <2>5, <3>1 DEF SocketsOK, InTables
  <2> QED BY Zenon, <2>2, <2>6, <2>7 DEF Stop, Seal, SetStop, kernelVars
<1>2. BatchOK'
  BY Zenon DEF Stop, Seal, SetStop, ShutdownListeners, CloseIncoming, CloseOutgoing, stopOnly,
     tableVars, pollVars, BatchOK
<1>3. ~unhandled'
  BY ZenonT(60) DEF Stop, Seal, SetStop, ShutdownListeners, CloseIncoming, CloseOutgoing, stopOnly
<1> QED BY Zenon, <1>1, <1>2, <1>3

\* Produced sockets have no events.
LEMMA GetIncomingSocketsEvents ==
    ASSUME TcpInv, SocketsOK, BatchOK, ~unhandled,
           GetIncomingSockets
    PROVE  SocketsOK' /\ BatchOK' /\ ~unhandled'
<1> USE TcpAssumption
<1>1. SocketsOK'
  BY SMTT(30) DEF GetIncomingSockets, envOnly, kernelVars, callVars, SocketsOK
<1>2. BatchOK'
  BY Zenon DEF GetIncomingSockets, envOnly, pollVars, BatchOK
<1>3. ~unhandled'
  BY Zenon DEF GetIncomingSockets, envOnly
<1> QED BY Zenon, <1>1, <1>2, <1>3

\* Produced sockets have no events.
LEMMA GetOutgoingSocketsEvents ==
    ASSUME TcpInv, SocketsOK, BatchOK, ~unhandled,
           GetOutgoingSockets
    PROVE  SocketsOK' /\ BatchOK' /\ ~unhandled'
<1> USE TcpAssumption
<1>1. SocketsOK'
  BY Zenon DEF GetOutgoingSockets, envOnly, kernelVars, callVars, SocketsOK
<1>2. BatchOK'
  BY Zenon DEF GetOutgoingSockets, envOnly, pollVars, BatchOK
<1>3. ~unhandled'
  BY Zenon DEF GetOutgoingSockets, envOnly
<1> QED BY Zenon, <1>1, <1>2, <1>3

\* No event is for a socket of the user.
LEMMA UserClosesEvents ==
    ASSUME TcpInv, SocketsOK, BatchOK, ~unhandled,
           NEW f \in Fds, UserCloses(f)
    PROVE  SocketsOK' /\ BatchOK' /\ ~unhandled'
<1> USE TcpAssumption
<1>1. SocketsOK'
  <2>1. UNCHANGED <<listeners, connectors, caller, fdOf>> /\ \A g \in Fds \ {f} : socket'[g] = socket[g]
    BY Zenon DEF UserCloses, Close, envOnly, callVars, tableVars
  <2>2. /\ listeners \subseteq Fds /\ connectors \subseteq Fds
        /\ \A c \in Callers : caller[c] = "register" => fdOf[c] \in Fds
    BY Zenon DEF TcpInv, Types, TableTypes, CallersHold
  <2>3. f \notin listeners /\ f \notin connectors /\ \A c \in Callers : fdOf[c] # f
    BY Zenon DEF UserCloses, TcpInv, Owned, Disjoint, CallersApart, InTables
  <2> QED BY Zenon, <2>1, <2>2, <2>3 DEF SocketsOK
<1>2. BatchOK'
  BY Zenon DEF UserCloses, envOnly, tableVars, pollVars, BatchOK
<1>3. ~unhandled'
  BY Zenon DEF UserCloses, envOnly
<1> QED BY Zenon, <1>1, <1>2, <1>3

\* A backlog changes no socket's kind.
LEMMA ArriveEvents ==
    ASSUME TcpInv, SocketsOK, BatchOK, ~unhandled,
           NEW f \in ListenFds, Arrive(f)
    PROVE  SocketsOK' /\ BatchOK' /\ ~unhandled'
<1> USE TcpAssumption
<1>1. SocketsOK'
  BY Zenon DEF Arrive, envOnly, tableVars, callVars, SocketsOK
<1>2. BatchOK'
  BY Zenon DEF Arrive, envOnly, tableVars, pollVars, BatchOK
<1>3. ~unhandled'
  BY Zenon DEF Arrive, envOnly
<1> QED BY Zenon, <1>1, <1>2, <1>3

\* A connector that gets its answer is still a connector.
LEMMA ResolveEvents ==
    ASSUME TcpInv, SocketsOK, BatchOK, ~unhandled,
           NEW f \in Fds, Resolve(f)
    PROVE  SocketsOK' /\ BatchOK' /\ ~unhandled'
<1> USE TcpAssumption
<1>1. SocketsOK'
  <2>1. PICK end \in {"ready", "failed", "hungup"} : socket' = [socket EXCEPT ![f] = end]
    BY Zenon DEF Resolve, Becomes
  <2>2. UNCHANGED <<listeners, connectors, caller, fdOf>> /\ socket[f] = "connecting"
    BY Zenon DEF Resolve, envOnly, callVars, tableVars
  <2>3. /\ listeners \subseteq Fds /\ connectors \subseteq Fds
        /\ \A c \in Callers : caller[c] = "register" => fdOf[c] \in Fds
    BY Zenon DEF TcpInv, Types, TableTypes, CallersHold
  <2>4. /\ \A g \in Fds \ {f} : socket'[g] = socket[g]
        /\ socket'[f] \in Pending
    BY Zenon, <2>1 DEF TcpInv, Types, CallTypes, Pending
  <2> QED BY Zenon, <2>2, <2>3, <2>4 DEF SocketsOK
<1>2. BatchOK'
  BY Zenon DEF Resolve, envOnly, tableVars, pollVars, BatchOK
<1>3. ~unhandled'
  BY Zenon DEF Resolve, envOnly
<1> QED BY Zenon, <1>1, <1>2, <1>3

\* An expired connector is still in its table.
LEMMA ExpireEvents ==
    ASSUME TcpInv, SocketsOK, BatchOK, ~unhandled,
           NEW f \in Fds, Expire(f)
    PROVE  SocketsOK' /\ BatchOK' /\ ~unhandled'
<1> USE TcpAssumption
<1>1. SocketsOK'
  BY Zenon DEF Expire, envOnly, kernelVars, callVars, SocketsOK
<1>2. BatchOK'
  BY Zenon DEF Expire, envOnly, pollVars, BatchOK
<1>3. ~unhandled'
  BY Zenon DEF Expire, envOnly
<1> QED BY Zenon, <1>1, <1>2, <1>3

\* The inductive invariant.
EventsInv == TcpInv /\ SocketsOK /\ BatchOK /\ ~unhandled

\* At the start there is no event.
LEMMA EventsInit == TcpInit => SocketsOK /\ BatchOK /\ ~unhandled
<1> SUFFICES ASSUME TcpInit PROVE SocketsOK /\ BatchOK /\ ~unhandled
  OBVIOUS
<1>1. SocketsOK
  <2>1. connectors = {} /\ listeners = ListenFds /\ \A c \in Callers : caller[c] # "register"
    BY Zenon DEF TcpInit
  <2>2. \A f \in ListenFds : socket[f] = "listening"
    BY Zenon, TcpAssumption DEF TcpInit
  <2> QED BY Zenon, <2>1, <2>2 DEF SocketsOK
<1>2. BatchOK /\ ~unhandled
  BY Zenon DEF TcpInit, BatchOK
<1> QED BY Zenon, <1>1, <1>2

\* Nobody takes a descriptor away from an event that waits in the batch.
LEMMA EventsStep == EventsInv /\ [TcpNext]_tcpVars => EventsInv'
<1> SUFFICES ASSUME EventsInv, [TcpNext]_tcpVars PROVE SocketsOK' /\ BatchOK' /\ ~unhandled'
  BY Zenon, TcpStepInv DEF EventsInv
<1> USE DEF EventsInv
<1>1. ASSUME NEW c \in Callers, ConnectStep(c) PROVE SocketsOK' /\ BatchOK' /\ ~unhandled'
  BY Zenon, <1>1, ConnectEvents, CreateSocketEvents, ConnectSocketEvents, AddConnectedEvents,
     AddConnectorEvents,
     CloseRejectedEvents DEF ConnectStep
<1>2. CASE PollerStep
  BY Zenon, <1>2, BlockingWaitEvents, CheckStoppedEvents, DispatchEvents, AcceptEvents,
     AddIncomingEvents,
     FinishOutgoingEvents, RemoveExpiredEvents, UnregisterExpiredEvents, CloseExpiredEvents,
     CloseTablesEvents DEF PollerStep
<1>3. CASE Environment
  BY Zenon, <1>3, ArriveEvents, ResolveEvents, ExpireEvents DEF Environment
<1>4. CASE Stop \/ GetIncomingSockets \/ GetOutgoingSockets \/ \E f \in Fds : UserCloses(f)
  BY Zenon, <1>4, StopEvents, GetIncomingSocketsEvents, GetOutgoingSocketsEvents, UserClosesEvents
<1>5. CASE UNCHANGED tcpVars
  <2>1. UNCHANGED <<listeners, connectors, socket, caller, fdOf, poller, batch, event, unhandled>>
    BY Zenon, <1>5 DEF tcpVars, tableVars, kernelVars, callVars, pollVars
  <2>2. SocketsOK'
    BY Zenon, <2>1 DEF SocketsOK
  <2>3. BatchOK' /\ ~unhandled'
    BY Zenon, <2>1 DEF BatchOK
  <2> QED BY Zenon, <2>2, <2>3
<1> QED BY Zenon, <1>1, <1>2, <1>3, <1>4, <1>5 DEF TcpNext

(* Start() never reaches its DCHECK(false): an event that epoll reported is still
   that of the socket it was reported for when the loop comes to it, although
   threads close sockets and the system reuses their descriptors meanwhile. *)
THEOREM EventsAreNeverStale == TcpSpec => []EveryEventIsHandled
<1>1. TcpInit => EventsInv
  BY Zenon, TcpInitInv, EventsInit DEF EventsInv
<1>2. EventsInv => EveryEventIsHandled
  BY Zenon DEF EventsInv, BatchOK, EveryEventIsHandled
<1> QED BY <1>1, <1>2, EventsStep, PTL DEF TcpSpec

-----------------------------------------------------------------------------
\* The engine: its threads and workers use the manager, and its destructor ends them.

\* The descriptors of connections that are established: produced, about to be, or in use.
Produced(f) ==
    \/ f \in incoming \/ f \in outgoing \/ f \in user
    \/ poller = "produce" /\ f \in dead
    \/ \E c \in Callers : caller[c] = "produce" /\ fdOf[c] = f
Connected == \A f \in Fds : Produced(f) => socket[f] = "connected"

LifeTypes ==
    /\ life \in {"alive", "threads", "recv workers", "send workers", "helper", "destroyed"}
    /\ main \in [at : {"idle", "dial", "dialing", "exited"}, attempts : Nat, channels : SUBSET Fds]
    /\ acceptor \in {"check", "take", "exited"}
    /\ loops \in [Fds -> SUBSET {"send", "recv"}]

\* The users of the manager's sockets are the workers and the main thread while it dials.
UsersOK ==
    /\ user = sendWorkers \cup recvWorkers \cup main.channels
    /\ main.at \in {"idle", "exited"} => main.channels = {}
    /\ \A f \in Fds : loops[f] # {} => f \in Workers

\* Only the main thread calls Connect, blocking, and only while it dials.
DialsOK ==
    /\ \A c \in Callers \ {Main} : caller[c] = "idle"
    /\ caller[Main] # "register" /\ (main.at # "dialing" => caller[Main] = "idle")

\* How far the destructor has come: what has ended and what is empty for good.
LifeOK ==
    /\ life \notin {"alive", "threads"} => main.at = "exited" /\ acceptor = "exited"
    /\ life \in {"send workers", "helper", "destroyed"} => recvWorkers = {}
    /\ life \in {"helper", "destroyed"} => sendWorkers = {}
    /\ dying # None => life \notin {"alive", "threads"}
    /\ life = "destroyed" => stopper = "stopped" /\ poller = "done"

EngineOK == LifeTypes /\ UsersOK /\ DialsOK /\ LifeOK
LifeInv == TcpInv /\ Connected /\ EngineOK

\* Of the steps of Connect() only a successful connect produces a socket.
LEMMA DialConnected ==
    ASSUME TcpInv, Connected, NEW c \in Callers,
           Connect(c) \/ CreateSocket(c) \/ ConnectSocket(c) \/ AddConnected(c) \/ CloseRejected(c)
    PROVE  Connected'
<1> USE TcpAssumption
<1>1. /\ caller \in [Callers -> CallerStates] /\ fdOf \in [Callers -> Fds \cup {None}]
      /\ socket \in [Fds -> SocketStates]
  BY Zenon DEF TcpInv, Types, CallTypes
<1>2. UNCHANGED <<user, incoming, poller, dead>>
  BY Zenon DEF Connect, CreateSocket, ConnectSocket, AddConnected, CloseRejected, callerOnly,
     tableVars, pollVars
<1>3. CASE Connect(c)
  <2>1. UNCHANGED <<socket, outgoing, fdOf>>
    BY Zenon, <1>3 DEF Connect, CallerGoes, callVars, tableVars, kernelVars
  <2>2. \A d \in Callers : caller'[d] = "produce" => caller[d] = "produce"
    BY Zenon, <1>1, <1>3 DEF Connect, CallerGoes, callVars
  <2> QED BY Zenon, <1>2, <2>1, <2>2 DEF Connected, Produced
<1>4. CASE CreateSocket(c)
  <2>1. outgoing' = outgoing
    BY Zenon, <1>4 DEF CreateSocket, tableVars
  <2>2. \A d \in Callers : caller'[d] = "produce" => caller[d] = "produce" /\ fdOf'[d] = fdOf[d]
    BY Zenon, <1>1, <1>4 DEF CreateSocket, CallerReturns
  <2>3. \A f \in Fds : socket[f] = "connected" => socket'[f] = "connected"
    BY Zenon, <1>1, <1>4 DEF CreateSocket, Becomes, kernelVars
  <2>4. ASSUME NEW f \in Fds, Produced(f)' PROVE Produced(f)
    BY ZenonT(60), <1>2, <2>1, <2>2, <2>4 DEF Produced
  <2> QED BY Zenon, <2>3, <2>4 DEF Connected
<1>5. CASE ConnectSocket(c)
  <2>1. outgoing' = outgoing /\ fdOf' = fdOf /\ fdOf[c] \in Fds
    BY Zenon, <1>5 DEF ConnectSocket, CallerGoes, tableVars, TcpInv, CallersHold
  <2>2. \A d \in Callers : caller'[d] = "produce" => caller[d] = "produce" \/ d = c
    BY Zenon, <1>1, <1>5 DEF ConnectSocket, CallerGoes
  <2>3. caller'[c] = "produce" => socket'[fdOf[c]] = "connected"
    BY Zenon, <1>1, <1>5, <2>1 DEF ConnectSocket, CallerGoes, Becomes
  <2>4. \A f \in Fds : f # fdOf[c] => socket'[f] = socket[f]
    BY Zenon, <1>1, <1>5 DEF ConnectSocket, Becomes
  <2>5. ~InTables(fdOf[c]) /\ \A d \in Callers \ {c} : fdOf[d] # fdOf[c]
    BY Zenon, <2>1 DEF TcpInv, Owned, CallersApart
  <2> QED BY ZenonT(60), <1>2, <2>1, <2>2, <2>3, <2>4, <2>5 DEF Connected, Produced, InTables
<1>6. CASE AddConnected(c)
  <2>1. socket' = socket
    BY Zenon, <1>6 DEF AddConnected, kernelVars
  <2>2. \A d \in Callers : caller'[d] = "produce" => caller[d] = "produce" /\ fdOf'[d] = fdOf[d]
    BY Zenon, <1>1, <1>6 DEF AddConnected, CallerReturns, CallerGoes
  <2>3. outgoing' \subseteq outgoing \cup {fdOf[c]} /\ caller[c] = "produce"
    BY Zenon, <1>6 DEF AddConnected
  <2>4. ASSUME NEW f \in Fds, Produced(f)' PROVE Produced(f)
    BY ZenonT(60), <1>2, <2>1, <2>2, <2>3, <2>4 DEF Produced
  <2> QED BY Zenon, <2>1, <2>4 DEF Connected
<1>7. CASE CloseRejected(c)
  <2>1. outgoing' = outgoing /\ fdOf[c] \in Fds /\ caller[c] = "close"
    BY Zenon, <1>7 DEF CloseRejected, tableVars, TcpInv, CallersHold
  <2>2. \A d \in Callers : caller'[d] = "produce" => d # c /\ caller[d] = "produce" /\ fdOf'[d] = fdOf[d]
    BY Zenon, <1>1, <1>7 DEF CloseRejected, CallerReturns
  <2>3. \A f \in Fds : f # fdOf[c] => socket'[f] = socket[f]
    BY Zenon, <1>7 DEF CloseRejected, Close
  <2>4. ~InTables(fdOf[c]) /\ \A d \in Callers \ {c} : fdOf[d] # fdOf[c]
    BY Zenon, <2>1 DEF TcpInv, Owned, CallersApart
  <2>5. ASSUME NEW f \in Fds, Produced(f)' PROVE Produced(f) /\ f # fdOf[c]
    BY ZenonT(60), <1>2, <2>1, <2>2, <2>4, <2>5 DEF Produced, InTables
  <2> QED BY Zenon, <2>3, <2>5 DEF Connected
<1> QED BY Zenon, <1>3, <1>4, <1>5, <1>6, <1>7

\* What the poller closes it has taken out of a table of its own; what it adds is connected.
LEMMA PollerConnected ==
    ASSUME TcpInv, Connected, PollerStep
    PROVE  Connected'
<1> USE TcpAssumption
<1>1. UNCHANGED <<user, caller, fdOf>>
  BY Zenon DEF PollerStep, BlockingWait, CheckStopped, Dispatch, Accept, AddIncoming, FinishOutgoing,
     RemoveExpired, UnregisterExpired, CloseExpired, CloseTables, pollerOnly, callVars
<1>2. ASSUME NEW gone, \A f \in Fds : f \notin gone => socket'[f] = socket[f],
             \A f \in gone : f \in listeners \/ f \in connectors \/ f \in dead,
             UNCHANGED <<incoming, outgoing>>, poller' # "produce"
      PROVE  Connected'
  <2>1. \A f \in Fds : f \in gone => f \notin incoming /\ f \notin outgoing /\ f \notin user
    BY Zenon, <1>2 DEF TcpInv, Owned, Disjoint
  <2>2. \A f \in Fds : f \in gone => \A c \in Callers : fdOf[c] # f
    BY Zenon, <1>2 DEF TcpInv, Owned, CallersApart, InTables
  <2> QED BY Zenon, <1>1, <1>2, <2>1, <2>2 DEF Connected, Produced
<1>3. CASE BlockingWait \/ CheckStopped \/ RemoveExpired \/ UnregisterExpired
  <2>1. UNCHANGED <<socket, incoming, outgoing>> /\ poller' # "produce"
    BY Zenon, <1>3 DEF BlockingWait, CheckStopped, RemoveExpired, UnregisterExpired, PollerGoes,
       kernelVars, tableVars
  <2> QED BY Zenon, <1>2, <2>1
<1>4. CASE Dispatch
  <2>1. UNCHANGED <<incoming, outgoing>> /\ poller' # "produce"
    BY Zenon, <1>4 DEF Dispatch, RemoveListener, tableVars
  <2>2. PICK e \in batch : \A f \in Fds : socket'[f] # socket[f] => f \in listeners /\ f = e.fd
    BY ZenonT(60), <1>4 DEF Dispatch, RemoveListener, Close, kernelVars
  <2>3. \A f \in Fds : f \notin listeners => socket'[f] = socket[f]
    BY Zenon, <2>2
  <2> QED BY Zenon, <1>2, <2>1, <2>3
<1>5. CASE Accept
  <2>1. UNCHANGED <<incoming, outgoing>>
    BY Zenon, <1>5 DEF Accept, RemoveListener, tableVars
  <2>2. CASE NextEvent
    <3>1. \A f \in Fds : f \notin listeners => socket'[f] = socket[f]
      BY Zenon, <1>5, <2>2 DEF Accept, NextEvent, RemoveListener, Close, kernelVars, TcpInv, PollerHolds
    <3> QED BY Zenon, <1>2, <2>1, <2>2, <3>1 DEF NextEvent
  <2>3. CASE ~NextEvent
    <3>1. PICK g \in Fds : socket[g] = "closed" /\ socket' = [socket EXCEPT ![g] = "connected"] /\ dead' = {g}
      BY Zenon, <1>5, <2>3 DEF Accept
    <3>2. \A f \in Fds : socket[f] = "connected" \/ f \in dead' => socket'[f] = "connected"
      BY Zenon, <3>1 DEF TcpInv, Types, CallTypes
    <3> QED BY Zenon, <1>1, <2>1, <3>2 DEF Connected, Produced
  <2> QED BY Zenon, <2>2, <2>3
<1>6. CASE AddIncoming
  <2>1. CASE "incoming" \in sealed
    <3>1. /\ \A f \in Fds : f \notin dead => socket'[f] = socket[f]
          /\ UNCHANGED <<incoming, outgoing>> /\ poller' # "produce"
      BY Zenon, <1>6, <2>1 DEF AddIncoming, NextEvent, Close, tableVars
    <3> QED BY Zenon, <1>2, <3>1
  <2>2. CASE "incoming" \notin sealed
    <3>1. /\ poller = "produce" /\ poller' = "accept" /\ incoming' = incoming \cup dead
          /\ UNCHANGED <<socket, outgoing>>
      BY Zenon, <1>6, <2>2 DEF AddIncoming, kernelVars
    <3> QED BY Zenon, <1>1, <3>1 DEF Connected, Produced
  <2> QED BY Zenon, <2>1, <2>2
<1>7. CASE FinishOutgoing
  <2>1. incoming' = incoming /\ poller' # "produce" /\ dead = {event.fd}
    BY Zenon, <1>7 DEF FinishOutgoing, NextEvent, tableVars, TcpInv, PollerHolds
  <2>2. CASE outgoing' = outgoing /\ Close(dead)
    <3>1. \A f \in Fds : f \notin dead => socket'[f] = socket[f]
      BY Zenon, <2>2 DEF Close
    <3> QED BY Zenon, <1>2, <2>1, <2>2, <3>1
  <2>3. CASE outgoing' = outgoing \cup {event.fd} /\ socket' = [socket EXCEPT ![event.fd] = "connected"]
    <3>1. \A f \in Fds : socket[f] = "connected" \/ f = event.fd => socket'[f] = "connected"
      BY Zenon, <2>3 DEF TcpInv, Types, CallTypes
    <3> QED BY Zenon, <1>1, <2>1, <2>3, <3>1 DEF Connected, Produced
  <2> QED BY Zenon, <1>7, <2>2, <2>3 DEF FinishOutgoing, tableVars
<1>8. CASE CloseExpired
  <2>1. /\ \A f \in Fds : f \notin dead => socket'[f] = socket[f]
        /\ UNCHANGED <<incoming, outgoing>> /\ poller' # "produce"
    BY Zenon, <1>8 DEF CloseExpired, Close, tableVars
  <2> QED BY Zenon, <1>2, <2>1
<1>9. CASE CloseTables
  <2>1. /\ \A f \in Fds : f \notin listeners \cup connectors => socket'[f] = socket[f]
        /\ UNCHANGED <<incoming, outgoing>> /\ poller' # "produce"
    BY Zenon, <1>9 DEF CloseTables, Close, PollerGoes, pollVars
  <2>2. \A f \in listeners \cup connectors : f \in listeners \/ f \in connectors
    BY Zenon
  <2> QED BY Zenon, <1>2, <2>1, <2>2
<1> QED BY Zenon, <1>3, <1>4, <1>5, <1>6, <1>7, <1>8, <1>9 DEF PollerStep

\* Stop() shuts down listeners, and closes only what it takes out of the produced tables.
LEMMA StopConnected ==
    ASSUME TcpInv, Connected, Stop
    PROVE  Connected'
<1>1. UNCHANGED <<user, caller, fdOf, poller, dead>>
  BY Zenon DEF Stop, Seal, SetStop, ShutdownListeners, CloseIncoming, CloseOutgoing, stopOnly, callVars,
     pollVars
<1>2. ASSUME NEW gone, \A f \in Fds : f \notin gone => socket'[f] = socket[f],
             \A f \in gone : \/ f \in listeners
                             \/ f \in incoming /\ incoming' = {}
                             \/ f \in outgoing /\ outgoing' = {},
             incoming' \subseteq incoming, outgoing' \subseteq outgoing
      PROVE  Connected'
  <2>1. \A f \in Fds : f \in gone => f \notin incoming' /\ f \notin outgoing' /\ f \notin user /\ f \notin dead
    BY Zenon, <1>2 DEF TcpInv, Owned, Disjoint
  <2>2. \A f \in Fds : f \in gone => \A c \in Callers : fdOf[c] # f
    BY Zenon, <1>2 DEF TcpInv, Owned, CallersApart, InTables
  <2> QED BY Zenon, <1>1, <1>2, <2>1, <2>2 DEF Connected, Produced
<1>3. CASE SetStop \/ UNCHANGED <<tableVars, kernelVars>>
  BY Zenon, <1>2, <1>3 DEF SetStop, tableVars, kernelVars
<1>4. CASE ShutdownListeners
  <2>1. /\ \A f \in Fds : f \notin listeners => socket'[f] = socket[f]
        /\ UNCHANGED <<incoming, outgoing>>
    BY Zenon, <1>4 DEF ShutdownListeners, tableVars
  <2> QED BY Zenon, <1>2, <2>1
<1>5. CASE CloseIncoming
  <2>1. /\ \A f \in Fds : f \notin incoming => socket'[f] = socket[f]
        /\ incoming' = {} /\ outgoing' = outgoing
    BY Zenon, <1>5 DEF CloseIncoming, Close
  <2> QED BY Zenon, <1>2, <2>1
<1>6. CASE CloseOutgoing
  <2>1. /\ \A f \in Fds : f \notin outgoing => socket'[f] = socket[f]
        /\ outgoing' = {} /\ incoming' = incoming
    BY Zenon, <1>6 DEF CloseOutgoing, Close
  <2> QED BY Zenon, <1>2, <2>1
<1> QED BY Zenon, <1>3, <1>4, <1>5, <1>6 DEF Stop, Seal

\* A worker that closes its socket leaves the others alone.
LEMMA UserConnected ==
    ASSUME TcpInv, Connected, NEW g \in Fds, UserCloses(g)
    PROVE  Connected'
<1>1. UNCHANGED <<caller, fdOf, poller, dead, incoming, outgoing>>
  BY Zenon DEF UserCloses, envOnly, callVars, pollVars, tableVars
<1>2. user' = user \ {g} /\ g \in user /\ \A f \in Fds : f # g => socket'[f] = socket[f]
  BY Zenon DEF UserCloses, Close
<1>3. ~Produced(g)'
  <2>1. g \notin incoming /\ g \notin outgoing /\ g \notin dead
    BY Zenon, <1>2 DEF TcpInv, Owned, Disjoint
  <2>2. \A c \in Callers : fdOf[c] # g
    BY Zenon, <1>2 DEF TcpInv, Owned, CallersApart, InTables
  <2> QED BY Zenon, <1>1, <1>2, <2>1, <2>2 DEF Produced
<1> QED BY Zenon, <1>1, <1>2, <1>3 DEF Connected, Produced

\* The sockets the tcpmgr thread keeps move to workers, the others are closed.
LEMMA CreateRecvWorkersKeeps ==
    ASSUME TcpInv, Connected, CreateRecvWorkers
    PROVE  TcpInv' /\ Connected'
<1> USE TcpAssumption
<1>1. PICK kept \in SUBSET incoming : user' = user \cup kept /\ Close(incoming \ kept)
  BY Zenon DEF CreateRecvWorkers
<1>2. /\ incoming' = {}
      /\ UNCHANGED <<listeners, connectors, outgoing, expired, sealed, stop_, caller, fdOf, poller, event, dead,
                     stopper>>
  BY Zenon DEF CreateRecvWorkers, envOnly, callVars, pollVars
<1>3. kept \subseteq incoming /\ incoming \subseteq Fds
  BY Zenon DEF TcpInv, Types, TableTypes
<1>4. /\ socket' \in [Fds -> SocketStates] /\ interest' = interest \ (incoming \ kept)
      /\ \A f \in Fds : f \in incoming /\ f \notin kept => socket'[f] = "closed"
      /\ \A f \in Fds : ~(f \in incoming /\ f \notin kept) => socket'[f] = socket[f]
  BY Zenon, <1>1 DEF Close, TcpInv, Types, CallTypes, SocketStates
<1>5. Types'
  <2>1. CallTypes' /\ StepTypes'
    BY Zenon, <1>2, <1>4 DEF TcpInv, Types, CallTypes, StepTypes
  <2>2. TableTypes'
    BY Zenon, <1>1, <1>2, <1>3 DEF TcpInv, Types, TableTypes
  <2> QED BY Zenon, <2>1, <2>2 DEF Types
<1>6. CallersHold' /\ PollerHolds'
  BY Zenon, <1>2 DEF TcpInv, CallersHold, PollerHolds
<1>7. Disjoint'
  BY Zenon, <1>1, <1>2, <1>3 DEF TcpInv, Owned, Disjoint
<1>8. \A f \in Fds : InTables(f)' <=> InTables(f) /\ ~(f \in incoming /\ f \notin kept)
  BY Zenon, <1>1, <1>2, <1>3 DEF TcpInv, Owned, Disjoint, InTables
<1>9. CallersApart'
  <2>1. \A f \in Fds : InTables(f)' => InTables(f)
    BY Zenon, <1>8
  <2> QED BY Zenon, <1>2, <2>1 DEF TcpInv, Owned, CallersApart
<1>10. \A f \in Fds : f \in incoming => InTables(f) /\ \A c \in Callers : fdOf[c] # f
  BY Zenon DEF TcpInv, Owned, CallersApart, InTables
<1>11. OpenIsHeld'
  BY Zenon, <1>2, <1>4, <1>8, <1>10 DEF TcpInv, Owned, OpenIsHeld
<1>12. WatchesItsTables'
  <2>1. \A f \in incoming : f \notin listeners /\ f \notin connectors /\ f \notin dead
    BY Zenon, <1>3 DEF TcpInv, Owned, Disjoint
  <2>2. interest \ (incoming \ kept) = interest
    BY Zenon, <2>1 DEF TcpInv, WatchesItsTables
  <2> QED BY Zenon, <1>2, <1>4, <2>2 DEF TcpInv, WatchesItsTables
<1>13. StopOK'
  BY Zenon, <1>2 DEF TcpInv, StopOK
<1>14. Connected'
  <2>1. \A f \in Fds : Produced(f)' => Produced(f) /\ ~(f \in incoming /\ f \notin kept)
    <3>1. \A f \in Fds : f \in incoming => f \notin outgoing /\ f \notin user /\ f \notin dead
      BY Zenon DEF TcpInv, Owned, Disjoint
    <3> QED BY Zenon, <1>1, <1>2, <1>3, <1>10, <3>1 DEF Produced
  <2> QED BY Zenon, <1>4, <2>1 DEF Connected
<1> QED BY Zenon, <1>5, <1>6, <1>7, <1>9, <1>11, <1>12, <1>13, <1>14 DEF TcpInv, Owned

\* The main thread takes the produced sockets, if there are any.
LEMMA CollectKeeps ==
    ASSUME TcpInv, Connected, Collect
    PROVE  TcpInv' /\ Connected'
<1>1. /\ outgoing' = {} /\ user' = user \cup outgoing
      /\ UNCHANGED <<socket, caller, fdOf, poller, dead, incoming>>
  BY Zenon DEF Collect, kernelVars, envOnly, callVars, pollVars
<1>2. Connected'
  BY Zenon, <1>1 DEF Connected, Produced
<1>3. [TcpNext]_tcpVars
  <2>1. CASE outgoing # {}
    BY Zenon, <2>1 DEF Collect, TcpNext, GetOutgoingSockets
  <2>2. CASE outgoing = {}
    <3>1. user \cup outgoing = user
      BY Zenon, <2>2
    <3> QED BY Zenon, <2>2, <3>1 DEF Collect, tcpVars, tableVars, envOnly
  <2> QED BY Zenon, <2>1, <2>2
<1> QED BY Zenon, <1>2, <1>3, TcpStepInv

\* The engine's threads use the manager as its callers do.
LEMMA ManagerKeeps == TcpInv /\ Connected /\ [LifeNext]_engineVars => TcpInv' /\ Connected'
<1> SUFFICES ASSUME TcpInv, Connected, [LifeNext]_engineVars PROVE TcpInv' /\ Connected'
  BY Zenon
<1>1. CASE UNCHANGED tcpVars
  <2>1. TcpInv'
    BY Zenon, <1>1, TcpStepInv
  <2>2. UNCHANGED <<socket, caller, fdOf, poller, dead, incoming, outgoing, user>>
    BY Zenon, <1>1 DEF tcpVars, tableVars, kernelVars, callVars, pollVars
  <2> QED BY Zenon, <2>1, <2>2 DEF Connected, Produced
<1>2. CASE Dial \/ Dialing
  <2>1. Main \in Callers
    BY Zenon, LifeAssumption
  <2>2. Connect(Main) \/ CreateSocket(Main) \/ ConnectSocket(Main) \/ AddConnected(Main) \/ CloseRejected(Main)
    BY Zenon, <1>2 DEF Dial, Dialing
  <2>3. TcpNext
    BY Zenon, <2>1, <2>2 DEF TcpNext, ConnectStep
  <2> QED BY Zenon, <2>1, <2>2, <2>3, DialConnected, TcpStepInv
<1>3. CASE Collect
  BY Zenon, <1>3, CollectKeeps
<1>4. CASE CreateRecvWorkers
  BY Zenon, <1>4, CreateRecvWorkersKeeps
<1>5. ASSUME NEW f \in Fds, CloseWorker(f) PROVE TcpInv' /\ Connected'
  <2>1. UserCloses(f)
    BY Zenon, <1>5 DEF CloseWorker
  <2> QED BY Zenon, <2>1, UserConnected, TcpStepInv DEF TcpNext
<1>6. CASE StopManager
  <2>1. Stop
    BY Zenon, <1>6 DEF StopManager
  <2> QED BY Zenon, <2>1, StopConnected, TcpStepInv DEF TcpNext
<1>7. CASE PollerStep
  BY Zenon, <1>7, PollerConnected, TcpStepInv DEF TcpNext
<1>8. ASSUME NEW f \in ListenFds, Arrive(f) PROVE TcpInv' /\ Connected'
  <2>1. UNCHANGED <<socket, caller, fdOf, poller, dead, incoming, outgoing, user>>
    BY Zenon, <1>8 DEF Arrive, tableVars, envOnly, callVars, pollVars
  <2>2. Connected'
    BY Zenon, <2>1 DEF Connected, Produced
  <2> QED BY Zenon, <1>8, <2>2, TcpStepInv DEF TcpNext, Environment
<1>9. CASE Post \/ TakePost \/ MainExits \/ CreateSendWorkers \/ TcpmgrCheck
  BY Zenon, <1>1, <1>9 DEF Post, TakePost, MainExits, CreateSendWorkers, TcpmgrCheck
<1>10. CASE BeginDestroy \/ JoinThreads \/ WorkersGone \/ JoinPoller
  BY Zenon, <1>1, <1>10 DEF BeginDestroy, JoinThreads, WorkersGone, JoinPoller
<1>11. ASSUME NEW f \in Fds, Break(f) \/ LoopEnds(f) \/ ShutWorker(f) PROVE TcpInv' /\ Connected'
  BY Zenon, <1>1, <1>11 DEF Break, LoopEnds, ShutWorker
<1>12. CASE UNCHANGED engineVars
  BY Zenon, <1>1, <1>12 DEF engineVars
<1> QED BY ZenonT(60), <1>2, <1>3, <1>4, <1>5, <1>6, <1>7, <1>8, <1>9, <1>10, <1>11, <1>12
           DEF LifeNext, MainStep, AcceptorStep, Destructor

\* The main thread hands what it dialled to workers, and is the only one that dials.
LEMMA MainKeeps ==
    ASSUME TcpInv, EngineOK, MainStep
    PROVE  EngineOK'
<1> USE TcpAssumption, LifeAssumption
<1> DEFINE Mains == [at : {"idle", "dial", "dialing", "exited"}, attempts : Nat, channels : SUBSET Fds]
<1>1. main \in Mains /\ loops \in [Fds -> SUBSET {"send", "recv"}]
  BY Zenon DEF EngineOK, LifeTypes
<1>2. UNCHANGED <<life, acceptor, recvWorkers, dying, stopper>>
  BY ZenonT(30) DEF MainStep, TakePost, MainExits, Dial, Dialing, Collect, CreateSendWorkers, mainOnly, lifeVars,
     tcpVars, envOnly, callerOnly, Connect, CreateSocket, ConnectSocket, AddConnected, CloseRejected
<1>3. main.at # "exited"
  BY Zenon DEF MainStep, TakePost, MainExits, Dial, Dialing, Collect, CreateSendWorkers
<1>4. life \in {"alive", "threads"}
  BY Zenon, <1>3 DEF EngineOK, LifeOK
<1>5. LifeOK'
  BY Zenon, <1>2, <1>4 DEF EngineOK, LifeOK
<1>6. ASSUME main' \in Mains, loops' \in [Fds -> SUBSET {"send", "recv"}] PROVE LifeTypes'
  BY Zenon, <1>2, <1>6 DEF EngineOK, LifeTypes
<1>7. CASE TakePost \/ MainExits
  <2>1. /\ main' \in Mains /\ main'.at \in {"idle", "dial", "exited"} /\ main'.channels = {}
        /\ main.at = "idle" /\ main.channels = {}
    BY <1>1, <1>7 DEF TakePost, MainExits, AtRest, EngineOK, UsersOK
  <2>2. UNCHANGED <<user, sendWorkers, loops, caller>>
    BY Zenon, <1>7 DEF TakePost, MainExits, tcpVars, callVars
  <2>3. UsersOK' /\ DialsOK'
    BY Zenon, <1>2, <2>1, <2>2 DEF EngineOK, UsersOK, DialsOK, Workers
  <2> QED BY ZenonT(60), <1>1, <1>5, <1>6, <2>1, <2>2, <2>3 DEF EngineOK
<1>8. CASE Dial
  <2>1. main' \in Mains /\ main'.at = "dialing" /\ main'.channels = main.channels /\ main.at = "dial"
    <3>1. main' = [main EXCEPT !.at = "dialing", !.attempts = @ + 1] /\ main.at = "dial"
      BY Zenon, <1>8 DEF Dial
    <3>2. main.attempts \in Nat /\ main.attempts + 1 \in Nat /\ main.channels \in SUBSET Fds
      BY <1>1
    <3>3. main' = [at |-> "dialing", attempts |-> main.attempts + 1, channels |-> main.channels]
      BY Zenon, <1>1, <3>1
    <3> QED BY <3>1, <3>2, <3>3
  <2>2. UNCHANGED <<user, sendWorkers, loops>>
    BY Zenon, <1>8 DEF Dial, Connect, callerOnly
  <2>3. /\ caller'[Main] \in {"idle", "create"}
        /\ \A c \in Callers \ {Main} : caller'[c] = caller[c]
    BY Zenon, <1>8, <2>1 DEF Dial, Connect, CallerGoes, callVars, TcpInv, Types, CallTypes
  <2>4. UsersOK' /\ DialsOK'
    BY Zenon, <1>2, <2>1, <2>2, <2>3 DEF EngineOK, UsersOK, DialsOK, Workers
  <2> QED BY Zenon, <1>1, <1>5, <1>6, <2>1, <2>2, <2>4 DEF EngineOK
<1>9. CASE Dialing
  <2>1. UNCHANGED <<user, sendWorkers, loops, main>> /\ main.at = "dialing"
    BY Zenon, <1>9 DEF Dialing, CreateSocket, AddConnected, CloseRejected, ConnectSocket, lifeVars, callerOnly
  <2>2. caller'[Main] # "register"
    BY Zenon, <1>9 DEF Dialing, CreateSocket, AddConnected, CloseRejected, CallerReturns, CallerGoes, TcpInv, Types,
       CallTypes
  <2>3. \A c \in Callers \ {Main} : caller'[c] = caller[c]
    BY Zenon, <1>9 DEF Dialing, CreateSocket, AddConnected, CloseRejected, ConnectSocket, CallerReturns,
       CallerGoes, TcpInv, Types, CallTypes
  <2>4. UsersOK' /\ DialsOK'
    BY Zenon, <1>2, <2>1, <2>2, <2>3 DEF EngineOK, UsersOK, DialsOK, Workers
  <2> QED BY Zenon, <1>1, <1>5, <1>6, <2>1, <2>4 DEF EngineOK
<1>10. CASE Collect
  <2>1. outgoing \subseteq Fds
    BY Zenon DEF TcpInv, Types, TableTypes
  <2>2. main' \in Mains /\ main'.at = "dial" /\ main'.channels = main.channels \cup outgoing
    BY Zenon, <1>1, <1>10, <2>1 DEF Collect
  <2>3. /\ user' = user \cup outgoing /\ caller[Main] = "idle"
        /\ UNCHANGED <<sendWorkers, loops, caller>>
    BY Zenon, <1>10 DEF Collect, envOnly, callVars
  <2>4. UsersOK' /\ DialsOK'
    BY Zenon, <1>2, <2>2, <2>3 DEF EngineOK, UsersOK, DialsOK, Workers
  <2> QED BY Zenon, <1>1, <1>5, <1>6, <2>2, <2>3, <2>4 DEF EngineOK
<1>11. CASE CreateSendWorkers
  <2>1. main' \in Mains /\ main'.at = "idle" /\ main'.channels = {} /\ main.at = "dial"
    BY <1>11 DEF CreateSendWorkers, AtRest
  <2>2. sendWorkers' = sendWorkers \cup main.channels /\ UNCHANGED <<user, caller>>
    BY Zenon, <1>11 DEF CreateSendWorkers, tcpVars, callVars
  <2>3. /\ loops' \in [Fds -> SUBSET {"send", "recv"}]
        /\ \A f \in Fds : f \notin main.channels => loops'[f] = loops[f]
    BY Zenon, <1>1, <1>11 DEF CreateSendWorkers, Run
  <2>4. UsersOK' /\ DialsOK'
    BY Zenon, <1>2, <2>1, <2>2, <2>3 DEF EngineOK, UsersOK, DialsOK, Workers
  <2> QED BY Zenon, <1>5, <1>6, <2>1, <2>3, <2>4 DEF EngineOK
<1> QED BY Zenon, <1>7, <1>8, <1>9, <1>10, <1>11 DEF MainStep

\* The tcpmgr thread makes a worker of every socket it keeps, and is done before
\* the workers are destroyed.
LEMMA AcceptorKeeps ==
    ASSUME TcpInv, EngineOK, AcceptorStep
    PROVE  EngineOK'
<1>1. UNCHANGED <<life, main, sendWorkers, dying, stopper, poller, caller>>
  BY Zenon DEF AcceptorStep, TcpmgrCheck, CreateRecvWorkers, tcpVars, envOnly, callVars, pollVars
<1>2. acceptor # "exited" /\ acceptor' \in {"check", "take", "exited"}
  BY Zenon DEF AcceptorStep, TcpmgrCheck, CreateRecvWorkers
<1>3. life \in {"alive", "threads"}
  BY Zenon, <1>2 DEF EngineOK, LifeOK
<1>4. LifeOK' /\ DialsOK'
  BY Zenon, <1>1, <1>3 DEF EngineOK, LifeOK, DialsOK
<1>5. PICK kept \in SUBSET Fds :
        /\ recvWorkers' = recvWorkers \cup kept /\ user' = user \cup kept
        /\ loops' \in [Fds -> SUBSET {"send", "recv"}]
        /\ \A f \in Fds : f \notin kept => loops'[f] = loops[f]
  <2>1. CASE TcpmgrCheck
    <3>1. UNCHANGED <<recvWorkers, user, loops>>
      BY Zenon, <2>1 DEF TcpmgrCheck, tcpVars
    <3>2. recvWorkers = recvWorkers \cup {} /\ user = user \cup {}
      BY Zenon
    <3>3. {} \in SUBSET Fds
      BY Zenon
    <3> WITNESS {} \in SUBSET Fds
    <3> QED BY Zenon, <3>1, <3>2 DEF EngineOK, LifeTypes
  <2>2. CASE CreateRecvWorkers
    <3>1. PICK kept \in SUBSET incoming : recvWorkers' = recvWorkers \cup kept /\ Run(kept) /\ user' = user \cup kept
      BY Zenon, <2>2 DEF CreateRecvWorkers
    <3>2. /\ kept \in SUBSET Fds /\ loops' \in [Fds -> SUBSET {"send", "recv"}]
          /\ \A f \in Fds : f \notin kept => loops'[f] = loops[f]
      BY Zenon, <3>1 DEF Run, EngineOK, LifeTypes, TcpInv, Types, TableTypes
    <3> QED BY Zenon, <3>1, <3>2
  <2> QED BY Zenon, <2>1, <2>2 DEF AcceptorStep
<1>6. UsersOK'
  BY Zenon, <1>1, <1>5 DEF EngineOK, UsersOK, Workers
<1>7. LifeTypes'
  BY Zenon, <1>1, <1>2, <1>5 DEF EngineOK, LifeTypes
<1> QED BY Zenon, <1>4, <1>6, <1>7 DEF EngineOK

\* A loop that ends stays with its worker; what breaks a connection is no matter here.
LEMMA LoopKeeps ==
    ASSUME EngineOK, NEW f \in Fds, Break(f) \/ LoopEnds(f) \/ ShutWorker(f)
    PROVE  EngineOK'
<1> USE TcpAssumption
<1>1. UNCHANGED <<life, main, acceptor, sendWorkers, recvWorkers, user, caller, stopper, poller>>
  BY Zenon DEF Break, LoopEnds, ShutWorker, tcpVars, callVars, pollVars
<1>2. /\ loops' \in [Fds -> SUBSET {"send", "recv"}]
      /\ \A g \in Fds : loops'[g] # {} => loops[g] # {}
  <2>1. loops \in [Fds -> SUBSET {"send", "recv"}]
    BY Zenon DEF EngineOK, LifeTypes
  <2>2. CASE Break(f) \/ ShutWorker(f)
    BY Zenon, <2>1, <2>2 DEF Break, ShutWorker
  <2>3. CASE LoopEnds(f)
    <3>1. PICK l \in loops[f] : loops' = [loops EXCEPT ![f] = @ \ {l}]
      BY Zenon, <2>3 DEF LoopEnds
    <3>2. loops[f] \ {l} \in SUBSET {"send", "recv"} /\ loops[f] # {}
      BY Zenon, <2>1, <3>1
    <3> QED BY Zenon, <2>1, <3>1, <3>2
  <2> QED BY Zenon, <2>2, <2>3
<1>3. dying' # None => dying # None \/ life \in {"recv workers", "send workers"}
  BY Zenon DEF Break, LoopEnds, ShutWorker, Doomed
<1>4. LifeTypes' /\ UsersOK'
  BY Zenon, <1>1, <1>2 DEF EngineOK, LifeTypes, UsersOK, Workers
<1>5. DialsOK' /\ LifeOK'
  BY Zenon, <1>1, <1>3 DEF EngineOK, DialsOK, LifeOK
<1> QED BY Zenon, <1>4, <1>5 DEF EngineOK

\* A worker is closed after its loops have ended, while nobody dials.
LEMMA CloseWorkerKeeps ==
    ASSUME EngineOK, NEW f \in Fds, CloseWorker(f)
    PROVE  EngineOK'
<1> USE TcpAssumption
<1>1. UNCHANGED <<life, main, acceptor, loops, caller, stopper, poller>>
  BY Zenon DEF CloseWorker, UserCloses, envOnly, callVars, pollVars
<1>2. /\ sendWorkers' = sendWorkers \ {f} /\ recvWorkers' = recvWorkers \ {f} /\ user' = user \ {f}
      /\ loops[f] = {} /\ dying' = None /\ f = dying
  BY Zenon DEF CloseWorker, UserCloses
<1>3. main.at = "exited" /\ main.channels = {}
  BY Zenon, <1>2 DEF EngineOK, LifeOK, UsersOK
<1>4. LifeTypes' /\ DialsOK'
  BY Zenon, <1>1 DEF EngineOK, LifeTypes, DialsOK
<1>5. UsersOK'
  BY Zenon, <1>1, <1>2, <1>3 DEF EngineOK, UsersOK, Workers
<1>6. LifeOK'
  BY Zenon, <1>1, <1>2 DEF EngineOK, LifeOK
<1> QED BY Zenon, <1>4, <1>5, <1>6 DEF EngineOK

\* The destructor goes on when what it waits for has ended.
LEMMA DestructorGoes ==
    ASSUME EngineOK, BeginDestroy \/ JoinThreads \/ WorkersGone \/ JoinPoller
    PROVE  EngineOK'
<1>1. UNCHANGED <<main, acceptor, sendWorkers, recvWorkers, loops, dying, user, caller, stopper, poller>>
  BY Zenon DEF BeginDestroy, JoinThreads, WorkersGone, JoinPoller, Goes, tcpVars, callVars, pollVars
<1>2. UsersOK' /\ DialsOK'
  BY Zenon, <1>1 DEF EngineOK, UsersOK, DialsOK, Workers
<1>3. LifeTypes'
  BY Zenon, <1>1 DEF BeginDestroy, JoinThreads, WorkersGone, JoinPoller, Goes, EngineOK, LifeTypes
<1>4. LifeOK'
  BY Zenon, <1>1 DEF BeginDestroy, JoinThreads, WorkersGone, JoinPoller, Goes, EngineOK, LifeOK
<1> QED BY Zenon, <1>2, <1>3, <1>4 DEF EngineOK

\* No step of the engine, of the poller or of the network breaks the invariant.
LEMMA LifeStepInv == LifeInv /\ [LifeNext]_engineVars => LifeInv'
<1> SUFFICES ASSUME TcpInv, Connected, EngineOK, [LifeNext]_engineVars PROVE EngineOK'
  BY Zenon, ManagerKeeps DEF LifeInv
<1>1. ASSUME UNCHANGED lifeVars, UNCHANGED <<user, caller>>,
             life = "destroyed" => UNCHANGED <<stopper, poller>>
      PROVE  EngineOK'
  <2>1. UNCHANGED <<life, main, acceptor, sendWorkers, recvWorkers, loops, dying>>
    BY Zenon, <1>1 DEF lifeVars
  <2>2. LifeTypes' /\ UsersOK'
    BY Zenon, <1>1, <2>1 DEF EngineOK, LifeTypes, UsersOK, Workers
  <2>3. DialsOK' /\ LifeOK'
    BY Zenon, <1>1, <2>1 DEF EngineOK, DialsOK, LifeOK
  <2> QED BY Zenon, <2>2, <2>3 DEF EngineOK
<1>2. CASE StopManager
  <2>1. UNCHANGED lifeVars /\ UNCHANGED <<user, caller>> /\ life # "destroyed"
    BY Zenon, <1>2 DEF StopManager, Stop, Seal, SetStop, ShutdownListeners, CloseIncoming, CloseOutgoing,
       stopOnly, callVars
  <2> QED BY Zenon, <1>1, <2>1
<1>3. CASE PollerStep /\ UNCHANGED lifeVars
  <2>1. UNCHANGED <<user, caller>> /\ poller # "done"
    BY Zenon, <1>3 DEF PollerStep, BlockingWait, CheckStopped, Dispatch, Accept, AddIncoming, FinishOutgoing,
       RemoveExpired, UnregisterExpired, CloseExpired, CloseTables, pollerOnly, callVars
  <2>2. life # "destroyed"
    BY Zenon, <2>1 DEF EngineOK, LifeOK
  <2> QED BY ZenonT(60), <1>1, <1>3, <2>1, <2>2
<1>4. ASSUME NEW f \in ListenFds, Arrive(f), UNCHANGED lifeVars PROVE EngineOK'
  BY Zenon, <1>1, <1>4 DEF Arrive, envOnly, callVars, pollVars
<1>5. CASE Post
  <2>1. UNCHANGED <<life, main, acceptor, sendWorkers, recvWorkers, loops, dying, user, caller, stopper, poller>>
    BY Zenon, <1>5 DEF Post, tcpVars, callVars, pollVars
  <2>2. LifeTypes' /\ UsersOK'
    BY Zenon, <2>1 DEF EngineOK, LifeTypes, UsersOK, Workers
  <2>3. DialsOK' /\ LifeOK'
    BY Zenon, <2>1 DEF EngineOK, DialsOK, LifeOK
  <2> QED BY Zenon, <2>2, <2>3 DEF EngineOK
<1>6. CASE UNCHANGED engineVars
  BY Zenon, <1>1, <1>6 DEF engineVars, tcpVars, callVars, pollVars
<1> QED BY Zenon, <1>2, <1>3, <1>4, <1>5, <1>6, MainKeeps, AcceptorKeeps, LoopKeeps, CloseWorkerKeeps,
           DestructorGoes DEF LifeNext, Destructor

\* An engine starts without workers and without connections.
LEMMA LifeInitInv == TcpInit /\ LifeInit => LifeInv
<1> SUFFICES ASSUME TcpInit, LifeInit PROVE LifeInv
  BY Zenon
<1> USE LifeAssumption
<1>1. TcpInv
  BY Zenon, TcpInitInv
<1>2. /\ incoming = {} /\ outgoing = {} /\ user = {} /\ poller = "loop"
      /\ \A c \in Callers : caller[c] = "idle"
  BY Zenon DEF TcpInit
<1>3. Connected
  BY Zenon, <1>2 DEF Connected, Produced
<1>4. main.at = "idle" /\ main.channels = {} /\ LifeTypes
  BY DEF LifeInit, AtRest, LifeTypes
<1>5. UsersOK /\ DialsOK /\ LifeOK
  BY Zenon, <1>2, <1>4 DEF LifeInit, UsersOK, DialsOK, LifeOK
<1> QED BY Zenon, <1>1, <1>3, <1>4, <1>5 DEF LifeInv, EngineOK

(* Loops run only on the connected sockets of live workers; once ~EngineHelper
   begins nobody uses the manager, and when ~Engine returns every socket is closed:
   for any number of descriptors, of connections per peer and of posts, and
   wherever the destructor finds the threads. *)
THEOREM DestructorLeavesNothing == LifeSpec => []DestroyedIsClean
<1>1. ASSUME LifeInv PROVE DestroyedIsClean
  <2> USE <1>1, TcpAssumption DEF LifeInv, EngineOK
  <2>1. \A f \in Fds : loops[f] # {} => f \in Workers /\ socket[f] = "connected"
    BY Zenon DEF UsersOK, Workers, Connected, Produced
  <2>2. ASSUME life \in {"helper", "destroyed"}
        PROVE  main.at = "exited" /\ acceptor = "exited" /\ (\A f \in Fds : loops[f] = {}) /\ user = {}
    <3>1. main.at = "exited" /\ acceptor = "exited" /\ sendWorkers = {} /\ recvWorkers = {}
      BY Zenon, <2>2 DEF LifeOK
    <3> QED BY Zenon, <3>1 DEF UsersOK, Workers
  <2>3. ASSUME life = "destroyed", NEW f \in Fds PROVE socket[f] = "closed"
    <3>1. main.at = "exited" /\ user = {} /\ stopper = "stopped" /\ poller = "done"
      BY Zenon, <2>2, <2>3 DEF LifeOK
    <3>2. listeners = {} /\ connectors = {} /\ incoming = {} /\ outgoing = {} /\ dead = {}
      BY Zenon, <3>1 DEF TcpInv, StopOK, PollerHolds
    <3>3. \A c \in Callers : fdOf[c] # f
      BY Zenon, <3>1 DEF DialsOK, TcpInv, CallersHold
    <3> QED BY ZenonT(60), <3>1, <3>2, <3>3 DEF TcpInv, Owned, OpenIsHeld, InTables
  <2> QED BY Zenon, <2>1, <2>2, <2>3 DEF DestroyedIsClean
<1> QED BY <1>1, LifeInitInv, LifeStepInv, PTL DEF LifeSpec
=============================================================================
