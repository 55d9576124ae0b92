----------------------------- MODULE RouteCache -----------------------------
(***************************************************************************)
(* The two caches that answer whether a source address routes to a peer:    *)
(* routing/route.cc ("route") and api/v1/ip_util.cc ("v1").  Threads look   *)
(* up under the lock, ask the kernel outside it in two system calls, and    *)
(* store the answer under the lock, while the routing of the host may       *)
(* change and the cache may be cleared.                                     *)
(***************************************************************************)
EXTENDS Integers, Sequences

CONSTANTS
    Checkers,        \* threads
    Sources,         \* source addresses: [family, loopback] records
    Hosts,           \* peers: sets of addresses, at most one of a family
    Questions,       \* the sets of <<source, host>> pairs the threads of a behaviour ask about
    Routings,        \* states of the host's routing: owner[src], the interface that has
                     \* the address, and egress[<<src, host>>], the one packets leave through
    MaxChanges,      \* bound: changes of the routing
    MaxClears        \* bound: calls of Clear

NoNic == 0
ASSUME RouteAssumption ==
    /\ MaxChanges \in Nat /\ MaxClears \in Nat
    /\ \A a \in Sources \cup UNION Hosts : a.family \in {4, 6} /\ a.loopback \in BOOLEAN
    /\ \A h \in Hosts : \A a, b \in h : a.family = b.family => a = b
    /\ \A ks \in Questions : ks \subseteq Sources \X Hosts

\* The loopback interface has the loopback addresses, and packets to them and no others
\* leave through it.
ASSUME LoopbackAssumption ==
    \A r \in Routings, src \in Sources, host \in Hosts : \A d \in host :
        d.family = src.family /\ d.loopback # src.loopback => r.owner[src] # r.egress[<<src, host>>]

VARIABLES
    cacheKind,   \* which of the two caches this is
    asked,       \* the pairs that are asked about
    routing,     \* the routing of the host
    routes,      \* routes_: the cached answers, by <<source, host>>
    checker,     \* where each thread is
    answers,     \* what callers were told since the last Clear
    changes, clears

routeVars == <<cacheKind, asked, routing, routes, checker, answers, changes, clears>>

IdleChecker == [at |-> "idle", key |-> <<>>, nic |-> NoNic, value |-> FALSE]

\* The address of the host in the family of the source, if it has one.
ResolvePeerAddress(host, family) == {a \in host : a.family = family}

RouteInit ==
    /\ cacheKind \in {"route", "v1"}
    /\ asked \in Questions /\ routing \in Routings
    /\ routes = <<>> /\ answers = {}
    /\ checker = [t \in Checkers |-> IdleChecker]
    /\ changes = 0 /\ clears = 0

Told(key, value, failed) == [key |-> key, value |-> value, failed |-> failed]

Answer(t, key, value) ==
    /\ answers' = answers \cup {Told(key, value, FALSE)}
    /\ checker' = [checker EXCEPT ![t] = IdleChecker]

\* An error is not cached: Route::Check says false, SourceIpRoutesToPeer passes it on.
Fail(t) ==
    /\ answers' = answers \cup (IF cacheKind = "route" THEN {Told(checker[t].key, FALSE, TRUE)} ELSE {})
    /\ checker' = [checker EXCEPT ![t] = IdleChecker]

-----------------------------------------------------------------------------
Lookup(t, key) ==
    /\ checker[t].at = "idle"
    /\ \/ key \in DOMAIN routes /\ Answer(t, key, routes[key])
       \/ /\ key \notin DOMAIN routes
          /\ checker' = [checker EXCEPT ![t] = [IdleChecker EXCEPT !.at = "compute", !.key = key]]
          /\ UNCHANGED answers
    /\ UNCHANGED <<cacheKind, asked, routing, routes, changes, clears>>

\* What is known without asking the kernel: the families differ, or loopback decides.
Shortcut(key) ==
    LET src == key[1]
        dst == ResolvePeerAddress(key[2], src.family)
        toLoopback == \E a \in dst : a.loopback
    IN  IF dst = {} THEN {FALSE}
        ELSE IF cacheKind = "route"
             THEN IF src.loopback \/ toLoopback THEN {src.loopback /\ toLoopback} ELSE {}
             ELSE IF src.loopback /\ toLoopback THEN {TRUE} ELSE {}

\* FindNic and OwningInterfaceIndex; a system call may fail, and in SourceIpRoutesToPeer
\* the resolver before it.
ComputeOwner(t) ==
    LET key == checker[t].key
    IN  /\ checker[t].at = "compute"
        /\ \/ \E v \in Shortcut(key) :
                /\ checker' = [checker EXCEPT ![t].at = "store", ![t].value = v]
                /\ UNCHANGED answers
           \/ /\ Shortcut(key) = {} /\ routing.owner[key[1]] # NoNic
              /\ checker' = [checker EXCEPT ![t].at = "egress", ![t].nic = routing.owner[key[1]]]
              /\ UNCHANGED answers
           \/ (cacheKind = "route" => Shortcut(key) = {}) /\ Fail(t)
        /\ UNCHANGED <<cacheKind, asked, routing, routes, changes, clears>>

\* The messages of a netlink reply; oif is NoNic in one without an RTA_OIF.
Message(type, err, oif) == [type |-> type, err |-> err, oif |-> oif]
Replies(oif) == {
    <<Message("newroute", 0, oif)>>,
    <<Message("error", 0, NoNic), Message("newroute", 0, oif)>>,
    <<Message("error", 1, NoNic)>>,
    <<Message("newroute", 0, NoNic)>>,
    <<Message("other", 0, NoNic), Message("newroute", 0, oif)>>}

\* FindEgressNic takes the first route with an interface.  RouteEgressInterfaceIndex
\* stops at the first error and at the first route, with or without one.
EgressOf_unset(reply) ==
    LET routed == {i \in DOMAIN reply : reply[i].type = "newroute"}
    IN  {reply[i].oif : i \in {i \in routed : \A j \in routed : i <= j}}
EgressOf(reply) ==
    LET routed == {i \in DOMAIN reply : reply[i].type = "newroute"}
        failed == {i \in DOMAIN reply : reply[i].type = "error" /\ reply[i].err # 0}
        found == {i \in routed : reply[i].oif # NoNic}
        stops == IF cacheKind = "route" THEN found ELSE routed \cup failed
    IN  {reply[i].oif : i \in {i \in found : \A j \in stops : i <= j}}

ComputeEgress(t) ==
    /\ checker[t].at = "egress"
    /\ \/ \E reply \in Replies(routing.egress[checker[t].key]) :
            \/ \E oif \in EgressOf(reply) :
                 /\ checker' = [checker EXCEPT ![t].at = "store", ![t].value = (oif = checker[t].nic)]
                 /\ UNCHANGED answers
            \/ EgressOf(reply) = {} /\ Fail(t)
       \/ Fail(t)
    /\ UNCHANGED <<cacheKind, asked, routing, routes, changes, clears>>

\* try_emplace: the first writer wins.  Route::Check returns what is cached,
\* SourceIpRoutesToPeer what it computed.
Store_own(t) ==
    LET key == checker[t].key
        cached == IF key \in DOMAIN routes THEN routes[key] ELSE checker[t].value
    IN  /\ checker[t].at = "store"
        /\ routes' = [k \in DOMAIN routes \cup {key} |-> IF k = key THEN cached ELSE routes[k]]
        /\ Answer(t, key, checker[t].value)
        /\ UNCHANGED <<cacheKind, asked, routing, changes, clears>>
Store(t) ==
    LET key == checker[t].key
        cached == IF key \in DOMAIN routes THEN routes[key] ELSE checker[t].value
    IN  /\ checker[t].at = "store"
        /\ routes' = [k \in DOMAIN routes \cup {key} |-> IF k = key THEN cached ELSE routes[k]]
        /\ Answer(t, key, IF cacheKind = "route" THEN cached ELSE checker[t].value)
        /\ UNCHANGED <<cacheKind, asked, routing, changes, clears>>

Clear ==
    /\ clears < MaxClears /\ clears' = clears + 1
    /\ routes' = <<>> /\ answers' = {}
    /\ UNCHANGED <<cacheKind, asked, routing, checker, changes>>

RoutingChanges ==
    /\ changes < MaxChanges /\ changes' = changes + 1
    /\ routing' \in Routings
    /\ UNCHANGED <<cacheKind, asked, routes, checker, answers, clears>>

RouteNext ==
    \/ \E t \in Checkers :
         \/ \E key \in asked : Lookup(t, key)
         \/ ComputeOwner(t) \/ ComputeEgress(t) \/ Store(t)
    \/ Clear
    \/ RoutingChanges

-----------------------------------------------------------------------------
\* Between two calls of Clear all answers of Route::Check to the same question agree,
\* also when threads compute it at the same time and the routing changes in between
\* ("First writer wins", route.cc:139), the false of a failed computation excepted
\* ("Failures are reported as false but not memoized", route_test.cc:98).
\* SourceIpRoutesToPeer needs the static routing its comment assumes (ip_util.cc:273).
AnswersAgree ==
    cacheKind = "route" \/ changes = 0 =>
        \A a, b \in answers : a.key = b.key /\ ~a.failed /\ ~b.failed => a.value = b.value

\* While the routing has not changed every answer but that of a failed computation is the
\* true one, cached or not: the peer has an address of the source's family, and either
\* both are loopback addresses or packets leave through the interface that owns the
\* source.  No failure is remembered as an answer.
AnswersAreTrue ==
    changes = 0 => \A a \in {b \in answers : ~b.failed} :
        LET dst == {d \in a.key[2] : d.family = a.key[1].family}
        IN  a.value <=> /\ dst # {}
                        /\ \/ a.key[1].loopback /\ \A d \in dst : d.loopback
                           \/ routing.owner[a.key[1]] = routing.egress[a.key]
=============================================================================
