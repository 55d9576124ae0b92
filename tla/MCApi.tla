-------------------------------- MODULE MCApi -------------------------------
(***************************************************************************)
(* The parts of the v1 API and the libraries under it that share state      *)
(* between threads, each checked on its own: `focus` says which one runs in *)
(* a behaviour, the others stay in their initial states.                    *)
(***************************************************************************)
EXTENDS ConnPool, RouteCache, RateLimiter

CONSTANTS p, q
TwoAddresses == [peer \in Peers |-> IF peer = p THEN 2 ELSE 1]

Ip(family, loopback, name) == [family |-> family, loopback |-> loopback, name |-> name]
SomeSources == {Ip(4, FALSE, "s"), Ip(4, TRUE, "lo")}
SomeHosts == {{Ip(4, FALSE, "d")}, {Ip(4, TRUE, "lo"), Ip(6, TRUE, "lo6")}, {Ip(6, FALSE, "d6")}}

\* Interface 1 is the loopback interface: only it reaches loopback addresses.
Owner(nic) == [s \in SomeSources |-> IF s.loopback THEN 1 ELSE nic]
Egress(nic) == [k \in SomeSources \X SomeHosts |->
                  IF \E a \in k[2] : a.loopback THEN 1 ELSE nic]
SomeQuestions == {{k} : k \in SomeSources \X SomeHosts} \cup
    {{<<Ip(4, FALSE, "s"), h>> : h \in {{Ip(4, FALSE, "d")}, {Ip(6, FALSE, "d6")}}}}
SomeRoutings == {[owner |-> Owner(n), egress |-> Egress(m)] : n \in {0, 2}, m \in {2, 3}}

VARIABLE focus
mcVars == <<focus, poolVars, routeVars, rateVars>>

Init ==
    /\ focus \in {"pool", "route", "rate"}
    /\ PoolInit /\ RateInit
    /\ IF focus = "route" THEN RouteInit
       ELSE /\ RouteInit
            /\ cacheKind = "route"
            /\ asked = CHOOSE a \in Questions : TRUE
            /\ routing = CHOOSE r \in Routings : TRUE

Next ==
    \/ focus = "pool" /\ PoolNext /\ UNCHANGED <<focus, routeVars, rateVars>>
    \/ focus = "route" /\ RouteNext /\ UNCHANGED <<focus, poolVars, rateVars>>
    \/ focus = "rate" /\ RateNext /\ UNCHANGED <<focus, poolVars, routeVars>>

Spec == Init /\ [][Next]_mcVars
=============================================================================
