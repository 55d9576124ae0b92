------------------------------ MODULE NicChoice ------------------------------
(***************************************************************************)
(* Which addresses of a host the transport uses (util/nic.cc and            *)
(* NicInfo::GetTcpListenerCandidates): the interfaces are enumerated in the *)
(* order the kernel lists them, kept in hash maps, and searched for an      *)
(* address to bind to and for those to listen on.                           *)
(***************************************************************************)
EXTENDS Integers, Sequences, FiniteSets, SequencesExt

CONSTANTS
    NicAddrs,   \* the addresses of the host, each with the name of its interface
    Bridges,    \* the interfaces with a bridge directory in sysfs
    RdmaNics    \* the interfaces with an infiniband directory

VARIABLES
    unlisted,   \* addresses getifaddrs has still to give
    ifc_ips     \* interface -> its addresses, in the order of the list

choiceVars == <<unlisted, ifc_ips>>

ASSUME ChoiceAssumption == \A a, b \in NicAddrs : a.ip = b.ip => a.name = b.name

ChoiceInit == unlisted = NicAddrs /\ ifc_ips = [name \in {} |-> <<>>]

\* One turn of the loop.
EnumerateNics(a) ==
    /\ unlisted' = unlisted \ {a}
    /\ ifc_ips' = [name \in DOMAIN ifc_ips \cup {a.name} |->
                     (IF name \in DOMAIN ifc_ips THEN ifc_ips[name] ELSE <<>>)
                     \o (IF name = a.name THEN <<a.ip>> ELSE <<>>)]

ChoiceNext == \E a \in unlisted : EnumerateNics(a)

----------------------------------------------------------------------------
GetRoutableIpAddrs(ips) == SelectSeq(ips, LAMBDA ip : ip.routable)

FindRoutableIpAddrs ==
    LET kept == {name \in DOMAIN ifc_ips \ Bridges : GetRoutableIpAddrs(ifc_ips[name]) # <<>>}
    IN [name \in kept |-> [type |-> IF name \in RdmaNics THEN "rdma" ELSE "ip",
                           addrs |-> GetRoutableIpAddrs(ifc_ips[name])]]

MatchesTransport(type, transport) ==
    transport = "any" \/ (transport = "tcp" /\ type = "ip") \/ (transport = "rdma" /\ type = "rdma")

PickFromNics_nicFirst(nics, transport) ==
    LET ifnames == {n \in DOMAIN nics : MatchesTransport(nics[n].type, transport)}
        Fit(name) == SelectSeq(nics[name].addrs, LAMBDA ip : ~ip.loopback)
        fitting == {n \in ifnames : Fit(n) # <<>>}
    IN {Fit(name)[1] : name \in {n \in fitting : \A other \in fitting : n <= other}}
\* Sorted by name, once for the IPv6 addresses and once for the others.
PickFromNics(nics, transport) ==
    LET ifnames == {n \in DOMAIN nics : MatchesTransport(nics[n].type, transport)}
        Fit(name, v4) == SelectSeq(nics[name].addrs, LAMBDA ip : ~ip.loopback /\ ip.v4 = v4)
        fitting(v4) == {n \in ifnames : Fit(n, v4) # <<>>}
        First(v4) == {Fit(name, v4)[1] : name \in {n \in fitting(v4) : \A other \in fitting(v4) : n <= other}}
    IN IF First(FALSE) # {} THEN First(FALSE) ELSE First(TRUE)

SelectAutoBindIp(nics, transport) ==
    IF transport # "any" /\ PickFromNics(nics, transport) # {} THEN PickFromNics(nics, transport)
    ELSE PickFromNics(nics, "any")

GetTcpListenerCandidates(include_loopback) ==
    LET nics == FindRoutableIpAddrs
        es(name) == SelectSeq(nics[name].addrs, LAMBDA ip : include_loopback \/ ~ip.loopback)
        kept == {name \in DOMAIN nics : nics[name].type = "ip" /\ es(name) # <<>>}
    IN [name \in kept |-> es(name)]

----------------------------------------------------------------------------
Offered(name) == {a.ip : a \in {a \in NicAddrs \ unlisted : a.name = name /\ a.ip.routable /\ ~a.ip.loopback}}
NicOf(ip) == (CHOOSE a \in NicAddrs : a.ip = ip).name
Typed(name, transport) == transport = "any" \/ (name \in RdmaNics) = (transport = "rdma")
\* How much an address is wanted: one of the transport's own NICs, then IPv6, then the
\* least name.
Wanted(ip, transport) ==
    (IF Typed(NicOf(ip), transport) THEN 1000 ELSE 0) + (IF ip.v4 THEN 0 ELSE 100) - NicOf(ip)

Listened ==
    LET candidates == GetTcpListenerCandidates(FALSE)
    IN UNION {ToSet(candidates[name]) : name \in DOMAIN candidates}

\* SelectAutoBindIp finds an address iff a NIC that is no bridge has a routable one that is
\* not a loopback's, and then one no other is preferred to.  The order of the kernel's list
\* only decides between addresses of one family on one NIC.  What a TCP transport binds to
\* it can also listen on, unless it can listen on nothing.
AutoBindIsBest ==
    \A transport \in {"any", "tcp", "rdma"} :
        LET found == SelectAutoBindIp(FindRoutableIpAddrs, transport)
            offered == UNION {Offered(name) : name \in DOMAIN ifc_ips \ Bridges}
        IN /\ found = {} <=> offered = {}
           /\ \A ip \in found : /\ ip \in offered
                                /\ \A other \in offered : Wanted(other, transport) <= Wanted(ip, transport)
                                /\ transport = "tcp" /\ Listened # {} => ip \in Listened

=============================================================================
