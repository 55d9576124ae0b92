----------------------------- MODULE PciTopology ----------------------------
(***************************************************************************)
(* Where a network device sits in the PCIe tree (internal/nic/pci_topology) *)
(* and how close two devices are.  sysfs is read-only here: a device link   *)
(* is a record of what the code reads through it, its path a sequence of    *)
(* parts.  A part that parses as a BDF carries its four numbers.            *)
(***************************************************************************)
EXTENDS Integers, SequencesExt

NoLocation == [numa |-> -1, root |-> 0, switches |-> <<>>, endpoint |-> <<>>]
Failed == [ok |-> FALSE, loc |-> NoLocation]

\* ParsePciBdfKey, of the numbers domain, bus, device and function.
ParsePciBdfKey(bdf) == bdf[1] * 2^24 + bdf[2] * 2^16 + bdf[3] * 2^8 + bdf[4]

\* The BDFs that follow the root bus, up to the first part that is none.
BdfChain(path) ==
    LET roots == {j \in 1 .. Len(path) : path[j].kind = "root"}
        top == CHOOSE j \in roots : \A k \in roots : j <= k
        after == SubSeq(path, top + 1, Len(path))
        ends == {j \in 1 .. Len(after) : after[j].kind # "bdf"}
        n == IF ends = {} THEN Len(after) ELSE (CHOOSE j \in ends : \A k \in ends : j <= k) - 1
    IN  IF roots = {} THEN [root |-> 0, bdfs |-> <<>>]
        ELSE [root |-> path[top].id, bdfs |-> [j \in 1 .. n |-> after[j].id]]

\* ReadNumaNode: an unreadable or negative number counts as node 0.
ReadNumaNode(n) == IF n < 0 THEN 0 ELSE n

\* virtio and auxiliary devices live one directory below their PCIe endpoint.
ResolveSingleDeviceLink(link) ==
    LET below == link.subsystem \in {"virtio", "auxiliary"}
        chain == BdfChain(IF below THEN Front(link.path) ELSE link.path)
    IN  IF /\ link.exists
           /\ link.subsystem = "pci" \/ (below /\ link.parent = "pci")
           /\ chain.bdfs # <<>>
        THEN [ok |-> TRUE, loc |-> [numa |-> ReadNumaNode(link.numa), root |-> chain.root,
                                    switches |-> Front(chain.bdfs), endpoint |-> Last(chain.bdfs)]]
        ELSE Failed

\* A bond is where its active slave is, or else its first slave with a PCIe device; `lower` is
\* what the directory lists when the bonding files are empty.
Slaves(dev) ==
    IF dev.active \o dev.slaves # <<>>
    THEN dev.active \o SelectSeq(dev.slaves, LAMBDA s : s \notin ToSet(dev.active))
    ELSE dev.lower
ResolveBond(dev, sysfs) ==
    LET found == SelectSeq([j \in 1 .. Len(Slaves(dev)) |->
                                ResolveSingleDeviceLink(sysfs[Slaves(dev)[j]].link)],
                           LAMBDA r : r.ok)
    IN  IF found = <<>> THEN Failed ELSE Head(found)

\* Bridges are refused; then a device of its own, then the slaves of a bond.
ResolveNetdevPciLocation(name, sysfs) ==
    LET dev == sysfs[name]
    IN  IF dev.bridge THEN Failed
        ELSE IF dev.link.exists THEN ResolveSingleDeviceLink(dev.link)
        ELSE IF dev.bonding THEN ResolveBond(dev, sysfs)
        ELSE Failed

-----------------------------------------------------------------------------
kSameEndpoint == 0
kSamePciSwitch == 1
kSameRootComplex == 2
kSameNumaNode == 3
kCrossNuma == 4

CommonSwitches(a, b) == Len(LongestCommonPrefix({a.switches, b.switches}))
GetPciDistance_deep(a, b) ==
    IF a.endpoint # <<>> /\ a.endpoint = b.endpoint THEN [relation |-> kSameEndpoint, hops |-> 0]
    ELSE IF a.root # 0 /\ a.root = b.root
    THEN [relation |-> IF a.switches = b.switches /\ a.switches # <<>> THEN kSamePciSwitch
                       ELSE kSameRootComplex,
          hops |-> Len(a.switches) + Len(b.switches) - 2 * CommonSwitches(a, b)]
    ELSE [relation |-> IF a.numa = b.numa THEN kSameNumaNode ELSE kCrossNuma, hops |-> -1]
GetPciDistance(a, b) ==
    IF a.endpoint # <<>> /\ a.endpoint = b.endpoint THEN [relation |-> kSameEndpoint, hops |-> 0]
    ELSE IF a.root # 0 /\ a.root = b.root
    THEN [relation |-> IF CommonSwitches(a, b) > 0 THEN kSamePciSwitch ELSE kSameRootComplex,
          hops |-> (Len(a.switches) - CommonSwitches(a, b) + 1)
                   + (Len(b.switches) - CommonSwitches(a, b) + 1)]
    ELSE [relation |-> IF a.numa >= 0 /\ a.numa = b.numa THEN kSameNumaNode ELSE kCrossNuma,
          hops |-> -1]

\* The edges between two devices in the tree: what only one of them has above it, and itself.
Above(loc) == ToSet(loc.switches) \cup {loc.endpoint}
TreeDistance(a, b) == Cardinality((Above(a) \ Above(b)) \cup (Above(b) \ Above(a)))
=============================================================================
