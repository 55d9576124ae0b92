------------------------------ MODULE RdmaMemory -----------------------------
(***************************************************************************)
(* The table of registered buffers (rdma/rdma_memory.cc): one memory region *)
(* (MR) per buffer and device.  The RDMA manager makes every call under its *)
(* mu_, so calls do not overlap; registering with a device may fail.        *)
(***************************************************************************)
EXTENDS Naturals, Sequences

CONSTANTS
    Devices,   \* names of the active devices, in the order of RdmaDevice::Contexts
    MaxAddr,   \* buffers lie in 1..MaxAddr
    MaxKey     \* bound on the MRs ever created

ASSUME MemoryAssumption == Devices \in Seq(STRING) /\ MaxAddr \in Nat

VARIABLES
    registered_regions_,  \* base address -> length and MRs
    mrs,                  \* the MRs the devices hold
    nextKey,              \* key of the next MR
    replaced,             \* MRs whose table entry was overwritten
    memory                \* "alive" or "destroyed"

memoryVars == <<registered_regions_, mrs, nextKey, replaced, memory>>

DeviceNames == {Devices[i] : i \in 1..Len(Devices)}
Lengths == 1..MaxAddr
NoRegion == [length |-> 0, device_mrs |-> {}]
NoMr == [device |-> "none", base |-> 0, length |-> 0, key |-> 0]

Bases == DOMAIN registered_regions_
Overwrite(table, a, region) ==
    [b \in DOMAIN table \cup {a} |-> IF b = a THEN region ELSE table[b]]

MemoryInit ==
    /\ registered_regions_ = [a \in {} |-> NoRegion]
    /\ mrs = {} /\ replaced = {}
    /\ nextKey = 1
    /\ memory = "alive"

\* Only the region with the greatest base not above addr is looked at.
findRegion(addr, length) ==
    LET found == {b \in Bases : /\ b <= addr
                                /\ \A c \in Bases : c <= addr => c <= b
                                /\ addr + length <= b + registered_regions_[b].length}
    IN IF found = {} THEN NoRegion ELSE registered_regions_[CHOOSE b \in found : TRUE]

MrOf(region, device) ==
    IF \E m \in region.device_mrs : m.device = device
    THEN CHOOSE m \in region.device_mrs : m.device = device ELSE NoMr

\* GetLKey and GetRKey read their key from it.
GetMemoryRegion(addr, length, device) == MrOf(findRegion(addr, length), device)

\* Of the region with the lowest base.
GetDefaultKey(device) ==
    LET first == {b \in Bases : \A c \in Bases : b <= c}
    IN IF first = {} THEN 0 ELSE MrOf(registered_regions_[CHOOSE b \in first : TRUE], device).key

\* The MRs ibv_reg_mr makes on the first n devices.
NewMrs(addr, length, n) ==
    {[device |-> Devices[i], base |-> addr, length |-> length, key |-> nextKey + i - 1] : i \in 1..n}

RegisterMemory_leaky(addr, length) ==
    /\ memory = "alive" /\ addr + length <= MaxAddr + 1
    /\ nextKey + Len(Devices) <= MaxKey + 1
    /\ findRegion(addr, length) = NoRegion
    /\ \E n \in 0..Len(Devices) :
         LET made == NewMrs(addr, length, n)
         IN /\ nextKey' = nextKey + n
            /\ mrs' = mrs \cup made
            /\ IF n < Len(Devices)
               THEN UNCHANGED <<registered_regions_, replaced>>
               ELSE /\ registered_regions_' = Overwrite(registered_regions_, addr,
                                               [length |-> length, device_mrs |-> made])
                    /\ replaced' = replaced \cup
                         (IF addr \in Bases THEN registered_regions_[addr].device_mrs ELSE {})
    /\ UNCHANGED memory

\* A range inside a registered region is refused.  When a device fails, the MRs made so
\* far are unregistered; when all succeed, the entry of this base is set or overwritten.
RegisterMemory(addr, length) ==
    /\ memory = "alive" /\ addr + length <= MaxAddr + 1
    /\ nextKey + Len(Devices) <= MaxKey + 1
    /\ findRegion(addr, length) = NoRegion
    /\ \E n \in 0..Len(Devices) :
         LET made == NewMrs(addr, length, n)
         IN /\ nextKey' = nextKey + n
            /\ IF n < Len(Devices)
               THEN mrs' = (mrs \cup made) \ made /\ UNCHANGED <<registered_regions_, replaced>>
               ELSE /\ mrs' = mrs \cup made
                    /\ registered_regions_' = Overwrite(registered_regions_, addr,
                                               [length |-> length, device_mrs |-> made])
                    /\ replaced' = replaced \cup
                         (IF addr \in Bases THEN registered_regions_[addr].device_mrs ELSE {})
    /\ UNCHANGED memory

UnregisterMemory(addr) ==
    /\ memory = "alive" /\ addr \in Bases
    /\ mrs' = mrs \ registered_regions_[addr].device_mrs
    /\ registered_regions_' = [b \in Bases \ {addr} |-> registered_regions_[b]]
    /\ UNCHANGED <<nextKey, replaced, memory>>

Destroy ==
    /\ memory = "alive"
    /\ memory' = "destroyed"
    /\ mrs' = mrs \ UNION {registered_regions_[b].device_mrs : b \in Bases}
    /\ registered_regions_' = [a \in {} |-> NoRegion]
    /\ UNCHANGED <<nextKey, replaced>>

MemoryNext ==
    \/ \E addr \in 1..MaxAddr : UnregisterMemory(addr) \/ \E length \in Lengths : RegisterMemory(addr, length)
    \/ Destroy

----------------------------------------------------------------------------
Overlap(b, c) ==
    /\ b < c + registered_regions_[c].length
    /\ c < b + registered_regions_[b].length

\* A key the table hands out, for a range or as a default, is of an MR the device still
\* has; one for a range covers the range.  If buffers are registered as the single slabs
\* the code asks for, lookups find every registered range.
LookupsAreRight ==
    /\ \A d \in DeviceNames :
         /\ GetDefaultKey(d) # 0 => \E m \in mrs : m.device = d /\ m.key = GetDefaultKey(d)
         /\ \A b \in Bases : (\A c \in Bases : b <= c) => GetDefaultKey(d) # 0
    /\ \A a \in 1..MaxAddr, l \in Lengths, d \in DeviceNames :
         LET m == GetMemoryRegion(a, l, d)
         IN /\ m # NoMr => m \in mrs /\ m.base <= a /\ a + l <= m.base + m.length
            /\ /\ \A b, c \in Bases : b # c => ~Overlap(b, c)
               /\ \E b \in Bases : b <= a /\ a + l <= b + registered_regions_[b].length
               => m # NoMr

\* The devices hold the MRs of the table, and besides them only those of entries that a
\* longer registration at the same base has overwritten: a registration that fails half
\* way leaves nothing on any device.
FailedRegistrationsRollBack ==
    mrs = replaced \cup UNION {registered_regions_[b].device_mrs : b \in Bases}

\* ~RdmaMemory leaves no MR on any device.
DestructorUnregistersAll == memory = "destroyed" => mrs = {}
=============================================================================
