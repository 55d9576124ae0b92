------------------------------ MODULE RdmaDevice -----------------------------
(***************************************************************************)
(* The verbs objects of one RDMA manager (rdma/rdma_device.cc,              *)
(* rdma/rdma_context.cc, rdma/rdma_qpair.cc): RdmaDevice::Create opens the  *)
(* adapters of the host one by one, each of them a context, a protection    *)
(* domain (PD) and a completion queue (CQ); queue pairs and memory regions  *)
(* are made on them and all of it is given back in the end.  Every verbs    *)
(* call that makes an object may fail.  An object is busy, and cannot be    *)
(* given back, while another one is built on it.                            *)
(***************************************************************************)
EXTENDS Integers, Sequences, FiniteSets, SequencesExt

CONSTANTS
    DeviceLists,  \* what ibv_get_device_list may return
    GidTables,    \* the GID tables an adapter may have
    MaxQPairs     \* bound on the queue pairs ever made

VARIABLES
    opening,    \* where RdmaDevice::Create is; "up", "failed" or "destroyed" in the end
    list,       \* device_list
    pos,        \* index into it
    ctxs_,      \* the contexts, in the order of opening
    gids,       \* the GID table of each and the index chosen
    qps,        \* queue pairs, owned by a channel or by inbound_rdma_qps_
    made,       \* number of queue pairs ever made
    regions,    \* whether memory_ has a buffer registered with every device
    verbs,      \* the objects the library holds
    releasing   \* those the running thread is giving back, in order

deviceVars == <<opening, list, pos, ctxs_, gids, qps, made, regions, verbs, releasing>>

\* A device without a name, or no device at all, and the tags of a device's interfaces.
ListedDevices == [named : BOOLEAN, nets : SUBSET {"dontuse", "eth"}]
Entries == {"unreadable", "rocev1", "mapped", "global", "local"}
ASSUME DeviceAssumption ==
    /\ \A l \in DeviceLists : l \in Seq(ListedDevices)
    /\ \A t \in GidTables : t \in Seq(Entries)

List == <<"list", 0>>
Context(d) == <<"context", d>>
Pd(d) == <<"pd", d>>
Cq(d) == <<"cq", d>>
Mr(d) == <<"mr", d>>
QpCq(q) == <<"qpcq", q>>
Qp(q) == <<"qp", q>>

\* What an object of the library is built on.
BuiltOn(o) ==
    CASE o[1] \in {"pd", "cq"} -> {Context(o[2])}
      [] o[1] = "mr" -> {Pd(o[2])}
      [] o[1] = "qpcq" -> {Context(o[2].dev)}
      [] o[1] = "qp" -> {Pd(o[2].dev), QpCq(o[2])}
      [] OTHER -> {}

DeviceInit ==
    /\ opening = "start" /\ list = <<>> /\ pos = 1
    /\ ctxs_ = <<>> /\ gids = <<>> /\ qps = <<>> /\ made = 0 /\ regions = FALSE
    /\ verbs = {} /\ releasing = <<>>

----------------------------------------------------------------------------
(* RdmaDevice::Create *)

\* A missing or an empty list ends it.
getDeviceList ==
    /\ opening = "start"
    /\ \E l \in DeviceLists :
         /\ list' = l
         /\ opening' = IF l = <<>> THEN "failed" ELSE "scan"
         /\ verbs' = IF l = <<>> THEN {} ELSE {List}
    /\ UNCHANGED <<pos, ctxs_, gids, qps, made, regions, releasing>>

Scanning == opening = "scan" /\ releasing = <<>>

\* All the interfaces of the adapter, and there are some, are tagged "dontuse".
ShouldIgnoreDevice(device) == device.nets # {} /\ \A net \in device.nets : net = "dontuse"

Usable(device) == device.named /\ ~ShouldIgnoreDevice(device)

SkipDevice ==
    /\ Scanning /\ pos <= Len(list) /\ ~Usable(list[pos])
    /\ pos' = pos + 1
    /\ UNCHANGED <<opening, list, ctxs_, gids, qps, made, regions, verbs, releasing>>

\* A step of RdmaContext::Create that makes an object or, when it fails, gives back what
\* the steps before it have made and goes on with the next device.
MakeOrUndo(object, then, undo) ==
    /\ \/ verbs' = verbs \cup {object} /\ opening' = then /\ UNCHANGED <<pos, releasing>>
       \/ releasing' = undo /\ opening' = "scan" /\ pos' = pos + 1 /\ UNCHANGED verbs
    /\ UNCHANGED <<list, ctxs_, gids, qps, made, regions>>

openDevice ==
    /\ Scanning /\ pos <= Len(list) /\ Usable(list[pos])
    /\ MakeOrUndo(Context(pos), "pd", <<>>)

allocPd == opening = "pd" /\ MakeOrUndo(Pd(pos), "cq", <<Context(pos)>>)

createCq == opening = "cq" /\ MakeOrUndo(Cq(pos), "gid", <<Pd(pos), Context(pos)>>)

\* In one pass: the first RoCEv2 entry with a mapped IPv4 address ends the search, the first
\* with a global IPv6 address is kept in case there is none.  Entries count from 0.
findRoutableGid(table) ==
    LET Look(found, j) ==
          IF found.gid # -1 THEN found
          ELSE IF table[j + 1] = "mapped" THEN [found EXCEPT !.gid = j]
          ELSE IF table[j + 1] = "global" /\ found.fallback = -1 THEN [found EXCEPT !.fallback = j]
          ELSE found
        found == FoldLeft(Look, [gid |-> -1, fallback |-> -1], [j \in 1..Len(table) |-> j - 1])
    IN IF found.gid # -1 THEN found.gid ELSE IF found.fallback # -1 THEN found.fallback ELSE 0

\* ibv_query_gid fails, and the three objects go, or the context joins the others.  A port
\* that cannot be queried has no table.
QueryGid ==
    /\ opening = "gid"
    /\ opening' = "scan" /\ pos' = pos + 1
    /\ \/ releasing' = <<Cq(pos), Pd(pos), Context(pos)>> /\ UNCHANGED <<ctxs_, gids>>
       \/ \E table \in GidTables \cup {<<>>} :
            /\ ctxs_' = Append(ctxs_, pos)
            /\ gids' = Append(gids, [table |-> table, index |-> findRoutableGid(table)])
            /\ UNCHANGED releasing
    /\ UNCHANGED <<list, qps, made, regions, verbs>>

EndScan_early ==
    /\ Scanning /\ pos > Len(list)
    /\ opening' = IF ctxs_ = <<>> THEN "failed" ELSE "up"
    /\ releasing' = IF ctxs_ = <<>> THEN <<>> ELSE <<List>>
    /\ UNCHANGED <<list, pos, ctxs_, gids, qps, made, regions, verbs>>

\* The list is freed; without any context the call fails.
EndScan ==
    /\ Scanning /\ pos > Len(list)
    /\ opening' = IF ctxs_ = <<>> THEN "failed" ELSE "up"
    /\ releasing' = <<List>>
    /\ UNCHANGED <<list, pos, ctxs_, gids, qps, made, regions, verbs>>

----------------------------------------------------------------------------
(* Queue pairs and memory regions *)

Up == opening = "up" /\ releasing = <<>>

ObjectsOf(q) == <<Qp(q), QpCq(q)>>

\* RdmaQPair::Create: a CQ, the queue pair on it, and Init(), which may fail and then the
\* destructor gives both back.  A failure to make the CQ changes nothing.
CreateQPair(d, owner) ==
    /\ Up /\ made < MaxQPairs
    /\ made' = made + 1
    /\ LET q == [dev |-> d, id |-> made']
       IN \/ /\ verbs' = verbs \cup {QpCq(q)} /\ releasing' = <<QpCq(q)>>
             /\ UNCHANGED qps
          \/ /\ verbs' = verbs \cup ToSet(ObjectsOf(q)) /\ releasing' = ObjectsOf(q)
             /\ UNCHANGED qps
          \/ /\ verbs' = verbs \cup ToSet(ObjectsOf(q))
             /\ qps' = Append(qps, [qp |-> q, owner |-> owner])
             /\ UNCHANGED releasing
    /\ UNCHANGED <<opening, list, pos, ctxs_, gids, regions>>

\* RdmaMemory::RegisterMemory with every device; its own failures are in RdmaMemory.
RegisterBuffer ==
    /\ Up /\ ~regions
    /\ regions' = TRUE
    /\ verbs' = verbs \cup {Mr(ctxs_[k]) : k \in DOMAIN ctxs_}
    /\ UNCHANGED <<opening, list, pos, ctxs_, gids, qps, made, releasing>>

UnregisterBuffer ==
    /\ Up /\ regions
    /\ regions' = FALSE
    /\ releasing' = [k \in DOMAIN ctxs_ |-> Mr(ctxs_[k])]
    /\ UNCHANGED <<opening, list, pos, ctxs_, gids, qps, made, verbs>>

\* The channel that owns a queue pair is freed with its worker.
DestroyChannel(k) ==
    /\ Up /\ qps[k].owner = "channel"
    /\ qps' = SubSeq(qps, 1, k - 1) \o SubSeq(qps, k + 1, Len(qps))
    /\ releasing' = ObjectsOf(qps[k].qp)
    /\ UNCHANGED <<opening, list, pos, ctxs_, gids, made, regions, verbs>>

----------------------------------------------------------------------------
(* ~RdmaManager *)

\* ~RdmaContext
ContextObjects(d) == <<Cq(d), Pd(d), Context(d)>>

\* The members go in the reverse of the order they are declared in: inbound_rdma_qps_,
\* memory_, device_.  The channels are gone by then.
FreeMembers ==
    /\ Up /\ \A k \in DOMAIN qps : qps[k].owner = "inbound"
    /\ opening' = "destroyed"
    /\ releasing' =
         FlattenSeq([k \in DOMAIN qps |-> ObjectsOf(qps[k].qp)])
         \o (IF regions THEN [k \in DOMAIN ctxs_ |-> Mr(ctxs_[k])] ELSE <<>>)
         \o FlattenSeq([k \in DOMAIN ctxs_ |-> ContextObjects(ctxs_[k])])
    /\ qps' = <<>> /\ regions' = FALSE /\ ctxs_' = <<>> /\ gids' = <<>>
    /\ UNCHANGED <<list, pos, made, verbs>>

\* One ibv_destroy, ibv_dealloc, ibv_dereg, ibv_close or ibv_free call.
Release ==
    /\ releasing # <<>>
    /\ verbs' = verbs \ {Head(releasing)}
    /\ releasing' = Tail(releasing)
    /\ UNCHANGED <<opening, list, pos, ctxs_, gids, qps, made, regions>>

DeviceNext ==
    \/ getDeviceList \/ SkipDevice \/ openDevice \/ allocPd \/ createCq \/ QueryGid \/ EndScan
    \/ \E k \in DOMAIN ctxs_, owner \in {"channel", "inbound"} : CreateQPair(ctxs_[k], owner)
    \/ \E k \in DOMAIN qps : DestroyChannel(k)
    \/ RegisterBuffer \/ UnregisterBuffer \/ FreeMembers \/ Release

----------------------------------------------------------------------------
\* The objects the adapter being opened has so far.
Unfinished ==
    CASE opening = "pd" -> {Context(pos)}
      [] opening = "cq" -> {Context(pos), Pd(pos)}
      [] opening = "gid" -> {Context(pos), Pd(pos), Cq(pos)}
      [] OTHER -> {}

\* The library holds what RdmaDevice, RdmaMemory, the channels and inbound_rdma_qps_ own
\* or are giving back, and nothing else: a device that fails half way, a failed Create()
\* and ~RdmaManager leave nothing behind.  Nor is anything given back while another object
\* is built on it: the library would answer EBUSY, which the code at most logs.
HeldIsOwned ==
    /\ verbs = UNION {
         {o \in {List} : opening \in {"scan", "pd", "cq", "gid"}},
         ToSet(releasing),
         Unfinished,
         UNION {ToSet(ContextObjects(ctxs_[k])) : k \in DOMAIN ctxs_},
         {o \in {Mr(ctxs_[k]) : k \in DOMAIN ctxs_} : regions},
         UNION {ToSet(ObjectsOf(qps[k].qp)) : k \in DOMAIN qps}}
    /\ releasing # <<>> => \A o \in verbs : Head(releasing) \notin BuiltOn(o)

=============================================================================
