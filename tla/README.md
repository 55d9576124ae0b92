# A TLA+ verification of the peregrine transport

Peregrine moves memory between hosts. A user thread calls `Post` with a batch of reads
or writes for a peer, and learns of the end of the batch through a callback or through
`Poll`. An engine splits each request into chunks, spreads them over several channels
(TCP connections, RDMA queue pairs, or message channels) and collects the
acknowledgements. This directory models the transport, what it is built on and the
benchmark cluster that drives it in TLA+, checks the models with TLC and proves parts of
them with TLAPS.

Paths below are relative to `src/peregrine/src/`, those of the cluster to
`src/peregrine/`.

## 1. Inventory

| Part | Source | State | Modules |
|---|---|---|---|
| API | `api/transport.h`, `internal/transport_impl.cc` | none of its own | `Engine`, `PostService` |
| Engine | `internal/engine/engine*.cc` | `next_handle_`, queue of posts, send workers per peer, two trackers, threads | `Engine`, `ChunkSplit`, `EngineLife` |
| RequestTracker | `internal/request` | posts by (peer, handle), pending count, requests by id | `RequestTracker` |
| ChunkTracker | `internal/chunk/chunk_tracker.cc` | two bitsets, done and busy | `ChunkState`, `ChunkTracker`, `ChunkDelivery` |
| Worker, Transfer | `internal/engine/worker.cc`, `internal/transfer` | queues of infos and chunks, a send and a receive thread | `Worker`, `Transfer` |
| Headers | `internal/chunk/header*` | none | `WireHeader` |
| TcpManager, Poller | `internal/socket/tcp_manager*.cc`, `internal/event` | listeners, connectors, produced sockets, the interest set | `TcpManager` |
| Socket I/O | `internal/socket/socket_tcp.cc`, `tcp_socket_util.cc`, `internal/lib/iovec_cursor.h` | the place in a transfer | `StreamIo` |
| Control plane | `internal/control`, `internal/base` | own host info, cache of the peers' | `Control`, `HostMessages` |
| RDMA | `internal/rdma`, `internal/channel/channel_rdma.cc` | device objects, queue pairs, registrations, completions | `RdmaDevice`, `RdmaManager`, `RdmaMemory`, `RdmaChannel` |
| v1 API | `api/v1` | idle connections, route cache | `ConnPool`, `RouteCache` |
| Rate limiter | `internal/lib/rate_limiter.cc` | end of the reserved timeline | `RateLimiter` |
| Routing | `internal/routing` | route cache | `RouteCache` |
| NICs | `internal/nic`, `util/nic.cc` | the inventory | `NicInventory`, `PciTopology`, `NicChoice` |
| Tracing | `internal/trace` | ring of events, timelines | `TraceBuffer`, `TraceTimeline`, `TraceRenderer` |
| Benchmark cluster | `test/cluster` | orchestrator, node processes, instances | `ClusterSession`, `ClusterNode`, `InstancePool` |

`PROJECT.json` lists every part with its status, and maps every definition to the lines
it models.

**Who runs.** User threads (`Post`, `Poll`), the engine's main thread, the connection
manager's thread, a send and a receive thread for each worker, gRPC threads that run the
control plane's handlers, and whichever thread destroys the engine. Each tracker method
holds one mutex; callbacks run after it is released. A receive handler calls several
tracker methods, so other threads run between them.

**How the parts meet.** The main thread takes a post, asks the control plane for the
peer's host info, dials through `TcpManager` or `RdmaManager`, and gives the resulting
channels to workers. Workers move headers and payload through `Transfer`, which keeps
both trackers. The connection manager's thread turns accepted sockets into receive
workers.

**Two trackers.** `outgoing_` holds our writes and our replies to a peer's reads;
`incoming_` holds our reads and the posts received from peers. Posts made here have the
key `(Endpoint{}, handle)`, received ones `(peer, handle)`.

**What is hard.** A post's info travels on every channel and its data on several, so the
order between channels is arbitrary. Several threads finish chunks of one request at
once. Lookups and uses of a tracker entry are separate critical sections. Connections
break between any two messages. Descriptors are reused as soon as they are closed. Stop
and the destructors race everything else. RPCs are lost before or after they were
handled. System calls transfer any part of what they were given. `PROJECT.json` lists
these hazards line by line.

**What correct means.** A user hears of success once, and only after the last byte is in
place; bytes that were delivered stay; the peer is notified at most once, after the last
byte; no receive loop ends on a healthy connection; every accepted post completes when
nothing fails. Every socket, memory region and device object has one owner and is
released once, in order. Two hosts agree on what they told each other, and both ends of
a queue pair match. What threads share is consistent for every interleaving.

## 2. Modules

The data path is composed; the other parts interact through narrow interfaces and are
modelled one by one.

| Module | Models |
|---|---|
| `ChunkState` | `ChunkTracker`'s state and methods as operators on a record of two sets |
| `ChunkTracker` | several receive threads acquiring, writing and releasing chunks of one request |
| `ChunkDelivery` | abstract: chunks arrive, once each, and the request completes once |
| `ChunkSplit` | the splitting loop of `processWrite` |
| `RequestTracker` | `RequestTracker`'s methods as operators on one tracker value |
| `TransportState` | constants, variables and shared operators of the composition |
| `Engine`, `Worker`, `Transfer` | user and main thread; queues and send thread; receive thread, one action per critical section |
| `Transport` | composition of these with the network's faults, fairness, the properties |
| `PostService` | abstract: what `Post` promises to its user and to the peer |
| `WireHeader` | headers as words, their parsing, framing on streams and datagrams, draining |
| `TcpManager` | `Connect`, the poller loop step by step, expiry, `Stop`, the produced queues, the kernel's sockets |
| `EngineLife` | `TcpManager` with the engine's threads, workers and destructor |
| `StreamIo` | the loops of `Send` and `Recv` over partial system calls, and `IoVecCursor` |
| `Control` | coming up, serving and caching host infos, with restarts and lost calls |
| `HostMessages` | serialization and validation of host infos, requests and PSP tokens; endpoint texts |
| `RdmaDevice` | `RdmaDevice`, `RdmaContext` and `RdmaQPair` objects: creation with failures, destruction in order, choice of a GID |
| `RdmaManager` | `Connect` and the handler at the peer, against the manager's destruction |
| `RdmaMemory` | the table of registered buffers |
| `RdmaChannel` | `Write` polling for its completion, against `Shutdown` and the device |
| `ConnPool` | `Borrow`, `Return`, `CloseIdle`, `Close` and the dialling of `ConnectToPeer` |
| `RouteCache` | the caches of `Route::Check` and of `SourceIpRoutesToPeer` |
| `RateLimiter` | `BlockingRateLimiter` with threads that reserve and sleep |
| `TraceBuffer` | the lock-free ring, word by word with its memory ordering |
| `TraceTimeline`, `TraceRenderer` | from events to timelines, and from timelines to slices; the arrows between slices are left out |
| `NicInventory`, `PciTopology`, `NicChoice` | discovery and rails, places in the PCIe tree, the address to bind and the listeners to offer |
| `ClusterSession` | the orchestrator, its reader threads and the node processes |
| `ClusterNode` | the workload of one node, its callbacks and its sampler |
| `InstancePool` | the transports of a node, created and destroyed in parallel, and the buffer they share |
| `StructureProofs`, `TcpManagerProofs`, `PeeringProofs`, `ApiProofs` | theorems: chunks and instances; sockets and the engine that owns them; control plane and RDMA; pool, routes and rate limiter |
| `TransportLemmas`, `TransportMainProofs`, `TransportRecvProofs`, `TransportProofs` | theorems about the data path |
| `MC*` | instances for TLC |

Operators named `X_word` are faulty variants of `X`: each is a mistake one could make in
that code, and each is caught by the property it is paired with in `PROJECT.json`. No
specification uses them.

`MCApi`, `MCStructures`, `MCPeering` and `MCCluster` each hold several parts that share
no state. A variable `focus`, chosen at the start, says which part runs; the others stay
in their initial states. Every state of every part is reached, and no interleaving of
unrelated parts is explored.

### State and actions

* A tracker is a function from keys to entries; an entry has the callback, the
  pending count and the requests with their chunk sets, as `PostTracker` does.
* The main thread takes one post, connects if it has too few workers (`counts` is
  the number of channels `Connect` may return), and enqueues infos and chunks one
  worker call at a time.
* A send thread takes infos before chunks. A receive thread is a program counter
  `receiver[e].at`, with one value per point between two lock acquisitions of
  `recvDataStream` and `recvDataMsg`.
* A channel has two ends. A stream is a FIFO per direction with a bounded buffer, so
  that sends block; breaking it cuts an arbitrary suffix of each. A message channel
  delivers in any order, loses and duplicates. A one-sided channel writes remote
  memory and may report an error.
* Memory is a function from buffers to bytes, where a byte is tagged with the buffer
  and offset it came from. A misplaced byte is therefore visible. `StreamIo` does
  the same for bytes on a connection.
* In `TcpManager` a socket is a descriptor, and `socket[f]` what the kernel knows of
  it. A table is a set of descriptors; `dead` holds those a thread has taken out of
  a table and not closed yet. The poller, each caller and `Stop` have a program
  counter with one value per critical section or system call. A batch of events is
  taken at once, as `epoll_wait` does, and handled one by one.
* In `Control` and `RdmaManager` a call is a record in a set. It may be handled after
  its caller has given it up, and its answer may be lost.
* In `TraceBuffer` the words of a slot are written and read one by one: the relaxed
  ones in any order, the last one after (release) or before (acquire) them.
* In `ClusterSession` a process is a state and two pipes; ending the ssh process of
  a remote node closes the pipes only.

### Abstractions

* A request's id is the pair (post, position): the ids of two requests are taken to
  differ. In the composition a header is its kind and fields; `WireHeader` models
  what it is on the wire.
* The delay of an accept is covered by the arbitrary delay of the receive threads.
* `processRecvRead`'s `Add` and the push of the post are one step.
* The addresses a peer's resolver returns are part of the plan of posts.
* A user polls only posts made without a callback, as `api/transport.h:50` asks.
* The engine creates stream and one-sided channels; message channels are
  created by tests only, and have no retransmission. They are modelled since
  `Transfer` handles them.
* After an error a queue pair is unusable.
* The receive thread of an accepted channel belongs to its accepting node. Replies
  to a read use the responder's own send workers, as in the code.
* A bound on time is a step that may happen at any moment, except in `RateLimiter`,
  where time is a number.
* Texts are sequences of tokens, and a name or a key is a value that can only be
  compared. A conversion that may fail yields a set, empty on failure.
* `WireHeader` counts in words of four bytes, with a small radix: every field keeps
  its place and its number of bytes, and carries between bytes happen.
* Logging, metrics and the wording of errors are left out.

## 3. Runs

States are distinct states.

| Run | Instance | Question | States |
|---|---|---|---|
| `transport` | 2 writes, `Connect` returns 0, 1 or 2 channels; a write and a polled read over 1; a connection breaks under a write, 2 writes of which the resolver refuses one, or a read; a write and a read with a message lost and one duplicated; 2 posts and a one-sided error | counts of the trackers, loops survive a changing set of workers, no false completion, no second notification, entries lost only to repeated chunks, refinement of `PostService` | 118 609 |
| `liveness` | a read and a write over 1 channel that holds 1 message; a read over 2 | every post completes, the peer hears of it | 15 239 |
| `structures` | 3 receive threads, 3 chunks; lengths to 8; a ring of 2 slots; 3 events; 2 posts of 2 chunks on tracks; one host's NICs; 2 packets | see below | 660 367 |
| `api` | 2 threads, 3 descriptors, 2 peers; 2 threads and a change of routing; 2 consumers | see below | 163 901 |
| `tcp` | 1 listener, 2 more descriptors, 1 caller | one owner, no stale event, clean stop; connectors resolve | 126 806 |
| `engine_life` | the same with 1 post and 2 connections | destruction in order, and that it ends | 111 584 |
| `peering` | 2 hosts, 1 restart each; 2 devices; 3 writes; 3 buffer layouts; 3 device lists; 7 hosts' messages | see below | 116 166 |
| `cluster` | 1 server, 2 clients, one of them remote; 3 streams; 3 instances and 2 threads | success only with complete results, exact counts of streams, callbacks over before their stack frame is, no dangling buffer | 78 521 |

The runs in which TLC is expected to find a violation are in section 6.

`structures` asks, of each part on its own: receive threads exclude each other and
implement `ChunkDelivery`; the chunks tile the request; a quiet snapshot of the ring
holds the last events; timelines keep the earliest event of a stage; slices nest; rails
follow the hardware whatever the order of enumeration, and distances are ordered as
closeness is; the address bound is the best one and one to listen on; what is received
is what was sent, and a reader of a stream stays in step also when it drains a chunk.

`api` asks: each descriptor has one owner and is lent for its own peer although numbers
are reused; answers about routes agree and are true while routing stays; slots of the
rate limiter do not overlap.

`peering` asks: a fetched host info is not of a process that was dead before; both ends
of a queue pair match, and two hosts that connect to each other both return; failed
registrations leave nothing; a write that succeeds is delivered; bytes of a stream stay
in order and in place however system calls split them, and success means all of them;
verbs objects are released in order and none is lost; messages are accepted as what was
meant.

**Bounds.** Two nodes are the sender and the receiver; the third, in `same_handle`, is a
second peer. Two channels give every order between an info and the data of another
channel. Two requests in a batch make the difference between the end of a request and of
the batch; three bytes over two channels give unequal chunks. Two posts share channels
and queues. Handles run to 4 so that node A's first handle wraps. The third chunk in
`transport` reaches a third worker, which exists after a partial connect is topped up.
One loss, one duplicate and one break are the faults; the code has no retry, so more of
them repeat the same cases. In `tcp` two descriptors besides the listener let one be
closed and reused while the other is in use; the theorems of section 4 hold for any
number of descriptors and callers. Three descriptors in the pool are one more than its
callers hold. A ring of two slots with three events wraps. The timelines rendered have a
member with every stage in order and time between the stages, so that every kind of
slice appears with its real length (waiting for the engine, host info, sockets, waiting
for a worker, reading, waiting for the poll), and members in which stages are missing or
contradict each other: enqueued before the entry, acknowledged before it was sent, host
info after the end of the setup. The host of `NicInventory` has devices in each of the
five relations, and two below one switch at different depths. One restart makes an info
stale, one clear and one change of routing fall into any computation. `TmpWords` is less
than the largest packet, so that datagrams are cut and draining takes several reads. No
symmetry is used: plans name nodes, and liveness is checked.

**Deadlock.** Every instance ends: posts, calls, packets and restarts are bounded, and
engines, sessions and devices are destroyed in the end. So the runs do not check for
deadlock; that nothing gets stuck before is what the liveness properties say.

**Fairness.** Weak fairness for each thread: the operating system runs a thread that can
run. In addition: a user without a callback keeps polling; a connection that gets no
answer is given up by the system, as TCP does (`Resolve`). Nothing is assumed of users'
posts, of peers that connect, of whoever calls `Stop` or a destructor, of the network or
of the RDMA device; that a gRPC call is handled or given up once it was sent is gRPC's
promise, which the handler's fairness in `peering` stands for. `liveness` has no faults,
because the code does not retry; `tcp`, `engine_life` and `peering` have theirs.

## 4. Proofs

Every step of the proof modules is checked by TLAPS. The theorems hold for all values of
the constants that satisfy the assumptions named; TLC evaluates these assumptions in the
runs. Each proof rests on an inductive invariant, outlined below.

**Data path** (`TransportLemmas`, `TransportMainProofs`, `TransportRecvProofs`,
`TransportProofs`), from `PlanAssumption` (posts go to another node, have at least one
request, and requests are not empty) and `BuffersAssumption` (no request writes to a
buffer that another one uses; the two ends of a request differ; requests that send the
same buffer have its length). `ReportedIsDelivered`: a chunk that a sender counts as
done is in the memory of the receiver, for any plan of posts, nodes, channels and
faults. `ArrivedBytesStay`: no step takes arrived bytes back. The invariant `TInv` says
that there is a cut, the number of chunks each request was split into, with which
everything agrees: descriptors, queued chunks, trackers, messages on the wire and what
the receive threads hold. A chunk anywhere has the offset, length and payload the cut
gives it; a chunk is done in `outgoing_`, or acknowledged anywhere, only when its bytes
are in place. Lemmas about trackers and posts come first, then the steps of the main
thread and of the senders, then those of the receive thread, then the composition.

**Chunks** (`StructureProofs`). From `NAssumption` (at least one chunk), for every
number of chunks and set of threads: types (`TypeCorrect`), one writer per chunk
(`WritersAreExclusive`), done and acknowledged chunks are complete
(`DoneChunksAreIntact`), one completion (`RequestCompletesOnce`), no step changes a done
chunk (`DoneNeverChanges`), and the refinement of `ChunkDelivery`
(`TrackerImplementsDelivery`). That a done chunk is intact depends on what the thread
about to release it has read; that depends on nobody else holding the chunk; and one
completion depends on at most one thread being about to complete. `TrackerInv` adds what
each program counter implies, that a chunk has one holder, and the states of chunks.
From `RangeAssumption` (positive lengths and worker counts), for every length, chunk
count and worker count: the chunks tile what was enqueued (`SplitTilesBuffer`), the loop
ends at the end of the request (`SplitEndsAtLen`), sizes differ by at most one
(`SplitIsBalanced`). Tiling includes that no chunk is empty. The invariant adds the
closed form of the running offset, `i * q + min(i, r)`, which is what makes the last
chunk end at `len`.

**Instances** (`StructureProofs`), from `InstancesAssumption` (at least one instance and
one thread, no base port 0): `BufferPointersAreLive`, `CreatedIsComplete` and
`DestructionIsComplete`, for any numbers of instances, threads and ports. `InstInv` says
that no two threads hold the same index or port, that the live transports are those of
instances and of threads about to register one, that the buffer knows all instances but
those being destroyed, and what was done for every index drawn so far: a thread ends
only on an error or when all indices are drawn, so what is joined is complete.

**Sockets** (`TcpManagerProofs`), from `TcpAssumption` (finitely many descriptors,
listeners among them, a bounded backlog), for any descriptors, callers and pending
connections: `SocketsHaveOneOwner`, `InterestIsTheTables`, `NothingIsProducedAfterStop`,
`StoppedManagerIsEmpty`. `TcpInv` says which descriptor each thread holds at each step
(`CallersHold`, `PollerHolds`), that tables and threads are pairwise disjoint and a
socket is open exactly when one of them has it (`Owned`), and what is sealed and empty
at each step of `Stop` (`StopOK`). `EventsAreNeverStale`: an event of a batch is still
for the socket it was reported for, although others are closed and reused in the same
round. Its invariant adds what a socket in a table may be (`SocketsOK`) and that the
batch has one event for each socket, none for the one being handled, and is empty
outside the loop (`BatchOK`).

**Engine** (`TcpManagerProofs`), from `LifeAssumption` (the main thread is one of the
manager's callers, at least one connection per peer): `DestructorLeavesNothing`, for any
numbers of connections, posts and descriptors. `LifeInv` adds to `TcpInv` that what the
manager has produced is connected (`Connected`), whose sockets the engine holds
(`UsersOK`, `DialsOK`), and which threads have ended at each step of the destructor
(`LifeOK`).

**Hosts** (`PeeringProofs`), for any hosts, restarts, devices and connections.

* Control plane: `SharedInfoIsFinal` needs that an info which has left its host is of an
  older process or of a host that serves already (`Final`), since `self_` is written
  before. `FetchedInfoIsFresh` needs that a caller has at most one awaited call, made
  when the peer was not a later process than the one that answers.
* Queue pairs: `ConnectionsAlwaysMatch`, `HandlersHaveTheirManager` and
  `FailedAttemptsLeaveNothing`. `RdmaInv` follows a handshake: an attempt has a number
  of its own, so a late answer is never taken for that of another attempt (`ReqOK`,
  `Apart`; that no two connections share an end is only of interest with more than one
  connection, which the run does not have); an answer that is waited for names a queue
  pair that the peer has connected back, and to which no connection goes (`AnsweredOK`);
  what a peer has is not one of its own connections, so neither a failed attempt of the
  peer nor the first half of its destructor takes it away (`PeerHas`, kept by every
  step).
* One-sided writes: `SuccessfulWritesAreDelivered`. The completion queue holds
  completions of this write only, or none while the channel is usable.
* Memory, from `MemoryAssumption` (a list of devices, a largest address):
  `RegistrationsRollBack` and `KeysAreRight`. `MemoryInv` says that a table
  entry has one region for each device, with keys of its own, and that the regions are
  those of the table, those of the registration under way and those a longer
  registration has replaced (`MrsAreHeld`; the last are the subject of section 6).

**Callers' structures** (`ApiProofs`), for any threads.

* Pool, from `PoolAssumption` ("no descriptor" is none, the bounds are numbers):
  `PoolTypes`, `DescriptorsAreOwnedOnce`, `ConnectionsAreLentToTheirPeer`,
  `ClosedPoolIsEmpty`. As in `TcpManagerProofs`, ownership is stated without counting: no
  descriptor is twice in a list, or in two lists, or in a list and with a caller, and
  what is open is somewhere. Each step moves descriptors between two places, and one
  lemma covers all steps of that kind.
* Routes, from `RouteAssumption` (a host has at most one address of a family) and
  `LoopbackAssumption` (packets to loopback addresses, and no others, leave through the
  loopback interface), for the answers that are not those of a failed computation:
  `RouteAnswersAgree`, and, while the routing has not changed,
  `RouteAnswersAreTrue`. `RouteInv` says that the answers of `Route::Check` are the cached
  ones, and that before any change what a thread has found out and not stored yet is true.
* Rate limiter, from `RateAssumption` (sizes, the rate and the bounds are natural numbers):
  `RateTypeCorrect` and `SlotsNeverOverlap`. Every slot ends at or before `deadline_`,
  which is where the next one begins.

## 5. What is only model-checked

* Liveness under fairness (`EveryPostCompletes`, `PeerIsNotified`, `ConnectorsResolve`,
  `DestructorReturns`, `ConnectsReturn`) is out of the prover's reach.
* What loops compute needs induction over data: `StreamIsIntact`, `StaysInStep`,
  `EarliestIsKept`, `SlicesNest`, `RailsFollowTheHardware`, `DistanceIsCloseness`,
  `AutoBindIsBest`, `AcceptedAsMeant`.
* `PendingIsExact`, `NotifiedOnce`, `ImplementsService` and `OnlyRepeatsLoseTheirEntry` hold
  of the instances of the runs and not of every plan: section 6 shows what happens when
  two nodes use one handle. A theorem would have to assume that they do not, which the
  code does not ensure.
* `RecvLoopsSurvive`, `QuietSnapshotIsExact`, `HeldIsOwned`,
  `SuccessIsComplete` and `ActiveIsExact` have no proof yet.

After a failed lookup has ended a process, or a freed tracker is used, nothing is
claimed of that receive thread: it takes no more steps.

The busy case of `RecvAcquire` is in the composition because the code has it, but no
sender repeats a chunk on a second channel, so only `structures` reaches it.

## 6. Where the code and its documentation disagree

Two runs show `EveryPostCompletes` violated without any fault, although
`api/transport.h:32` says the callback of a post "is invoked once when the batch of
requests completes (either successfully or with an error)":

* `read_after_peer_post`: a reply to a read arrives on a channel on which the
  responder has posted before. `SetPeer` has recorded the responder, so the reply is
  looked up under its endpoint and not under `Endpoint{}`, is not found, and ends the
  receive loop (`transfer.cc:200`).
* `same_handle`: a reply to a read is registered in the responder's own handle space
  (`engine.cc:330`). If the responder has a write of its own under that handle, the
  read is not answered. With `StartApart` in place of `StartEqual` every post of the
  same plan completes.

The passing runs over two-sided channels have one posting node, which keeps these two
cases out of them.

* `late_duplicate`: `request_tracker.h:26` says of the tracker "It is thread-safe", and
  `assumptions.h:167` allows for duplicates. For a data message the receive handler
  calls `Check`, `GetChunkAddr` and `Find`, each of which locks the tracker by itself
  (`transfer.cc:338-349`). When a message of a read is duplicated, the second copy can
  pass `Check` before the first one completes the read; `OnReqComplete` erases the entry
  of a post with a callback (`request_tracker.cc:145`), and `Find` aborts or returns a
  tracker that is destroyed while it is used. `OnlyRepeatsLoseTheirEntry`, checked by
  `transport`, says that this is the only way: a repeated data message of a read that
  has been delivered. Streams do not repeat, and the entry of a write stays.

* `memory_leak`: `rdma_memory.h:42` says of the destructor that it "Automatically
  unregisters all memory regions across all devices". A second registration at the
  same base address, with a greater length, overwrites the entry of the first
  (`rdma_memory.cc:112`), and the memory regions of the first stay registered.
  `FailedRegistrationsRollBack` holds nevertheless: these are the only ones.

Read from the code, and not the subject of a run:

* `assumptions.h:134` says all chunks but the last have one size. `processWrite`
  spreads the remainder over the first chunks; what does hold is `ChunksBalanced`.
* When `Connect` returns no channel the post is dropped and its callback never runs;
  a TODO at `engine.cc:225` says so. `transport` includes such posts and shows that
  they do no harm to others.
* One-sided channels carry no post info (`worker.cc:63`), so a read over RDMA is never
  sent and the receiver of a write is not notified. Completion of reads and
  notification are claimed for two-sided channels only.

Limits that the properties state: a cached host info is never dropped, so only a fetched
one is fresh (`FetchedIsFresh`); lookups of memory keys are complete only when
registered buffers do not overlap (`LookupsAreRight`); the v1 route cache agrees with
itself only while routing is static (`AnswersAgree`), and a failed computation is told
as "not routable" and not cached, as `route_test.cc:98` wants; connectors may starve
while one listener's backlog never empties (`ConnectorsResolve`).

## 7. Not modelled

* The transport registry and options: a locked map from names to factories, one
  critical section per call.
* Metrics, histograms and the Python binding: nothing in the transport reads them, or
  they only forward.
* PSP beyond its messages: the functions are stubs in this tree. With it the threads
  of `ExchangePspTokens`, which use a listener found under a lock after releasing it.
* UDP sockets, and socket options.
* What is read from the system: netlink answers, sysfs files and `getifaddrs` are
  records; flags and their parsing. gRPC and the verbs library are external, and
  modelled by how the code uses them.
* The JSON of traces, and the cluster's command line, staging and reports.

## 8. Plan

1. Proofs for `RdmaDevice` and `ClusterNode`. 2. Composition of `EngineLife` with the
data path, so that posts are under way when the destructor runs; today `EngineLife` has
workers and loops, not their contents. 3. `ExchangePspTokens` against the poller, once
PSP is more than a stub.
