-------------------------- MODULE TransportLemmas ---------------------------
(***************************************************************************)
(* What the transport keeps: the invariant under which a chunk that is      *)
(* reported as done has arrived, and lemmas about the operators of the      *)
(* model, none of which mentions a step.                                    *)
(*                                                                          *)
(* The number of chunks a request is cut into depends on how many channels  *)
(* the engine had when it took the post, and is then written in             *)
(* descriptors, chunks, messages and trackers all over the two nodes.  The  *)
(* invariant says that one cut exists that all of them agree with, and      *)
(* keeps that cut, once chosen for a request, as long as the behaviour.     *)
(***************************************************************************)
EXTENDS Transport, TLAPS

-----------------------------------------------------------------------------
\* Sequences, as far as what they hold.

IsSeq(s) == \E S : s \in Seq(S)

\* The empty queue holds nothing.
LEMMA EmptySeqHolds == IsSeq(<<>>) /\ Range(<<>>) = {}
BY DEF IsSeq, Range

\* A function on 1 .. n is a sequence.
LEMMA FunctionIsSeq ==
    ASSUME NEW n \in Nat, NEW S, NEW s \in [1 .. n -> S]
    PROVE  s \in Seq(S)
OBVIOUS

\* Append adds one element to what a queue holds.
LEMMA AppendHolds ==
    ASSUME NEW s, IsSeq(s), NEW x
    PROVE  IsSeq(Append(s, x)) /\ Range(Append(s, x)) = Range(s) \cup {x}
<1>1. PICK S : s \in Seq(S)
  BY Zenon DEF IsSeq
<1>2. s \in Seq(S \cup {x}) /\ Append(s, x) \in Seq(S \cup {x})
  BY <1>1
<1>3. DOMAIN s = 1..Len(s) /\ DOMAIN Append(s, x) = 1..(Len(s) + 1) /\ Len(s) \in Nat
  BY <1>1, <1>2
<1>4. \A k \in 1..Len(s) : Append(s, x)[k] = s[k]
  BY <1>1, <1>2
<1>5. Append(s, x)[Len(s) + 1] = x
  BY <1>1, <1>2
<1>6. \A y : y \in Range(Append(s, x)) <=> y \in Range(s) \/ y = x
  BY <1>3, <1>4, <1>5 DEF Range
<1> QED BY Zenon, <1>2, <1>6 DEF IsSeq

\* A part of a queue holds nothing that the queue does not.
LEMMA SubSeqHolds ==
    ASSUME NEW s, IsSeq(s), NEW m \in 1..(Len(s) + 1), NEW n \in 0..Len(s)
    PROVE  IsSeq(SubSeq(s, m, n)) /\ Range(SubSeq(s, m, n)) \subseteq Range(s)
<1>1. PICK S : s \in Seq(S)
  BY Zenon DEF IsSeq
<1>2. SubSeq(s, m, n) \in Seq(S) /\ DOMAIN s = 1..Len(s) /\ Len(s) \in Nat
  BY <1>1
<1>3. \A k \in DOMAIN SubSeq(s, m, n) : m + k - 1 \in DOMAIN s /\ SubSeq(s, m, n)[k] = s[m + k - 1]
  BY SMTT(60), <1>1, <1>2
<1> QED BY Zenon, <1>2, <1>3 DEF IsSeq, Range

\* The head and the tail of a queue are in it.
LEMMA TailHolds ==
    ASSUME NEW s, IsSeq(s), s # <<>>
    PROVE  /\ IsSeq(Tail(s)) /\ Range(Tail(s)) \subseteq Range(s) /\ Head(s) \in Range(s)
           /\ 1 \in DOMAIN s /\ Head(s) = s[1]
           /\ \A k \in DOMAIN Tail(s) : k + 1 \in DOMAIN s /\ Tail(s)[k] = s[k + 1] /\ k \in Nat \ {0}
<1>1. PICK S : s \in Seq(S)
  BY Zenon DEF IsSeq
<1>2. Tail(s) \in Seq(S) /\ DOMAIN s = 1..Len(s) /\ Len(s) \in Nat /\ Len(s) # 0 /\ Head(s) = s[1]
  BY <1>1
<1>3. \A k \in DOMAIN Tail(s) : k + 1 \in DOMAIN s /\ Tail(s)[k] = s[k + 1] /\ k \in Nat \ {0}
  BY <1>1, <1>2
<1> QED BY <1>2, <1>3 DEF IsSeq, Range

\* A queue without its k-th message holds only messages it held before.
LEMMA WithoutHolds ==
    ASSUME NEW s, IsSeq(s), NEW k \in DOMAIN s
    PROVE  IsSeq(Without(s, k)) /\ Range(Without(s, k)) \subseteq Range(s)
<1>1. PICK S : s \in Seq(S)
  BY Zenon DEF IsSeq
<1>2. DOMAIN s = 1..Len(s) /\ Len(s) \in Nat
  BY <1>1
<1> DEFINE a == SubSeq(s, 1, k - 1)
           b == SubSeq(s, k + 1, Len(s))
<1>3. a \in Seq(S) /\ b \in Seq(S)
  BY <1>1, <1>2
<1>4. Range(a) \subseteq Range(s) /\ Range(b) \subseteq Range(s)
  <2>1. /\ 1 \in 1..(Len(s) + 1) /\ k - 1 \in 0..Len(s)
        /\ k + 1 \in 1..(Len(s) + 1) /\ Len(s) \in 0..Len(s)
    BY <1>2
  <2> QED BY Zenon, <2>1, SubSeqHolds
<1> HIDE DEF a, b
<1>5. a \o b \in Seq(S) /\ \A j \in DOMAIN (a \o b) : (a \o b)[j] \in Range(a) \cup Range(b)
  BY <1>3 DEF Range
<1>6. Range(a \o b) \subseteq Range(s)
  BY Zenon, <1>4, <1>5 DEF Range
<1> QED BY Zenon, <1>5, <1>6 DEF IsSeq, Without, a, b

-----------------------------------------------------------------------------
\* The cut of a request into chunks.

\* Quotients: dividing a length into n parts of at least one byte each.
LEMMA Division ==
    ASSUME NEW a \in Nat, NEW b \in Nat \ {0}
    PROVE  /\ a \div b \in Nat /\ a % b \in Nat /\ a % b < b
           /\ a = b * (a \div b) + (a % b)
<1>1. a % b \in 0 .. (b - 1)
  OBVIOUS
<1>2. a = b * (a \div b) + (a % b)
  OBVIOUS
<1>3. a \div b \in Nat
  OBVIOUS
<1> QED BY <1>1, <1>2, <1>3

\* Each chunk that the engine cuts lies within the request and is not empty, for every
\* length and every number of chunks (engine.cc, the cut of EnqueueChunks).
LEMMA ChunkInside ==
    ASSUME NEW len \in Nat \ {0}, NEW n \in 1..len, NEW i \in 0..(n - 1)
    PROVE  /\ ChunkOffset(len, n, i) \in Nat /\ ChunkLen(len, n, i) \in Nat \ {0}
           /\ ChunkOffset(len, n, i) + ChunkLen(len, n, i) <= len
<1> DEFINE q == len \div n
           r == len % n
<1>1. q \in Nat /\ r \in Nat /\ r < n /\ len = n * q + r
  BY Division
<1> HIDE DEF q, r
<1>2. q >= 1
  <2>1. CASE q = 0
    BY <1>1, <2>1
  <2> QED BY <1>1, <2>1
<1>3. PICK d \in Nat : n = i + 1 + d
  <2>1. n - i - 1 \in Nat /\ n = i + 1 + (n - i - 1)
    OBVIOUS
  <2> QED BY Zenon, <2>1
<1>4. i * q \in Nat /\ d * q \in Nat /\ n * q = i * q + q + d * q
  BY <1>1, <1>3
<1>5. ChunkLen(len, n, i) = q + (IF i < r THEN 1 ELSE 0)
  BY Zenon DEF ChunkLen, q, r
<1>6. ChunkOffset(len, n, i) = i * q + (IF i < r THEN i ELSE r)
  BY Zenon DEF ChunkOffset, Least, q, r
<1>7. i < r => d * q + r >= i + 1
  BY SMTT(60), <1>1, <1>4
<1> QED BY SMTT(60), <1>1, <1>2, <1>4, <1>5, <1>6, <1>7

\* Of a request: who sends its bytes, who gets them, from which buffer to which.
Sender(r) == IF Plan[r[1]].op = "write" THEN Plan[r[1]].node ELSE Plan[r[1]].peer
Target(r) == IF Plan[r[1]].op = "write" THEN Plan[r[1]].peer ELSE Plan[r[1]].node
Src(r) == SrcAddr(r[1], r[2])
Dst(r) == DstAddr(r[1], r[2])
LenOf(r) == Plan[r[1]].reqs[r[2]].len

-----------------------------------------------------------------------------
\* The cut of a behaviour: into how many chunks the main thread cut each request,
\* zero for those it has not come to.  It is decided when the post is taken from
\* posts_ and is then written in descriptors, chunks and trackers.

Cuts == {cut \in [Requests -> Nat] : \A r \in Requests : cut[r] <= LenOf(r)}

IsCut(r, cut) == r \in Requests /\ cut[r] # 0

\* The bytes of chunk i of request r, and that they are in place in memory M.
ChunkBytes(r, cut, i) ==
    ChunkOffset(LenOf(r), cut[r], i) ..
    ChunkOffset(LenOf(r), cut[r], i) + ChunkLen(LenOf(r), cut[r], i) - 1
InPlace(r, cut, i, M) ==
    /\ Dst(r) # NullAddr
    /\ \A k \in ChunkBytes(r, cut, i) : M[Dst(r)][k] = <<Src(r), k>>

\* The chunks that have arrived.
Landed(cut, M) ==
    {x \in Requests \X Nat : x[2] < cut[x[1]] /\ InPlace(x[1], cut, x[2], M)}

-----------------------------------------------------------------------------
\* A chunk of a request that travels on channel c.
OnItsWay(x, c, cut) ==
    /\ IsCut(x.reqid, cut) /\ Src(x.reqid) # NullAddr
    /\ c[1] = Sender(x.reqid) /\ c[2] = Target(x.reqid)
    /\ x.index \in Nat /\ x.index < cut[x.reqid]
    /\ x.offset = ChunkOffset(LenOf(x.reqid), cut[x.reqid], x.index)
    /\ x.len = ChunkLen(LenOf(x.reqid), cut[x.reqid], x.index)

ChunkOK(x, c, cut) ==
    OnItsWay(x, c, cut) /\ x.laddr = Src(x.reqid) /\ x.raddr \in {NullAddr, Dst(x.reqid)}

DataOK(x, c, cut) ==
    /\ x \in [type : {"data"}, handle : {x.handle}, reqid : {x.reqid}, index : {x.index},
              len : {x.len}, offset : {x.offset}, payload : {x.payload}]
    /\ OnItsWay(x, c, cut)
    /\ \A k \in 0 .. x.len - 1 : x.payload[k] = <<Src(x.reqid), x.offset + k>>

AckOK(x, L) == x.type = "data" /\ x.len = 0 /\ <<x.reqid, x.index>> \in L

\* The descriptors of a post.
ListOK(list, p, cut) ==
    /\ p \in Posts /\ DOMAIN list = ReqsOf(p)
    /\ \A j \in ReqsOf(p) :
         /\ list[j] \in [reqid : {<<p, j>>}, nchunks : {cut[<<p, j>>]}, len : {LenOf(<<p, j>>)},
                         op : {Plan[p].op}, raddr : {Plan[p].reqs[j].raddr}, meta : {<<p, j>>}]
         /\ cut[<<p, j>>] # 0
InfoOK(x, c, p, cut) ==
    /\ x.type = "info" /\ x.peer = c[1]
    /\ Plan[p].node = c[1] /\ Plan[p].peer = c[2] /\ ListOK(x.reqs, p, cut)

\* A local post, and the reply to a read.
LocalOK(x, m, p) == p \in Posts /\ Plan[p].node = m /\ x.peer = Plan[p].peer /\ x.reqs = RequestsOf(p)
ReplyOK(x, m, p, cut) ==
    /\ p \in Posts /\ Plan[p].op = "read" /\ Plan[p].peer = m /\ x.peer = Plan[p].node
    /\ DOMAIN x.reqs = ReqsOf(p) /\ DOMAIN x.req_infos = ReqsOf(p)
    /\ \A j \in ReqsOf(p) :
         /\ x.reqs[j].op = "write" /\ x.reqs[j].laddr = Src(<<p, j>>) /\ Src(<<p, j>>) # NullAddr
         /\ x.req_infos[j] \in [reqid : {<<p, j>>}, nchunks : {cut[<<p, j>>]}, len : {LenOf(<<p, j>>)},
                                op : {"write"}, raddr : {NullAddr}, meta : {<<p, j>>}]
         /\ cut[<<p, j>>] # 0

IsPost(x) ==
    x \in [peer : {x.peer}, handle : {x.handle}, reqs : {x.reqs}, req_infos : {x.req_infos}]
IsFresh(x) == x.req_infos = <<>>
PostOf(x) == x.reqs[1].meta[1]

\* A post that the main thread has not come to, and one that it works on.
PostOK(x, m, cut) ==
    /\ IsPost(x) /\ IsSeq(x.reqs)
    /\ \/ IsFresh(x) /\ \E p \in Posts : LocalOK(x, m, p) /\ \A j \in ReqsOf(p) : cut[<<p, j>>] = 0
       \/ ~IsFresh(x) /\ \E p \in Posts : ReplyOK(x, m, p, cut)
QueueOK(q, m, cut) ==
    /\ IsSeq(q) /\ \A x \in Range(q) : PostOK(x, m, cut)
    /\ \A j, k \in DOMAIN q : IsFresh(q[j]) /\ IsFresh(q[k]) /\ PostOf(q[j]) = PostOf(q[k]) => j = k

MainOK(x, m, cut) ==
    \/ x = MainIdle
    \/ /\ x \in [at : {"infos", "chunks"}, post : {x.post}, w : {x.w}, r : {x.r}, i : Nat]
       /\ IsPost(x.post) /\ IsSeq(x.post.reqs) /\ x.r \in DOMAIN x.post.reqs
       /\ x.i < x.post.req_infos[x.r].nchunks
       /\ \E p \in Posts :
            \/ /\ LocalOK(x.post, m, p) /\ ListOK(x.post.req_infos, p, cut)
               /\ x.at = "chunks" => Plan[p].op = "write"
            \/ ReplyOK(x.post, m, p, cut) /\ x.at = "chunks"

-----------------------------------------------------------------------------
\* A request in a tracker, whose chunks that are done have arrived.
ReqOK(q, r, cut, L) ==
    /\ IsCut(r, cut)
    /\ q \in [chunks : {q.chunks}, raddr : {q.raddr}]
    /\ q.chunks \in [total : {cut[r]}, done : {q.chunks.done}, busy : {q.chunks.busy}]
    /\ \A i \in q.chunks.done : <<r, i>> \in L
EntryOK(x, cut, L) ==
    /\ x \in [req_map : {x.req_map}, pending_reqs : {x.pending_reqs},
              on_complete : {x.on_complete}, is_initiator : {x.is_initiator}]
    /\ \A r \in DOMAIN x.req_map : ReqOK(x.req_map[r], r, cut, L)
TrackerOK(t, cut, L) == \A key \in DOMAIN t : EntryOK(t[key], cut, L)

\* The addresses kept for the requests whose bytes come to node m.
AimsAt(x, m) == \A r \in DOMAIN x.req_map : Target(r) = m => x.req_map[r].raddr = Dst(r)
TargetsOK(t, m) == \A key \in DOMAIN t : AimsAt(t[key], m)

-----------------------------------------------------------------------------
MsgOK(x, e, cut, L) ==
    \/ e[2] = "acc" /\ \E p \in Posts : InfoOK(x, e[1], p, cut)
    \/ e[2] = "acc" /\ DataOK(x, e[1], cut)
    \/ e[2] = "conn" /\ AckOK(x, L)
WireOK(s, e, cut, L) == IsSeq(s) /\ \A x \in Range(s) : MsgOK(x, e, cut, L)

Looking == {"find", "acquire", "payload", "full", "short", "complete", "ack"}
ReceiverOK(x, e, cut, L) ==
    /\ x \in [at : {x.at}, msg : {x.msg}, dst : {x.dst}, cb : {x.cb}]
    /\ e[2] = "conn" => x.at \in {"run", "stop", "callback", "abort"}
    /\ x.at \in {"addr"} \cup Looking => DataOK(x.msg, e[1], cut)
    /\ x.at \in Looking => x.dst = Dst(x.msg.reqid) /\ x.dst # NullAddr
    /\ x.at \in {"full", "complete", "ack"} => <<x.msg.reqid, x.msg.index>> \in L
    /\ x.at = "recv_read" => \E p \in Posts :
         /\ InfoOK(x.msg, e[1], p, cut) /\ Plan[p].op = "read"
         /\ \A j \in ReqsOf(p) : Src(<<p, j>>) # NullAddr

SenderOK(x, L) == x.at = "update" => <<x.msg.reqid, x.msg.index>> \in L

MemOK(M) ==
    /\ DOMAIN M = Addrs /\ \A a \in Addrs : DOMAIN M[a] = 0 .. BufferLen(a) - 1
    /\ \A r \in Requests : Src(r) # NullAddr =>
         \A k \in DOMAIN M[Src(r)] : M[Src(r)][k] = <<Src(r), k>>

\* Every byte that is in its place in memory M is in its place in memory M2.
Stays(M, M2) ==
    \A r \in Requests : Dst(r) # NullAddr =>
        \A k \in DOMAIN M[Dst(r)] : M[Dst(r)][k] = <<Src(r), k>> => M2[Dst(r)][k] = M[Dst(r)][k]

-----------------------------------------------------------------------------
\* The invariant, for a cut and the chunks L that have arrived.

Shapes ==
    /\ DOMAIN posts = Nodes /\ DOMAIN main = Nodes /\ DOMAIN outgoing = Nodes /\ DOMAIN incoming = Nodes
    /\ DOMAIN infos = Channels /\ DOMAIN chunks = Channels /\ DOMAIN sender = Channels
    /\ DOMAIN wire = Ends /\ DOMAIN receiver = Ends /\ DOMAIN outcome = Posts
    /\ workers \in [Nodes -> [Nodes -> Nat]]
    /\ env \in [posts : {env.posts}, kind : {env.kind}, counts : SUBSET Nat, buffer : {env.buffer},
                breaks : {env.breaks}, loss : {env.loss}, dup : {env.dup}]
PostsOK(cut) ==
    /\ \A m \in Nodes : QueueOK(posts[m], m, cut)
    /\ \A m \in Nodes : \A x \in Range(posts[m]) : IsFresh(x) => outcome[PostOf(x)] # "none"
    /\ \A r \in Requests : outcome[r[1]] = "none" => cut[r] = 0
MainsOK(cut) == \A m \in Nodes : MainOK(main[m], m, cut)
OutgoingOK(cut, L) == \A m \in Nodes : TrackerOK(outgoing[m], cut, L)
IncomingOK(cut, L) == \A m \in Nodes : TrackerOK(incoming[m], cut, L) /\ TargetsOK(incoming[m], m)
InfosOK(cut) ==
    \A c \in Channels :
        IsSeq(infos[c]) /\ \A x \in Range(infos[c]) : \E p \in Posts : InfoOK(x, c, p, cut)
ChunksOK(cut) == \A c \in Channels : IsSeq(chunks[c]) /\ \A x \in Range(chunks[c]) : ChunkOK(x, c, cut)
SendersOK(L) == \A c \in Channels : SenderOK(sender[c], L)
WiresOK(cut, L) == \A e \in Ends : WireOK(wire[e], e, cut, L)
ReceiversOK(cut, L) == \A e \in Ends : ReceiverOK(receiver[e], e, cut, L)

Agrees(cut, L) ==
    /\ Shapes /\ PostsOK(cut) /\ MainsOK(cut) /\ OutgoingOK(cut, L) /\ IncomingOK(cut, L)
    /\ InfosOK(cut) /\ ChunksOK(cut) /\ SendersOK(L) /\ WiresOK(cut, L) /\ ReceiversOK(cut, L)

TInv == MemOK(mem) /\ \E cut \in Cuts : Agrees(cut, Landed(cut, mem))

-----------------------------------------------------------------------------
\* Requests and their buffers.

\* A request names a post and one of its Request descriptors; its two nodes differ.
LEMMA Journey ==
    ASSUME NEW r \in Requests
    PROVE  /\ r[1] \in Posts /\ r[2] \in ReqsOf(r[1]) /\ r = <<r[1], r[2]>>
           /\ LenOf(r) \in Nat \ {0}
           /\ Plan[r[1]].node # Plan[r[1]].peer /\ Plan[r[1]].op \in {"read", "write"}
           /\ Sender(r) # Target(r)
BY SMTT(60), PlanAssumption DEF Requests, ReqsOf, LenOf, Sender, Target

\* Every descriptor of a post is a request.
LEMMA PostRequests ==
    ASSUME NEW p \in Posts, NEW j \in ReqsOf(p)
    PROVE  <<p, j>> \in Requests /\ LenOf(<<p, j>>) = Plan[p].reqs[j].len /\ LenOf(<<p, j>>) \in Nat \ {0}
BY PlanAssumption DEF Requests, ReqsOf, LenOf

\* The vector of requests of a post has a first element.
LEMMA FirstRequest ==
    ASSUME NEW p \in Posts
    PROVE  1 \in ReqsOf(p) /\ IsSeq(Plan[p].reqs) /\ Len(Plan[p].reqs) \in Nat
           /\ ReqsOf(p) = 1 .. Len(Plan[p].reqs)
<1>1. Plan[p].reqs \in Seq(Range(Plan[p].reqs)) /\ Plan[p].reqs # <<>>
  BY Zenon, PlanAssumption
<1> QED BY <1>1 DEF ReqsOf, IsSeq

\* The two buffers of a request are as long as the request.
LEMMA Lengths ==
    ASSUME NEW r \in Requests
    PROVE  /\ Src(r) # NullAddr => Src(r) \in Addrs /\ BufferLen(Src(r)) = LenOf(r)
           /\ Dst(r) # NullAddr => Dst(r) \in Addrs /\ BufferLen(Dst(r)) = LenOf(r)
<1> SUFFICES ASSUME NEW a \in BuffersOf(r)
             PROVE  a \in Addrs /\ BufferLen(a) = LenOf(r)
  BY Zenon DEF BuffersOf, Src, Dst
<1>1. a \in Addrs
  BY Zenon DEF Addrs
<1> DEFINE s == CHOOSE s \in Requests : a \in BuffersOf(s)
<1>2. s \in Requests /\ a \in BuffersOf(s)
  OBVIOUS
<1>3. BufferLen(a) = LenOf(s)
  BY Zenon DEF BufferLen, LenOf
<1> HIDE DEF s
<1>4. CASE s = r
  BY Zenon, <1>1, <1>3, <1>4
<1>5. CASE s # r
  <2>1. a # DstAddr(r[1], r[2]) /\ a # DstAddr(s[1], s[2])
    BY Zenon, <1>2, <1>5, BuffersAssumption
  <2>2. a = SrcAddr(r[1], r[2]) /\ a = SrcAddr(s[1], s[2]) /\ a # NullAddr
    BY Zenon, <1>2, <2>1 DEF BuffersOf
  <2>3. LenOf(s) = LenOf(r)
    BY Zenon, <1>2, <2>2, BuffersAssumption DEF LenOf
  <2> QED BY Zenon, <1>1, <1>3, <2>3
<1> QED BY Zenon, <1>4, <1>5

\* The destination of a request is no buffer of another request.
LEMMA Apart ==
    ASSUME NEW r \in Requests, NEW s \in Requests, Dst(r) # NullAddr
    PROVE  /\ Dst(s) = Dst(r) => s = r
           /\ Src(s) # Dst(r)
<1>1. CASE s = r
  BY Zenon, <1>1, BuffersAssumption DEF Src, Dst
<1>2. CASE s # r
  <2>1. Dst(r) \notin BuffersOf(s)
    BY Zenon, <1>2, BuffersAssumption DEF Dst
  <2> QED BY Zenon, <2>1 DEF BuffersOf, Src, Dst
<1> QED BY Zenon, <1>1, <1>2

-----------------------------------------------------------------------------
\* Storing the bytes of a chunk in their place.

Stored(M, a, offset, bytes) ==
    [M EXCEPT ![a] =
        [k \in DOMAIN @ |-> IF k - offset \in DOMAIN bytes THEN bytes[k - offset] ELSE @[k]]]

\* Storing the bytes of a chunk, or the first of them, at the chunk's offset of its
\* destination leaves every source alone, keeps in place what is in place, and when
\* the bytes are all there the chunk has landed.
LEMMA StoreLands ==
    ASSUME NEW M, MemOK(M), NEW cut \in Cuts,
           NEW r \in Requests, Dst(r) # NullAddr, cut[r] # 0,
           NEW i \in 0 .. (cut[r] - 1), NEW m \in Nat,
           NEW bytes, DOMAIN bytes = 0 .. (m - 1),
           \A k \in 0 .. (m - 1) : bytes[k] = <<Src(r), ChunkOffset(LenOf(r), cut[r], i) + k>>
    PROVE  LET M2 == Stored(M, Dst(r), ChunkOffset(LenOf(r), cut[r], i), bytes)
           IN  /\ MemOK(M2) /\ Landed(cut, M) \subseteq Landed(cut, M2) /\ Stays(M, M2)
               /\ m = ChunkLen(LenOf(r), cut[r], i) => <<r, i>> \in Landed(cut, M2)
<1> DEFINE o == ChunkOffset(LenOf(r), cut[r], i)
           l == ChunkLen(LenOf(r), cut[r], i)
           M2 == Stored(M, Dst(r), o, bytes)
<1>0. cut[r] \in 1 .. LenOf(r) /\ LenOf(r) \in Nat \ {0}
  BY Journey DEF Cuts
<1>1. o \in Nat /\ l \in Nat \ {0} /\ o + l <= LenOf(r)
  BY Zenon, <1>0, ChunkInside
<1>2. Dst(r) \in Addrs /\ BufferLen(Dst(r)) = LenOf(r)
  BY Zenon, Lengths
<1>3. DOMAIN M2 = Addrs /\ \A a \in Addrs : DOMAIN M2[a] = DOMAIN M[a]
  BY Zenon, <1>2 DEF MemOK, Stored
<1>4. \A a \in Addrs : a # Dst(r) => M2[a] = M[a]
  BY Zenon, <1>2 DEF MemOK, Stored
<1>5. \A k \in DOMAIN M[Dst(r)] : M2[Dst(r)][k] = IF k - o \in 0 .. (m - 1) THEN bytes[k - o] ELSE M[Dst(r)][k]
  BY Zenon, <1>2 DEF MemOK, Stored
<1>5a. DOMAIN M[Dst(r)] = 0 .. (LenOf(r) - 1)
  BY Zenon, <1>2 DEF MemOK
<1> HIDE DEF M2, o, l
<1>6. \A k \in 0 .. (LenOf(r) - 1) :
         /\ k - o \in 0 .. (m - 1) => M2[Dst(r)][k] = <<Src(r), k>>
         /\ k - o \notin 0 .. (m - 1) => M2[Dst(r)][k] = M[Dst(r)][k]
  <2> SUFFICES ASSUME NEW k \in 0 .. (LenOf(r) - 1)
               PROVE  /\ k - o \in 0 .. (m - 1) => M2[Dst(r)][k] = <<Src(r), k>>
                      /\ k - o \notin 0 .. (m - 1) => M2[Dst(r)][k] = M[Dst(r)][k]
    OBVIOUS
  <2>1. o + (k - o) = k
    BY <1>0, <1>1
  <2>2. k - o \in 0 .. (m - 1) => bytes[k - o] = <<Src(r), k>>
    BY Zenon, <2>1 DEF o
  <2> QED BY ZenonT(60), <1>5, <1>5a, <2>2
<1>7. MemOK(M2)
  <2>1. \A s \in Requests : Src(s) # NullAddr => Src(s) \in Addrs /\ Src(s) # Dst(r)
    BY Zenon, Lengths, Apart
  <2> QED BY Zenon, <1>3, <1>4, <2>1 DEF MemOK
<1>8. ASSUME NEW x \in Landed(cut, M) PROVE x \in Landed(cut, M2)
  <2>1. x \in Requests \X Nat /\ x[2] < cut[x[1]] /\ InPlace(x[1], cut, x[2], M)
    BY Zenon, <1>8 DEF Landed
  <2>2. Dst(x[1]) # NullAddr /\ Dst(x[1]) \in Addrs
    BY Zenon, <2>1, Lengths DEF InPlace
  <2>3. CASE x[1] # r
    <3>1. Dst(x[1]) # Dst(r)
      BY Zenon, <2>1, <2>2, <2>3, Apart
    <3>2. InPlace(x[1], cut, x[2], M2)
      BY ZenonT(60), <1>4, <2>1, <2>2, <3>1 DEF InPlace
    <3> QED BY Zenon, <2>1, <3>2 DEF Landed
  <2>4. CASE x[1] = r
    <3>1. x[2] \in 0 .. (cut[r] - 1)
      BY <1>0, <2>1, <2>4
    <3>2. /\ ChunkOffset(LenOf(r), cut[r], x[2]) \in Nat /\ ChunkLen(LenOf(r), cut[r], x[2]) \in Nat \ {0}
          /\ ChunkOffset(LenOf(r), cut[r], x[2]) + ChunkLen(LenOf(r), cut[r], x[2]) <= LenOf(r)
      BY ZenonT(60), <1>0, <3>1, ChunkInside
    <3>3. ChunkBytes(r, cut, x[2]) \subseteq 0 .. (LenOf(r) - 1)
      BY SMTT(60), <1>0, <3>2 DEF ChunkBytes
    <3>4. \A k \in ChunkBytes(r, cut, x[2]) : M[Dst(r)][k] = <<Src(r), k>>
      BY Zenon, <2>1, <2>4 DEF InPlace
    <3>5. \A k \in ChunkBytes(r, cut, x[2]) : M2[Dst(r)][k] = <<Src(r), k>>
      BY Zenon, <1>6, <3>3, <3>4
    <3>6. InPlace(x[1], cut, x[2], M2)
      BY Zenon, <2>4, <3>5 DEF InPlace
    <3> QED BY Zenon, <2>1, <3>6 DEF Landed
  <2> QED BY Zenon, <2>3, <2>4
<1>10. Stays(M, M2)
  <2> SUFFICES ASSUME NEW s \in Requests, Dst(s) # NullAddr, NEW k \in DOMAIN M[Dst(s)],
                      M[Dst(s)][k] = <<Src(s), k>>
               PROVE  M2[Dst(s)][k] = M[Dst(s)][k]
    BY Zenon DEF Stays
  <2>1. CASE s = r
    BY Zenon, <1>5a, <1>6, <2>1
  <2>2. CASE s # r
    <3>1. Dst(s) \in Addrs /\ Dst(s) # Dst(r)
      BY Zenon, <2>2, Lengths, Apart
    <3> QED BY Zenon, <1>4, <3>1
  <2> QED BY Zenon, <2>1, <2>2
<1>9. ASSUME m = l PROVE <<r, i>> \in Landed(cut, M2)
  <2>0. ChunkBytes(r, cut, i) = o .. o + l - 1
    BY Zenon DEF ChunkBytes, o, l
  <2>1. \A k \in ChunkBytes(r, cut, i) : k \in 0 .. (LenOf(r) - 1) /\ k - o \in 0 .. (m - 1)
    BY SMTT(60), <1>0, <1>1, <1>9, <2>0
  <2>2. InPlace(r, cut, i, M2)
    BY Zenon, <1>6, <2>1 DEF InPlace
  <2>3. i \in Nat /\ i < cut[r]
    BY <1>0
  <2> QED BY Zenon, <2>2, <2>3 DEF Landed
<1> QED BY Zenon, <1>7, <1>8, <1>9, <1>10 DEF M2, o, l

-----------------------------------------------------------------------------
\* Trackers.

\* Put: replacing or adding a good entry keeps a tracker good.
LEMMA PutKeeps ==
    ASSUME NEW t, NEW cut, NEW L, TrackerOK(t, cut, L), NEW key, NEW x, EntryOK(x, cut, L)
    PROVE  /\ TrackerOK(Put(t, key, x), cut, L)
           /\ \A m : TargetsOK(t, m) /\ AimsAt(x, m) => TargetsOK(Put(t, key, x), m)
BY Zenon DEF TrackerOK, TargetsOK, Put

\* Erase keeps a tracker good.
LEMMA EraseKeeps ==
    ASSUME NEW t, NEW cut, NEW L, TrackerOK(t, cut, L), NEW key
    PROVE  /\ TrackerOK(Erase(t, key), cut, L)
           /\ \A m : TargetsOK(t, m) => TargetsOK(Erase(t, key), m)
BY Zenon DEF TrackerOK, TargetsOK, Erase, Restrict

\* A new PostTracker has no request yet.
LEMMA NewEntryOK ==
    ASSUME NEW cb, NEW b, NEW cut, NEW L
    PROVE  /\ EntryOK(NewPostTracker(cb, b), cut, L)
           /\ DOMAIN NewPostTracker(cb, b).req_map = {}
           /\ \A m : AimsAt(NewPostTracker(cb, b), m)
BY DEF EntryOK, NewPostTracker, AimsAt

\* PostTrackers::Add(handle, on_complete) keeps a tracker good.
LEMMA AddHandleKeeps ==
    ASSUME NEW t, NEW cut, NEW L, TrackerOK(t, cut, L), NEW h, NEW cb
    PROVE  /\ TrackerOK(AddHandle(t, h, cb), cut, L)
           /\ \A m : TargetsOK(t, m) => TargetsOK(AddHandle(t, h, cb), m)
BY Zenon, PutKeeps, NewEntryOK DEF AddHandle

\* PostTrackers::Add(handle, reqs, peer) keeps a tracker good when the descriptors carry
\* the cut, and its addresses when the resolved ones are the destinations.
LEMMA AddReqsKeeps ==
    ASSUME NEW t, NEW cut, NEW L, TrackerOK(t, cut, L), NEW h, NEW peer, NEW resolve, NEW reqs,
           \A j \in DOMAIN reqs : IsCut(reqs[j].reqid, cut) /\ reqs[j].nchunks = cut[reqs[j].reqid]
    PROVE  /\ TrackerOK(AddReqs(t, h, reqs, peer, resolve), cut, L)
           /\ \A m : /\ TargetsOK(t, m)
                     /\ \A j \in DOMAIN reqs : Target(reqs[j].reqid) = m =>
                          ResolvedAddr(reqs[j], resolve) = Dst(reqs[j].reqid)
                     => TargetsOK(AddReqs(t, h, reqs, peer, resolve), m)
<1> DEFINE key == <<peer, h>>
           pt == EntryFor(t, h, peer)
           oc == AddOutcome(t, h, reqs, peer, resolve)
           rm == NewReqMap(reqs, resolve)
           none == [pt EXCEPT !.req_map = <<>>, !.pending_reqs = 0]
           full == [pt EXCEPT !.req_map = rm, !.pending_reqs = PendingReqs(reqs, oc)]
<1>1. EntryOK(pt, cut, L)
  BY Zenon, NewEntryOK DEF EntryFor, TrackerOK
<1>2. \/ AddReqs(t, h, reqs, peer, resolve) = t
      \/ AddReqs(t, h, reqs, peer, resolve) = Put(t, key, none)
      \/ AddReqs(t, h, reqs, peer, resolve) = Put(t, key, full)
  <2> HIDE DEF oc, pt
  <2>1. CASE oc = "populated"
    BY Zenon, <2>1 DEF AddReqs, oc, pt
  <2>2. CASE oc = "unresolved"
    BY Zenon, <2>2 DEF AddReqs, oc, pt
  <2>3. CASE oc # "populated" /\ oc # "unresolved"
    BY Zenon, <2>3 DEF AddReqs, oc, pt
  <2> QED BY Zenon, <2>1, <2>2, <2>3
<1> HIDE DEF oc, pt
<1>3. EntryOK(none, cut, L) /\ \A m : AimsAt(none, m)
  <2>1. none.req_map = <<>>
    BY Zenon, <1>1 DEF EntryOK
  <2>2. none \in [req_map : {none.req_map}, pending_reqs : {none.pending_reqs},
              on_complete : {none.on_complete}, is_initiator : {none.is_initiator}]
    BY Zenon, <1>1 DEF EntryOK
  <2> QED BY <2>1, <2>2 DEF EntryOK, AimsAt
<1>4. \A r \in DOMAIN rm : \E q \in Range(reqs) :
         q.reqid = r /\ rm[r] = [chunks |-> NewChunks(q.nchunks), raddr |-> ResolvedAddr(q, resolve)]
  <2> SUFFICES ASSUME NEW r \in DOMAIN rm
               PROVE \E q \in Range(reqs) :
         q.reqid = r /\ rm[r] = [chunks |-> NewChunks(q.nchunks), raddr |-> ResolvedAddr(q, resolve)]
    OBVIOUS
  <2>1. r \in {reqs[j].reqid : j \in DOMAIN reqs}
    BY Zenon DEF NewReqMap
  <2>2. \E q \in Range(reqs) : q.reqid = r
    BY Zenon, <2>1 DEF Range
  <2> DEFINE d == CHOOSE q \in Range(reqs) : q.reqid = r
  <2>3. d \in Range(reqs) /\ d.reqid = r
    BY Zenon, <2>2
  <2>4. rm[r] = [chunks |-> NewChunks(d.nchunks), raddr |-> ResolvedAddr(d, resolve)]
    BY Zenon, <2>1 DEF NewReqMap
  <2> HIDE DEF d
  <2> QED BY ZenonT(60), <2>3, <2>4
<1>5. full.req_map = rm
  BY Zenon, <1>1 DEF EntryOK
<1>6. full \in [req_map : {full.req_map}, pending_reqs : {full.pending_reqs},
              on_complete : {full.on_complete}, is_initiator : {full.is_initiator}]
  BY Zenon, <1>1 DEF EntryOK
<1> HIDE DEF full, none, rm
<1>7. ASSUME NEW r \in DOMAIN rm PROVE ReqOK(rm[r], r, cut, L)
  <2>1. PICK q \in Range(reqs) :
         q.reqid = r /\ rm[r] = [chunks |-> NewChunks(q.nchunks), raddr |-> ResolvedAddr(q, resolve)]
    BY Zenon, <1>4
  <2>2. IsCut(r, cut) /\ q.nchunks = cut[r]
    BY Zenon, <2>1 DEF Range
  <2>3. rm[r].chunks = [total |-> cut[r], done |-> {}, busy |-> {}]
    BY <2>1, <2>2 DEF NewChunks
  <2> QED BY <2>1, <2>2, <2>3 DEF ReqOK
<1>8. EntryOK(full, cut, L)
  BY ZenonT(60), <1>5, <1>6, <1>7 DEF EntryOK
<1>9. ASSUME NEW m, \A j \in DOMAIN reqs : Target(reqs[j].reqid) = m =>
                          ResolvedAddr(reqs[j], resolve) = Dst(reqs[j].reqid)
      PROVE  AimsAt(full, m)
  <2> SUFFICES ASSUME NEW r \in DOMAIN rm, Target(r) = m PROVE rm[r].raddr = Dst(r)
    BY Zenon, <1>5 DEF AimsAt
  <2>1. PICK q \in Range(reqs) :
         q.reqid = r /\ rm[r] = [chunks |-> NewChunks(q.nchunks), raddr |-> ResolvedAddr(q, resolve)]
    BY Zenon, <1>4
  <2>2. PICK j \in DOMAIN reqs : q = reqs[j]
    BY Zenon DEF Range
  <2> QED BY <1>9, <2>1, <2>2
<1>10. TrackerOK(AddReqs(t, h, reqs, peer, resolve), cut, L)
  BY ZenonT(60), <1>2, <1>3, <1>8, PutKeeps
<1> QED BY Zenon, <1>2, <1>3, <1>8, <1>9, <1>10, PutKeeps
-----------------------------------------------------------------------------
\* Replacing the chunks of a request by chunks whose done ones have landed.
LEMMA ChunksKeep ==
    ASSUME NEW x, NEW cut, NEW L, EntryOK(x, cut, L), NEW r \in DOMAIN x.req_map, NEW ct,
           ct \in [total : {cut[r]}, done : {ct.done}, busy : {ct.busy}],
           \A i \in ct.done : <<r, i>> \in L
    PROVE  /\ EntryOK([x EXCEPT !.req_map[r].chunks = ct], cut, L)
           /\ \A m : AimsAt(x, m) => AimsAt([x EXCEPT !.req_map[r].chunks = ct], m)
<1> DEFINE y == [x EXCEPT !.req_map[r].chunks = ct]
           rm == [x.req_map EXCEPT ![r].chunks = ct]
<1>1. ReqOK(x.req_map[r], r, cut, L)
  BY Zenon DEF EntryOK
<1>2. y.req_map = rm
  BY Zenon DEF EntryOK
<1>3. y \in [req_map : {y.req_map}, pending_reqs : {y.pending_reqs},
              on_complete : {y.on_complete}, is_initiator : {y.is_initiator}]
  BY Zenon DEF EntryOK
<1>4. DOMAIN rm = DOMAIN x.req_map /\ \A s \in DOMAIN x.req_map : s # r => rm[s] = x.req_map[s]
  OBVIOUS
<1>5. rm[r] = [x.req_map[r] EXCEPT !.chunks = ct]
  OBVIOUS
<1> HIDE DEF y, rm
<1>6. rm[r].chunks = ct /\ rm[r].raddr = x.req_map[r].raddr /\ rm[r] \in [chunks : {rm[r].chunks}, raddr : {rm[r].raddr}]
  BY Zenon, <1>1, <1>5 DEF ReqOK
<1>7. ReqOK(rm[r], r, cut, L)
  BY Zenon, <1>1, <1>6 DEF ReqOK
<1>8. \A s \in DOMAIN rm : ReqOK(rm[s], s, cut, L) /\ rm[s].raddr = x.req_map[s].raddr
  BY Zenon, <1>4, <1>6, <1>7 DEF EntryOK
<1>9. EntryOK(y, cut, L)
  BY Zenon, <1>2, <1>3, <1>8 DEF EntryOK
<1>10. \A m : AimsAt(x, m) => AimsAt(y, m)
  BY Zenon, <1>2, <1>4, <1>8 DEF AimsAt
<1> QED BY Zenon, <1>9, <1>10 DEF y

\* PostTrackers::Update for a chunk that has landed keeps a tracker good.
LEMMA UpdateKeeps ==
    ASSUME NEW t, NEW cut, NEW L, TrackerOK(t, cut, L), NEW h, NEW r, NEW i,
           ~UpdateAborts(t, h, r), <<r, i>> \in L
    PROVE  TrackerOK(Update(t, h, r, i), cut, L)
<1> DEFINE key == <<NoPeer, h>>
           x == t[key]
           ct == SetChunk(x.req_map[r].chunks, i)
<1>1. CASE key \notin DOMAIN t
  BY Zenon, <1>1 DEF Update
<1>2. CASE key \in DOMAIN t
  <2>1. r \in DOMAIN x.req_map /\ EntryOK(x, cut, L)
    BY Zenon, <1>2 DEF UpdateAborts, TrackerOK
  <2>2. ReqOK(x.req_map[r], r, cut, L)
    BY Zenon, <2>1 DEF EntryOK
  <2>3. ct.done = x.req_map[r].chunks.done \cup {i} /\ ct \in [total : {cut[r]}, done : {ct.done}, busy : {ct.busy}]
    BY Zenon, <2>2 DEF ReqOK, SetChunk
  <2>4. \A k \in ct.done : <<r, k>> \in L
    BY Zenon, <2>2, <2>3 DEF ReqOK
  <2>5. AfterSet(t, h, r, i) = [x EXCEPT !.req_map[r].chunks = ct]
    BY ZenonT(60) DEF AfterSet
  <2> HIDE DEF ct, x
  <2>6. EntryOK(AfterSet(t, h, r, i), cut, L)
    BY SMTT(60), <2>1, <2>3, <2>4, <2>5, ChunksKeep
  <2> QED BY Zenon, <2>6, PutKeeps, EraseKeeps DEF Update
<1> QED BY Zenon, <1>1, <1>2

\* PostTrackers::OnReqComplete keeps a tracker good.
LEMMA OnReqCompleteKeeps ==
    ASSUME NEW t, NEW cut, NEW L, TrackerOK(t, cut, L), NEW h, NEW peer
    PROVE  /\ TrackerOK(OnReqComplete(t, h, peer), cut, L)
           /\ \A m : TargetsOK(t, m) => TargetsOK(OnReqComplete(t, h, peer), m)
<1> DEFINE key == <<peer, h>>
           u == [t EXCEPT ![key].pending_reqs = @ - 1]
<1>1. CASE key \notin DOMAIN t
  BY Zenon, <1>1 DEF OnReqComplete
<1>2. CASE key \in DOMAIN t
  <2>1. DOMAIN u = DOMAIN t /\ \A k \in DOMAIN t : k # key => u[k] = t[k]
    OBVIOUS
  <2>2. u[key] = [t[key] EXCEPT !.pending_reqs = @ - 1]
    BY Zenon, <1>2
  <2>3. EntryOK(t[key], cut, L)
    BY Zenon, <1>2 DEF TrackerOK
  <2> HIDE DEF u
  <2>4. u[key].req_map = t[key].req_map /\ EntryOK(u[key], cut, L)
    BY Zenon, <2>2, <2>3 DEF EntryOK
  <2>5. TrackerOK(u, cut, L) /\ \A m : TargetsOK(t, m) => TargetsOK(u, m)
    BY <1>2, <2>1, <2>4 DEF TrackerOK, TargetsOK, AimsAt
  <2>6. OnReqComplete(t, h, peer) \in {u, Erase(t, key)}
    BY Zenon, <1>2 DEF OnReqComplete, u
  <2> QED BY Zenon, <2>5, <2>6, EraseKeeps
<1> QED BY Zenon, <1>1, <1>2

\* Acquire and Release through a reference keep a tracker good.
LEMMA WithChunksKeeps ==
    ASSUME NEW t, NEW cut, NEW L, TrackerOK(t, cut, L), NEW h, NEW r, NEW peer, HasReq(t, h, r, peer), NEW ct,
           ct \in [total : {cut[r]}, done : {ct.done}, busy : {ct.busy}],
           \A i \in ct.done : <<r, i>> \in L
    PROVE  /\ TrackerOK(WithChunks(t, h, r, peer, ct), cut, L)
           /\ \A m : TargetsOK(t, m) => TargetsOK(WithChunks(t, h, r, peer, ct), m)
<1> DEFINE key == <<peer, h>>
           x == t[key]
           u == WithChunks(t, h, r, peer, ct)
<1>1. key \in DOMAIN t /\ r \in DOMAIN x.req_map /\ EntryOK(x, cut, L)
  BY Zenon DEF HasReq, TrackerOK
<1>2. DOMAIN u = DOMAIN t /\ \A k \in DOMAIN t : k # key => u[k] = t[k]
  BY Zenon DEF WithChunks
<1>3. u[key] = [x EXCEPT !.req_map[r].chunks = ct]
  BY ZenonT(60), <1>1 DEF WithChunks
<1>4. EntryOK(u[key], cut, L) /\ \A m : AimsAt(x, m) => AimsAt(u[key], m)
  BY SMTT(60), <1>1, <1>3, ChunksKeep
<1> HIDE DEF u
<1>5. TrackerOK(u, cut, L) /\ \A m : TargetsOK(t, m) => TargetsOK(u, m)
  BY Zenon, <1>1, <1>2, <1>4 DEF TrackerOK, TargetsOK
<1> QED BY Zenon, <1>5 DEF u

-----------------------------------------------------------------------------
\* What agrees with a cut agrees with one that says more.

Refines(cut2, cut) == \A r \in Requests : cut[r] # 0 => cut2[r] = cut[r]

\* Descriptors that agree with a cut agree with a finer one.
LEMMA ListRefines ==
    ASSUME NEW cut, NEW cut2, Refines(cut2, cut), NEW list, NEW p, ListOK(list, p, cut)
    PROVE  ListOK(list, p, cut2)
<1>1. p \in Posts /\ \A j \in ReqsOf(p) : <<p, j>> \in Requests /\ cut2[<<p, j>>] = cut[<<p, j>>]
  BY ZenonT(60), PostRequests DEF ListOK, Refines
<1> QED BY Zenon, <1>1 DEF ListOK

\* So does a reply.
LEMMA ReplyRefines ==
    ASSUME NEW cut, NEW cut2, Refines(cut2, cut), NEW x, NEW m, NEW p, ReplyOK(x, m, p, cut)
    PROVE  ReplyOK(x, m, p, cut2)
<1>1. p \in Posts /\ \A j \in ReqsOf(p) : <<p, j>> \in Requests /\ cut2[<<p, j>>] = cut[<<p, j>>]
  BY Zenon, PostRequests DEF ReplyOK, Refines
<1> QED BY <1>1 DEF ReplyOK

\* So do chunks, data and descriptors on their way, and the requests of a tracker.
LEMMA ItemsRefine ==
    ASSUME NEW cut, NEW cut2, Refines(cut2, cut)
    PROVE  /\ \A x, c : ChunkOK(x, c, cut) => ChunkOK(x, c, cut2)
           /\ \A x, c : DataOK(x, c, cut) => DataOK(x, c, cut2)
           /\ \A x, c, p : InfoOK(x, c, p, cut) => InfoOK(x, c, p, cut2)
           /\ \A x, m : MainOK(x, m, cut) => MainOK(x, m, cut2)
           /\ \A t, L : TrackerOK(t, cut, L) => TrackerOK(t, cut2, L)
<1>1. \A x, c : OnItsWay(x, c, cut) => OnItsWay(x, c, cut2)
  BY Zenon DEF OnItsWay, IsCut, Refines
<1>2. \A x, c : ChunkOK(x, c, cut) => ChunkOK(x, c, cut2)
  BY Zenon, <1>1 DEF ChunkOK
<1>3. \A x, c : DataOK(x, c, cut) => DataOK(x, c, cut2)
  BY Zenon, <1>1 DEF DataOK
<1>4. \A x, c, p : InfoOK(x, c, p, cut) => InfoOK(x, c, p, cut2)
  BY Zenon, ListRefines DEF InfoOK
<1>5. \A x, m : MainOK(x, m, cut) => MainOK(x, m, cut2)
  BY ListRefines, ReplyRefines DEF MainOK
<1>6. \A q, r, L : ReqOK(q, r, cut, L) => ReqOK(q, r, cut2, L)
  BY Zenon DEF ReqOK, IsCut, Refines
<1>7. \A t, L : TrackerOK(t, cut, L) => TrackerOK(t, cut2, L)
  BY ZenonT(60), <1>6 DEF TrackerOK, EntryOK
<1> QED BY Zenon, <1>2, <1>3, <1>4, <1>5, <1>7

\* So does all of the state, except the queues of new posts.
LEMMA StateRefines ==
    ASSUME NEW cut, NEW cut2, Refines(cut2, cut), NEW L, Agrees(cut, L)
    PROVE  /\ Shapes /\ MainsOK(cut2) /\ OutgoingOK(cut2, L) /\ IncomingOK(cut2, L)
           /\ InfosOK(cut2) /\ ChunksOK(cut2) /\ SendersOK(L) /\ WiresOK(cut2, L) /\ ReceiversOK(cut2, L)
<1>1. Shapes /\ SendersOK(L)
  BY Zenon DEF Agrees
<1>2. MainsOK(cut2)
  BY Zenon, ItemsRefine DEF Agrees, MainsOK
<1>3. OutgoingOK(cut2, L) /\ IncomingOK(cut2, L)
  BY ZenonT(60), ItemsRefine DEF Agrees, OutgoingOK, IncomingOK
<1>4. InfosOK(cut2) /\ ChunksOK(cut2)
  BY ZenonT(60), ItemsRefine DEF Agrees, InfosOK, ChunksOK
<1>5. WiresOK(cut2, L)
  BY ZenonT(60), ItemsRefine DEF Agrees, WiresOK, WireOK, MsgOK
<1>6. ReceiversOK(cut2, L)
  BY ZenonT(60), ItemsRefine DEF Agrees, ReceiversOK, ReceiverOK
<1> QED BY Zenon, <1>1, <1>2, <1>3, <1>4, <1>5, <1>6

\* What has landed for a cut has landed for a finer one.
LEMMA LandedRefines ==
    ASSUME NEW cut \in Cuts, NEW cut2 \in Cuts, Refines(cut2, cut), NEW M
    PROVE  Landed(cut, M) \subseteq Landed(cut2, M)
<1> SUFFICES ASSUME NEW x \in Landed(cut, M) PROVE x \in Landed(cut2, M)
  OBVIOUS
<1>1. x \in Requests \X Nat /\ x[2] < cut[x[1]] /\ InPlace(x[1], cut, x[2], M)
  BY Zenon DEF Landed
<1>2. cut2[x[1]] = cut[x[1]]
  BY <1>1 DEF Refines, Cuts
<1>3. InPlace(x[1], cut2, x[2], M)
  BY Zenon, <1>1, <1>2 DEF InPlace, ChunkBytes
<1> QED BY Zenon, <1>1, <1>2, <1>3 DEF Landed

\* The state agrees with a cut also when more chunks have landed.
LEMMA MoreLanded ==
    ASSUME NEW cut, NEW L, NEW L2, L \subseteq L2, Agrees(cut, L)
    PROVE  Agrees(cut, L2)
<1>1. \A t : TrackerOK(t, cut, L) => TrackerOK(t, cut, L2)
  <2>1. \A q, r : ReqOK(q, r, cut, L) => ReqOK(q, r, cut, L2)
    BY Zenon DEF ReqOK
  <2> QED BY Zenon, <2>1 DEF TrackerOK, EntryOK
<1>2. OutgoingOK(cut, L2) /\ IncomingOK(cut, L2)
  BY Zenon, <1>1 DEF Agrees, OutgoingOK, IncomingOK
<1>3. SendersOK(L2)
  BY Zenon DEF Agrees, SendersOK, SenderOK
<1>4. WiresOK(cut, L2)
  BY Zenon DEF Agrees, WiresOK, WireOK, MsgOK, AckOK
<1>5. ReceiversOK(cut, L2)
  BY ZenonT(60) DEF Agrees, ReceiversOK, ReceiverOK
<1> QED BY Zenon, <1>2, <1>3, <1>4, <1>5 DEF Agrees

-----------------------------------------------------------------------------
\* The post that the main thread takes.

\* Taking the first post from posts_.
LEMMA TailQueue ==
    ASSUME NEW q, NEW m, NEW cut, QueueOK(q, m, cut), q # <<>>
    PROVE  /\ QueueOK(Tail(q), m, cut) /\ Range(Tail(q)) \subseteq Range(q)
           /\ Head(q) \in Range(q) /\ PostOK(Head(q), m, cut)
           /\ \A x \in Range(Tail(q)) :
                IsFresh(x) /\ IsFresh(Head(q)) => PostOf(x) # PostOf(Head(q))
<1>1. IsSeq(q)
  BY Zenon DEF QueueOK
<1>2. /\ IsSeq(Tail(q)) /\ Range(Tail(q)) \subseteq Range(q) /\ Head(q) \in Range(q)
      /\ 1 \in DOMAIN q /\ Head(q) = q[1]
      /\ \A k \in DOMAIN Tail(q) : k + 1 \in DOMAIN q /\ Tail(q)[k] = q[k + 1] /\ k \in Nat \ {0}
  BY Zenon, <1>1, TailHolds
<1>3. \A x \in Range(Tail(q)) : IsFresh(x) /\ IsFresh(Head(q)) => PostOf(x) # PostOf(Head(q))
  <2> SUFFICES ASSUME NEW k \in DOMAIN Tail(q), IsFresh(Tail(q)[k]), IsFresh(Head(q)),
                      PostOf(Tail(q)[k]) = PostOf(Head(q))
               PROVE  FALSE
    BY Zenon DEF Range
  <2>1. k + 1 = 1
    BY Zenon, <1>2 DEF QueueOK
  <2> QED BY <1>2, <2>1
<1>4. \A j, k \in DOMAIN Tail(q) :
         IsFresh(Tail(q)[j]) /\ IsFresh(Tail(q)[k]) /\ PostOf(Tail(q)[j]) = PostOf(Tail(q)[k]) => j = k
  <2> SUFFICES ASSUME NEW j \in DOMAIN Tail(q), NEW k \in DOMAIN Tail(q),
                      IsFresh(Tail(q)[j]), IsFresh(Tail(q)[k]), PostOf(Tail(q)[j]) = PostOf(Tail(q)[k])
               PROVE  j = k
    OBVIOUS
  <2>1. j + 1 = k + 1
    BY Zenon, <1>2 DEF QueueOK
  <2> QED BY <1>2, <2>1
<1>5. PostOK(Head(q), m, cut)
  BY Zenon, <1>2 DEF QueueOK
<1>6. QueueOK(Tail(q), m, cut)
  BY Zenon, <1>2, <1>4 DEF QueueOK
<1> QED BY Zenon, <1>2, <1>3, <1>5, <1>6

\* The fields of the requests of a post are those of its plan.
LEMMA RequestFields ==
    ASSUME NEW p, NEW j \in ReqsOf(p)
    PROVE  /\ RequestsOf(p)[j].op = Plan[p].op /\ RequestsOf(p)[j].len = Plan[p].reqs[j].len
           /\ RequestsOf(p)[j].meta = <<p, j>>
           /\ RequestsOf(p)[j].laddr = Plan[p].reqs[j].laddr /\ RequestsOf(p)[j].raddr = Plan[p].reqs[j].raddr
BY Zenon DEF RequestsOf

\* RequestInfos of a local post: its descriptors are those of a cut that gives each of its
\* requests the numbers of chunks that the engine chose.
LEMMA FreshInfos ==
    ASSUME NEW p \in Posts, NEW post, IsPost(post), IsFresh(post), post.reqs = RequestsOf(p),
           NEW total \in Nat \ {0}, NEW cut,
           \A j \in ReqsOf(p) : cut[<<p, j>>] = Least(total, LenOf(<<p, j>>))
    PROVE  LET ri == RequestInfos(post, total)
           IN  /\ DOMAIN ri = ReqsOf(p)
               /\ \A j \in ReqsOf(p) :
                    /\ IsCut(<<p, j>>, cut) /\ ri[j].reqid = <<p, j>> /\ ri[j].nchunks = cut[<<p, j>>]
                    /\ Plan[p].op # "write" => ri[j].raddr = Plan[p].reqs[j].laddr
               /\ ListOK(AnnouncedInfos(post, ri), p, cut)
<1> DEFINE ri == RequestInfos(post, total)
           ann == AnnouncedInfos(post, ri)
<1>0. DOMAIN post.reqs = ReqsOf(p)
  BY ZenonT(60) DEF RequestsOf
<1>1. \A j \in ReqsOf(p) :
        /\ post.reqs[j].op = Plan[p].op /\ post.reqs[j].len = Plan[p].reqs[j].len /\ post.reqs[j].meta = <<p, j>>
        /\ post.reqs[j].laddr = Plan[p].reqs[j].laddr /\ post.reqs[j].raddr = Plan[p].reqs[j].raddr
  BY RequestFields
<1>2. ri = [j \in DOMAIN post.reqs |->
            [reqid |-> post.reqs[j].meta, nchunks |-> Least(total, post.reqs[j].len), len |-> post.reqs[j].len,
             op |-> post.reqs[j].op,
             raddr |-> IF post.reqs[j].op = "write" THEN post.reqs[j].raddr ELSE post.reqs[j].laddr,
             meta |-> post.reqs[j].meta]]
  BY Zenon DEF RequestInfos, IsFresh
<1>3. ann = [j \in DOMAIN ri |-> [ri[j] EXCEPT !.raddr = post.reqs[j].raddr]]
  BY Zenon DEF AnnouncedInfos, IsFresh
<1> HIDE DEF ri, ann
<1>4. \A j \in ReqsOf(p) : IsCut(<<p, j>>, cut) /\ LenOf(<<p, j>>) = Plan[p].reqs[j].len
  BY Zenon, PostRequests DEF IsCut, Least
<1>5. DOMAIN ri = ReqsOf(p) /\ DOMAIN ann = ReqsOf(p)
  BY ZenonT(60), <1>0, <1>2, <1>3
<1>6. \A j \in ReqsOf(p) :
        ri[j] \in [reqid : {<<p, j>>}, nchunks : {cut[<<p, j>>]}, len : {LenOf(<<p, j>>)}, op : {Plan[p].op},
                   raddr : {IF Plan[p].op = "write" THEN Plan[p].reqs[j].raddr ELSE Plan[p].reqs[j].laddr},
                   meta : {<<p, j>>}]
  <2> TAKE j \in ReqsOf(p)
  <2>1. ri[j] = [reqid |-> <<p, j>>, nchunks |-> Least(total, Plan[p].reqs[j].len), len |-> Plan[p].reqs[j].len,
                 op |-> Plan[p].op,
                 raddr |-> IF Plan[p].op = "write" THEN Plan[p].reqs[j].raddr ELSE Plan[p].reqs[j].laddr,
                 meta |-> <<p, j>>]
    BY Zenon, <1>0, <1>1, <1>2
  <2>2. cut[<<p, j>>] = Least(total, Plan[p].reqs[j].len) /\ LenOf(<<p, j>>) = Plan[p].reqs[j].len
    BY Zenon, <1>4
  <2> QED BY SMTT(60), <2>1, <2>2
<1>7. ASSUME NEW j \in ReqsOf(p)
      PROVE  ann[j] \in [reqid : {<<p, j>>}, nchunks : {cut[<<p, j>>]}, len : {LenOf(<<p, j>>)},
                         op : {Plan[p].op}, raddr : {Plan[p].reqs[j].raddr}, meta : {<<p, j>>}]
  <2>1. post.reqs[j].raddr = Plan[p].reqs[j].raddr
    BY Zenon, <1>1, <1>7
  <2>2. ann[j] = [ri[j] EXCEPT !.raddr = Plan[p].reqs[j].raddr]
    BY ZenonT(60), <1>3, <1>5, <1>7, <2>1
  <2> QED BY Zenon, <1>6, <1>7, <2>2
<1>8. ListOK(ann, p, cut)
  BY Zenon, <1>4, <1>5, <1>7 DEF ListOK, IsCut
<1> QED BY Zenon, <1>4, <1>5, <1>6, <1>8 DEF ri, ann

\* RequestInfos of a reply: the descriptors of the read it answers.
LEMMA ReplyInfos ==
    ASSUME NEW p, NEW m, NEW cut, NEW post, IsPost(post), ~IsFresh(post), ReplyOK(post, m, p, cut), NEW total
    PROVE  LET ri == RequestInfos(post, total)
               ann == [post EXCEPT !.req_infos = AnnouncedInfos(post, ri)]
           IN  /\ ri = post.req_infos /\ DOMAIN ri = ReqsOf(p)
               /\ \A j \in ReqsOf(p) :
                    IsCut(<<p, j>>, cut) /\ ri[j].reqid = <<p, j>> /\ ri[j].nchunks = cut[<<p, j>>]
               /\ IsPost(ann) /\ ann.reqs = post.reqs /\ ReplyOK(ann, m, p, cut)
<1> DEFINE ri == RequestInfos(post, total)
           ai == AnnouncedInfos(post, ri)
           ann == [post EXCEPT !.req_infos = ai]
<1>1. ri = post.req_infos
  BY Zenon DEF RequestInfos, IsFresh
<1>2. ai = [j \in DOMAIN ri |-> [ri[j] EXCEPT !.raddr = @]]
  BY Zenon DEF AnnouncedInfos, IsFresh
<1>3. ann \in [peer : {post.peer}, handle : {post.handle}, reqs : {post.reqs}, req_infos : {ai}]
  BY Zenon DEF IsPost
<1> HIDE DEF ri, ai, ann
<1>4. DOMAIN ri = ReqsOf(p) /\ p \in Posts
  BY Zenon, <1>1 DEF ReplyOK
<1>5. \A j \in ReqsOf(p) :
        /\ ri[j] \in [reqid : {<<p, j>>}, nchunks : {cut[<<p, j>>]}, len : {LenOf(<<p, j>>)},
                      op : {"write"}, raddr : {NullAddr}, meta : {<<p, j>>}]
        /\ cut[<<p, j>>] # 0
  BY Zenon, <1>1 DEF ReplyOK
<1>6. DOMAIN ai = ReqsOf(p) /\ \A j \in ReqsOf(p) :
        ai[j] \in [reqid : {<<p, j>>}, nchunks : {cut[<<p, j>>]}, len : {LenOf(<<p, j>>)},
                   op : {"write"}, raddr : {NullAddr}, meta : {<<p, j>>}]
  BY ZenonT(60), <1>2, <1>4, <1>5
<1>7. ann.reqs = post.reqs /\ ann.peer = post.peer /\ ann.req_infos = ai /\ IsPost(ann)
  BY Zenon, <1>3 DEF IsPost
<1>8. ReplyOK(ann, m, p, cut)
  BY <1>6, <1>7 DEF ReplyOK
<1>9. \A j \in ReqsOf(p) : IsCut(<<p, j>>, cut) /\ ri[j].reqid = <<p, j>> /\ ri[j].nchunks = cut[<<p, j>>]
  BY Zenon, <1>4, <1>5, PostRequests DEF IsCut
<1> QED BY ZenonT(60), <1>1, <1>4, <1>7, <1>8, <1>9 DEF ri, ai, ann

-----------------------------------------------------------------------------
\* Users.

\* The descriptors of a local post name the post.
LEMMA LocalPost ==
    ASSUME NEW p \in Posts
    PROVE  IsSeq(RequestsOf(p)) /\ RequestsOf(p)[1].meta[1] = p
<1>1. \A j \in ReqsOf(p) : RequestsOf(p)[j].meta = <<p, j>>
  BY Zenon DEF RequestsOf
<1>2. RequestsOf(p) \in [1 .. Len(Plan[p].reqs) -> Range(RequestsOf(p))]
  BY Zenon, FirstRequest DEF RequestsOf, Range
<1>3. RequestsOf(p) \in Seq(Range(RequestsOf(p)))
  BY Zenon, <1>2, FirstRequest, FunctionIsSeq
<1> QED BY <1>1, <1>3, FirstRequest DEF IsSeq

\* Appending to posts_ a reply, or a post that is not in it.
LEMMA QueueAppend ==
    ASSUME NEW q, NEW m, NEW cut, QueueOK(q, m, cut), NEW post, PostOK(post, m, cut),
           IsFresh(post) => \A k \in DOMAIN q : IsFresh(q[k]) => PostOf(q[k]) # PostOf(post)
    PROVE  QueueOK(Append(q, post), m, cut)
<1>1. IsSeq(Append(q, post)) /\ Range(Append(q, post)) = Range(q) \cup {post}
  BY Zenon, AppendHolds DEF QueueOK
<1>2. \A x \in Range(Append(q, post)) : PostOK(x, m, cut)
  BY Zenon, <1>1 DEF QueueOK
<1>3. PICK S : q \in Seq(S)
  BY Zenon DEF IsSeq, QueueOK
<1>4. /\ DOMAIN q = 1 .. Len(q) /\ Len(q) \in Nat
      /\ DOMAIN Append(q, post) = 1 .. (Len(q) + 1)
      /\ \A k \in 1 .. Len(q) : Append(q, post)[k] = q[k]
      /\ Append(q, post)[Len(q) + 1] = post
  BY <1>3
<1>5. ASSUME NEW j \in DOMAIN Append(q, post), NEW k \in DOMAIN Append(q, post),
             IsFresh(Append(q, post)[j]), IsFresh(Append(q, post)[k]),
             PostOf(Append(q, post)[j]) = PostOf(Append(q, post)[k])
      PROVE  j = k
  <2>1. CASE j \in DOMAIN q /\ k \in DOMAIN q
    <3>1. Append(q, post)[j] = q[j] /\ Append(q, post)[k] = q[k]
      BY Zenon, <1>4, <2>1
    <3> QED BY Zenon, <1>5, <2>1, <3>1 DEF QueueOK
  <2>2. CASE j \in DOMAIN q /\ k \notin DOMAIN q
    <3>1. Append(q, post)[j] = q[j] /\ Append(q, post)[k] = post
      BY <1>4, <2>2
    <3> QED BY ZenonT(60), <1>5, <2>2, <3>1
  <2>3. CASE j \notin DOMAIN q /\ k \in DOMAIN q
    <3>1. Append(q, post)[k] = q[k] /\ Append(q, post)[j] = post
      BY <1>4, <2>3
    <3> QED BY Zenon, <1>5, <2>3, <3>1
  <2>4. CASE j \notin DOMAIN q /\ k \notin DOMAIN q
    BY <1>4, <2>4
  <2> QED BY Zenon, <2>1, <2>2, <2>3, <2>4
<1> QED BY Zenon, <1>1, <1>2, <1>5 DEF QueueOK

\* A post without descriptors was made by a user of the node, and is not cut yet.
LEMMA FreshIsLocal ==
    ASSUME NEW x, NEW m, NEW cut, PostOK(x, m, cut), IsFresh(x)
    PROVE  /\ PostOf(x) \in Posts /\ LocalOK(x, m, PostOf(x))
           /\ \A j \in ReqsOf(PostOf(x)) : cut[<<PostOf(x), j>>] = 0
<1>1. PICK p \in Posts : LocalOK(x, m, p) /\ \A j \in ReqsOf(p) : cut[<<p, j>>] = 0
  BY Zenon DEF PostOK
<1>2. PostOf(x) = p
  BY Zenon, <1>1, LocalPost DEF PostOf, LocalOK
<1> QED BY Zenon, <1>1, <1>2

\* What users have been told matters to the queues only while it is nothing.
LEMMA OutcomeKeeps ==
    ASSUME NEW cut, PostsOK(cut), UNCHANGED posts,
           \A p \in Posts : outcome'[p] = "none" => outcome[p] = "none"
    PROVE  PostsOK(cut)'
<1>1. \A m \in Nodes : \A x \in Range(posts[m]) : IsFresh(x) => PostOf(x) \in Posts
  BY Zenon, FreshIsLocal DEF PostsOK, QueueOK
<1>2. \A r \in Requests : r[1] \in Posts
  BY DEF Requests
<1> QED BY Zenon, <1>1, <1>2 DEF PostsOK

\* Telling a user leaves no post untold that was told.
LEMMA TellKeeps ==
    ASSUME NEW n, NEW h, Tell(n, h)
    PROVE  DOMAIN outcome' = Posts /\ \A p \in Posts : outcome'[p] = "none" => outcome[p] = "none"
BY Zenon DEF Tell

\* incoming_.OnReqComplete and the callback it runs.
LEMMA CompleteKeeps ==
    ASSUME NEW cut, NEW L, IncomingOK(cut, L), PostsOK(cut), UNCHANGED posts,
           DOMAIN incoming = Nodes, DOMAIN outcome = Posts,
           NEW n, NEW h, NEW peer, CompleteIncomingReq(n, h, peer)
    PROVE  /\ IncomingOK(cut, L)' /\ PostsOK(cut)'
           /\ DOMAIN incoming' = Nodes /\ DOMAIN outcome' = Posts
<1>1. DOMAIN outcome' = Posts /\ \A p \in Posts : outcome'[p] = "none" => outcome[p] = "none"
  BY Zenon, TellKeeps DEF CompleteIncomingReq
<1>2. incoming' = [incoming EXCEPT ![n] = OnReqComplete(@, h, peer)]
  BY Zenon DEF CompleteIncomingReq
<1>3. IncomingOK(cut, L)' /\ DOMAIN incoming' = Nodes
  BY Zenon, <1>2, OnReqCompleteKeeps DEF IncomingOK
<1> QED BY Zenon, <1>1, <1>3, OutcomeKeeps

\* The callback of a completed post.
LEMMA CallbackKeeps ==
    ASSUME NEW cut, NEW L, IncomingOK(cut, L), PostsOK(cut), UNCHANGED posts,
           DOMAIN incoming = Nodes, DOMAIN outcome = Posts,
           NEW n, NEW cb, NEW h, RunCallback(n, cb, h)
    PROVE  /\ IncomingOK(cut, L)' /\ PostsOK(cut)'
           /\ DOMAIN incoming' = Nodes /\ DOMAIN outcome' = Posts
<1>1. CASE Tell(n, h) /\ UNCHANGED <<incoming, recvPosts>>
  <2>1. IncomingOK(cut, L)' /\ DOMAIN incoming' = Nodes
    BY Zenon, <1>1 DEF IncomingOK
  <2> QED BY ZenonT(60), <1>1, <2>1, TellKeeps, OutcomeKeeps
<1>2. CASE CompleteIncomingReq(n, h, cb.peer)
  BY Zenon, <1>2, CompleteKeeps
<1> QED BY Zenon, <1>1, <1>2 DEF RunCallback

\* A good message is put on the wire.
LEMMA TransmitKeeps ==
    ASSUME NEW cut, NEW L, WiresOK(cut, L), DOMAIN wire = Ends, NEW e \in Ends, NEW msg,
           MsgOK(msg, OtherEnd(e), cut, L), Transmit(e, msg)
    PROVE  WiresOK(cut, L)' /\ DOMAIN wire' = Ends
<1>1. wire' = wire \/ wire' = [wire EXCEPT ![OtherEnd(e)] = Append(@, msg)]
  BY Zenon DEF Transmit
<1>2. OtherEnd(e) \in Ends
  BY Zenon DEF OtherEnd, Ends
<1> DEFINE d == OtherEnd(e)
<1> HIDE DEF d
<1>3. WireOK(wire[d], d, cut, L)
  BY Zenon, <1>2 DEF WiresOK, d
<1>4. IsSeq(Append(wire[d], msg)) /\ Range(Append(wire[d], msg)) = Range(wire[d]) \cup {msg}
  BY Zenon, <1>3, AppendHolds DEF WireOK
<1>5. WireOK(Append(wire[d], msg), d, cut, L)
  BY Zenon, <1>3, <1>4 DEF WireOK, d
<1>6. \A f \in Ends : wire'[f] = wire[f] \/ (f = d /\ wire'[f] = Append(wire[d], msg))
  BY Zenon, <1>1, <1>2 DEF d
<1>7. \A f \in Ends : WireOK(wire'[f], f, cut, L)
  BY Zenon, <1>5, <1>6 DEF WiresOK
<1> QED BY Zenon, <1>1, <1>7 DEF WiresOK
=============================================================================
