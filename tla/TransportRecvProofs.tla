------------------------ MODULE TransportRecvProofs ------------------------
(***************************************************************************)
(* The steps of the receive threads keep the invariant of TransportLemmas. *)
(* Storing a payload adds to the set L of chunks that have landed.         *)
(***************************************************************************)
EXTENDS TransportLemmas

\* A step of a receive thread that keeps the trackers, the queues and the wires good.
LEMMA ReceiverMoves ==
    ASSUME NEW cut, NEW L, Agrees(cut, L), NEW e \in Ends, NEW x, ReceiverOK(x, e, cut, L),
           receiver' = [receiver EXCEPT ![e] = x],
           UNCHANGED <<main, infos, chunks, sender, workers, env>>,
           PostsOK(cut)', OutgoingOK(cut, L)', IncomingOK(cut, L)', WiresOK(cut, L)',
           DOMAIN posts' = Nodes, DOMAIN outgoing' = Nodes, DOMAIN incoming' = Nodes,
           DOMAIN wire' = Ends, DOMAIN outcome' = Posts
    PROVE  Agrees(cut, L)'
<1>1. ReceiversOK(cut, L)' /\ DOMAIN receiver' = Ends
  BY Zenon DEF Agrees, Shapes, ReceiversOK
<1>2. Shapes'
  BY Zenon, <1>1 DEF Agrees, Shapes
<1>3. (MainsOK(cut) /\ InfosOK(cut) /\ ChunksOK(cut) /\ SendersOK(L))'
  BY Zenon DEF Agrees, MainsOK, InfosOK, ChunksOK, SendersOK
<1> QED BY Zenon, <1>1, <1>2, <1>3 DEF Agrees

\* A receive thread between two messages, or one that stops or runs a callback.
LEMMA RestOK ==
    ASSUME NEW e, NEW cut, NEW L, NEW at \in {"run", "stop", "abort", "callback"}, NEW m, NEW cb
    PROVE  ReceiverOK(Idle(at), e, cut, L) /\ ReceiverOK([Idle(at) EXCEPT !.msg = m, !.cb = cb], e, cut, L)
BY Zenon DEF ReceiverOK, Idle, Looking

\* A receive thread goes on with the chunk it has at hand.
LEMMA AtChanges ==
    ASSUME NEW x, NEW e, NEW cut, NEW L, ReceiverOK(x, e, cut, L), x.at \in Looking,
           NEW at \in Looking \cup {"abort", "dangling"},
           at \in {"full", "complete", "ack"} => <<x.msg.reqid, x.msg.index>> \in L
    PROVE  ReceiverOK([x EXCEPT !.at = at], e, cut, L)
<1> DEFINE y == [x EXCEPT !.at = at]
<1>1. y \in [at : {at}, msg : {x.msg}, dst : {x.dst}, cb : {x.cb}]
  BY Zenon DEF ReceiverOK
<1>2. e[2] # "conn" /\ DataOK(x.msg, e[1], cut) /\ x.dst = Dst(x.msg.reqid) /\ x.dst # NullAddr
  BY Zenon DEF ReceiverOK, Looking
<1>3. at # "recv_read"
  BY Zenon DEF Looking
<1> HIDE DEF y
<1>4. ReceiverOK(y, e, cut, L)
  BY Zenon, <1>1, <1>2, <1>3 DEF ReceiverOK
<1> QED BY Zenon, <1>4 DEF y

\* A message is taken off the wire.
LEMMA Received ==
    ASSUME NEW cut, NEW L, Agrees(cut, L), NEW e \in Ends, NEW k, Receive(e, k)
    PROVE  WiresOK(cut, L)' /\ DOMAIN wire' = Ends /\ MsgOK(wire[e][k], e, cut, L)
<1>1. k \in DOMAIN wire[e] /\ wire' = [wire EXCEPT ![e] = Without(@, k)]
  BY Zenon DEF Receive, Receivable
<1>2. WireOK(wire[e], e, cut, L) /\ DOMAIN wire = Ends
  BY Zenon DEF Agrees, WiresOK, Shapes
<1>3. wire[e][k] \in Range(wire[e])
  BY Zenon, <1>1 DEF Range
<1>4. IsSeq(Without(wire[e], k)) /\ Range(Without(wire[e], k)) \subseteq Range(wire[e])
  BY Zenon, <1>1, <1>2, WithoutHolds DEF WireOK
<1>5. WireOK(Without(wire[e], k), e, cut, L)
  BY Zenon, <1>2, <1>4 DEF WireOK
<1>6. \A f \in Ends : wire'[f] = wire[f] \/ (f = e /\ wire'[f] = Without(wire[e], k))
  BY Zenon, <1>1, <1>2
<1>7. \A f \in Ends : WireOK(wire'[f], f, cut, L)
  BY Zenon, <1>5, <1>6 DEF Agrees, WiresOK
<1> QED BY Zenon, <1>1, <1>2, <1>3, <1>7 DEF WiresOK, WireOK

\* The node of a channel end.
LEMMA EndsOf ==
    ASSUME NEW e \in Ends
    PROVE  /\ e[1] \in Channels /\ NodeOf(e) \in Nodes
           /\ e[2] = "acc" => NodeOf(e) = e[1][2] /\ OtherEnd(e)[2] = "conn"
           /\ e[2] \in {"conn", "acc"} /\ OtherEnd(e) \in Ends
BY Zenon DEF Ends, Channels, NodeOf, OtherEnd

\* What a step leaves alone stays good.
LEMMA SameTrackers ==
    ASSUME NEW cut, NEW L, Agrees(cut, L)
    PROVE  /\ UNCHANGED outgoing => OutgoingOK(cut, L)' /\ DOMAIN outgoing' = Nodes
           /\ UNCHANGED incoming => IncomingOK(cut, L)' /\ DOMAIN incoming' = Nodes
           /\ UNCHANGED <<posts, outcome>> => PostsOK(cut)' /\ DOMAIN posts' = Nodes /\ DOMAIN outcome' = Posts
           /\ UNCHANGED wire => WiresOK(cut, L)' /\ DOMAIN wire' = Ends
BY Zenon DEF Agrees, Shapes, OutgoingOK, IncomingOK, PostsOK, WiresOK

\* A chunk on its way is a chunk of the cut, and is not empty.
LEMMA ChunkFits ==
    ASSUME NEW cut \in Cuts, NEW x, NEW c, OnItsWay(x, c, cut)
    PROVE  /\ x.reqid \in Requests /\ cut[x.reqid] # 0 /\ x.index \in 0 .. (cut[x.reqid] - 1)
           /\ x.offset = ChunkOffset(LenOf(x.reqid), cut[x.reqid], x.index)
           /\ x.len = ChunkLen(LenOf(x.reqid), cut[x.reqid], x.index)
           /\ x.len \in Nat \ {0}
<1> DEFINE r == x.reqid
<1>1. /\ r \in Requests /\ cut[r] # 0 /\ x.index \in Nat /\ x.index < cut[r]
      /\ x.offset = ChunkOffset(LenOf(r), cut[r], x.index)
      /\ x.len = ChunkLen(LenOf(r), cut[r], x.index)
  BY Zenon DEF OnItsWay, IsCut
<1> HIDE DEF r
<1>2. cut[r] \in Nat /\ cut[r] <= LenOf(r)
  BY Zenon, <1>1 DEF Cuts
<1>3. LenOf(r) \in Nat \ {0}
  BY Zenon, <1>1, Journey
<1>4. cut[r] \in 1 .. LenOf(r) /\ x.index \in 0 .. (cut[r] - 1)
  BY <1>1, <1>2, <1>3
<1>5. x.len \in Nat \ {0}
  BY ZenonT(60), <1>1, <1>3, <1>4, ChunkInside
<1> QED BY Zenon, <1>1, <1>4, <1>5 DEF r

\* Transfer::recvAck: only chunks that have landed are acknowledged.
LEMMA RecvAckKeeps ==
    ASSUME NEW cut \in Cuts, NEW L, Agrees(cut, L), NEW e \in Ends, NEW k, RecvAck(e, k)
    PROVE  Agrees(cut, L)'
<1> DEFINE n == NodeOf(e)
           msg == wire[e][k]
           cb == UpdateCallback(outgoing[n], msg.handle, msg.reqid, msg.index)
<1>1. WiresOK(cut, L)' /\ DOMAIN wire' = Ends /\ MsgOK(msg, e, cut, L)
  BY Zenon, Received DEF RecvAck
<1>2. msg.type = "data" /\ msg.len = 0
  BY Zenon DEF RecvAck, IsAck
<1>3. <<msg.reqid, msg.index>> \in L
  <2>1. CASE e[2] = "acc" /\ DataOK(msg, e[1], cut)
    <3>1. msg.len # 0
      BY Zenon, <2>1, ChunkFits DEF DataOK
    <3> QED BY Zenon, <1>2, <3>1
  <2>2. CASE \E p \in Posts : InfoOK(msg, e[1], p, cut)
    BY Zenon, <1>2, <2>2 DEF InfoOK
  <2> QED BY Zenon, <1>1, <2>1, <2>2 DEF MsgOK, AckOK
<1>4. n \in Nodes /\ DOMAIN outgoing = Nodes
  BY Zenon, EndsOf DEF Agrees, Shapes
<1> HIDE DEF n, msg
<1>5. OutgoingOK(cut, L)' /\ DOMAIN outgoing' = Nodes
  <2>1. CASE UNCHANGED outgoing
    BY Zenon, <2>1, SameTrackers
  <2>2. CASE /\ ~UpdateAborts(outgoing[n], msg.handle, msg.reqid)
             /\ outgoing' = [outgoing EXCEPT ![n] = Update(@, msg.handle, msg.reqid, msg.index)]
    <3>1. TrackerOK(Update(outgoing[n], msg.handle, msg.reqid, msg.index), cut, L)
      BY ZenonT(60), <1>3, <1>4, <2>2, UpdateKeeps DEF Agrees, OutgoingOK
    <3> QED BY Zenon, <1>4, <2>2, <3>1 DEF Agrees, OutgoingOK
  <2> QED BY ZenonT(60), <2>1, <2>2 DEF RecvAck, n, msg
<1>6. PICK x : receiver' = [receiver EXCEPT ![e] = x] /\ ReceiverOK(x, e, cut, L)
  <2>1. \/ receiver' = [receiver EXCEPT ![e] = Idle("abort")] \/ receiver' = [receiver EXCEPT ![e] = Idle("run")]
        \/ receiver' = [receiver EXCEPT ![e] = [Idle("callback") EXCEPT !.msg = msg, !.cb = cb]]
    BY Zenon DEF RecvAck, Returned, n, msg
  <2> HIDE DEF cb
  <2> QED BY Zenon, <2>1, RestOK
<1>7. UNCHANGED <<main, infos, chunks, sender, workers, env, posts, outcome, incoming>>
  BY Zenon DEF RecvAck, ReceiverUnchanged, engineVars, workerVars
<1>8. /\ PostsOK(cut)' /\ DOMAIN posts' = Nodes /\ DOMAIN outcome' = Posts
      /\ IncomingOK(cut, L)' /\ DOMAIN incoming' = Nodes
  BY Zenon, <1>7, SameTrackers
<1> QED BY ZenonT(60), <1>1, <1>5, <1>6, <1>7, <1>8, ReceiverMoves

\* Transfer::recvPostInfo: the addresses that incoming_ keeps for the requests whose bytes
\* come to this node are the destinations.
LEMMA RecvPostInfoKeeps ==
    ASSUME NEW cut \in Cuts, NEW L, Agrees(cut, L), NEW e \in Ends, NEW k, RecvPostInfo(e, k)
    PROVE  Agrees(cut, L)'
<1> DEFINE n == NodeOf(e)
           msg == wire[e][k]
           added == AddOutcome(incoming[n], msg.handle, msg.reqs, msg.peer, Resolve)
<1>1. WiresOK(cut, L)' /\ DOMAIN wire' = Ends /\ MsgOK(msg, e, cut, L)
  BY Zenon, Received DEF RecvPostInfo
<1>2. msg.type = "info"
  BY Zenon DEF RecvPostInfo
<1>3. incoming' = [incoming EXCEPT ![n] = AddReqs(@, msg.handle, msg.reqs, msg.peer, Resolve)]
  BY Zenon DEF RecvPostInfo
<1>4. \/ added = "recv_read" /\ receiver' = [receiver EXCEPT ![e] = [Idle("recv_read") EXCEPT !.msg = msg]]
      \/ \E at \in {"run", "stop"} : receiver' = [receiver EXCEPT ![e] = Idle(at)]
  BY Zenon DEF RecvPostInfo, Failed, Returned
<1> HIDE DEF msg
<1>5. e[2] = "acc" /\ \E p \in Posts : InfoOK(msg, e[1], p, cut)
  BY Zenon, <1>1, <1>2 DEF MsgOK, DataOK, AckOK
<1>6. PICK p \in Posts : InfoOK(msg, e[1], p, cut)
  BY Zenon, <1>5
<1>7. n \in Nodes /\ n = Plan[p].peer /\ Plan[p].node # Plan[p].peer
  BY ZenonT(60), <1>5, <1>6, EndsOf, PlanAssumption DEF InfoOK
<1>8. DOMAIN msg.reqs = ReqsOf(p) /\ \A j \in ReqsOf(p) :
        /\ msg.reqs[j].reqid = <<p, j>> /\ msg.reqs[j].nchunks = cut[<<p, j>>] /\ cut[<<p, j>>] # 0
        /\ msg.reqs[j].op = Plan[p].op /\ msg.reqs[j].raddr = Plan[p].reqs[j].raddr
        /\ msg.reqs[j].meta = <<p, j>>
  BY Zenon, <1>6 DEF InfoOK, ListOK
<1>9. \A j \in ReqsOf(p) : ResolvedAddr(msg.reqs[j], Resolve) = RemoteAddr(p, j)
  BY Zenon, <1>8 DEF ResolvedAddr, RemoteAddr
<1>10. \A j \in ReqsOf(p) : /\ Plan[p].op = "write" => Dst(<<p, j>>) = RemoteAddr(p, j)
                            /\ Plan[p].op # "write" => Src(<<p, j>>) = RemoteAddr(p, j)
                            /\ Target(<<p, j>>) = n => Plan[p].op = "write"
  BY Zenon, <1>7 DEF Dst, Src, DstAddr, SrcAddr, Target
<1>11. IncomingOK(cut, L)' /\ DOMAIN incoming' = Nodes
  <2>1. \A j \in DOMAIN msg.reqs :
          /\ IsCut(msg.reqs[j].reqid, cut) /\ msg.reqs[j].nchunks = cut[msg.reqs[j].reqid]
          /\ Target(msg.reqs[j].reqid) = n => ResolvedAddr(msg.reqs[j], Resolve) = Dst(msg.reqs[j].reqid)
    <3> SUFFICES ASSUME NEW j \in ReqsOf(p)
                 PROVE  /\ IsCut(msg.reqs[j].reqid, cut) /\ msg.reqs[j].nchunks = cut[msg.reqs[j].reqid]
                        /\ Target(msg.reqs[j].reqid) = n
                           => ResolvedAddr(msg.reqs[j], Resolve) = Dst(msg.reqs[j].reqid)
      BY Zenon, <1>8
    <3>1. msg.reqs[j].reqid = <<p, j>> /\ msg.reqs[j].nchunks = cut[<<p, j>>] /\ cut[<<p, j>>] # 0
      BY Zenon, <1>8
    <3>2. <<p, j>> \in Requests
      BY Zenon, PostRequests
    <3> QED BY ZenonT(60), <1>9, <1>10, <3>1, <3>2 DEF IsCut
  <2>2. TrackerOK(incoming[n], cut, L) /\ TargetsOK(incoming[n], n) /\ DOMAIN incoming = Nodes
    BY Zenon, <1>7 DEF Agrees, IncomingOK, Shapes
  <2> DEFINE t == AddReqs(incoming[n], msg.handle, msg.reqs, msg.peer, Resolve)
  <2>3. TrackerOK(t, cut, L) /\ TargetsOK(t, n)
    BY <2>1, <2>2, AddReqsKeeps
  <2> HIDE DEF t
  <2>4. \A m \in Nodes : incoming'[m] = IF m = n THEN t ELSE incoming[m]
    BY Zenon, <1>3, <2>2 DEF t
  <2> QED BY ZenonT(60), <1>3, <2>2, <2>3, <2>4 DEF Agrees, IncomingOK
<1>12. PICK x : receiver' = [receiver EXCEPT ![e] = x] /\ ReceiverOK(x, e, cut, L)
  <2>1. CASE \E at \in {"run", "stop"} : receiver' = [receiver EXCEPT ![e] = Idle(at)]
    BY Zenon, <2>1, RestOK
  <2>2. CASE added = "recv_read" /\ receiver' = [receiver EXCEPT ![e] = [Idle("recv_read") EXCEPT !.msg = msg]]
    <3>1. (\A j \in ReqsOf(p) : RemoteAddr(p, j) # NullAddr) /\ msg.reqs[1].op = "read"
      BY Zenon, <1>8, <1>9, <2>2 DEF AddOutcome
    <3>2. Plan[p].op = "read"
      BY Zenon, <1>8, <3>1, FirstRequest
    <3>3. \A j \in ReqsOf(p) : Src(<<p, j>>) # NullAddr
      BY Zenon, <1>10, <3>1, <3>2
    <3> DEFINE y == [Idle("recv_read") EXCEPT !.msg = msg]
    <3>4. y \in [at : {"recv_read"}, msg : {msg}, dst : {NullAddr}, cb : {NoCallback}]
      BY Zenon DEF Idle
    <3> HIDE DEF y
    <3>5. ReceiverOK(y, e, cut, L)
      BY ZenonT(60), <1>5, <1>6, <3>2, <3>3, <3>4 DEF ReceiverOK, Looking
    <3> QED BY Zenon, <2>2, <3>5 DEF y
  <2> QED BY Zenon, <1>4, <2>1, <2>2
<1>13. UNCHANGED <<main, infos, chunks, sender, workers, env, posts, outcome, outgoing>>
  BY Zenon DEF RecvPostInfo, ReceiverUnchanged, engineVars, workerVars
<1>14. /\ PostsOK(cut)' /\ DOMAIN posts' = Nodes /\ DOMAIN outcome' = Posts
       /\ OutgoingOK(cut, L)' /\ DOMAIN outgoing' = Nodes
  BY Zenon, <1>13, SameTrackers
<1> QED BY ZenonT(60), <1>1, <1>11, <1>12, <1>13, <1>14, ReceiverMoves

\* Transfer::processRecvRead queues the reply to a read.
LEMMA RecvReadKeeps ==
    ASSUME NEW cut \in Cuts, NEW L, Agrees(cut, L), NEW e \in Ends, RecvRead(e)
    PROVE  Agrees(cut, L)'
<1> DEFINE n == NodeOf(e)
           msg == receiver[e].msg
           post == ReplyPost(msg)
           q == posts[n]
<1>1. receiver' = [receiver EXCEPT ![e] = Idle("run")] /\ ReceiverOK(Idle("run"), e, cut, L)
  BY Zenon, RestOK DEF RecvRead, Returned
<1>2. UNCHANGED <<main, infos, chunks, sender, workers, env, outcome, incoming, wire>>
  BY Zenon DEF RecvRead, workerVars, netVars, userVars
<1>3. n \in Nodes /\ DOMAIN outgoing = Nodes /\ DOMAIN posts = Nodes
  BY Zenon, EndsOf DEF Agrees, Shapes
<1>4. /\ IncomingOK(cut, L)' /\ DOMAIN incoming' = Nodes /\ WiresOK(cut, L)' /\ DOMAIN wire' = Ends
      /\ DOMAIN outcome' = Posts
  BY Zenon, <1>2, SameTrackers DEF Agrees, Shapes
<1>5. CASE UNCHANGED <<outgoing, posts>>
  <2>1. OutgoingOK(cut, L)' /\ DOMAIN outgoing' = Nodes /\ PostsOK(cut)' /\ DOMAIN posts' = Nodes
    BY Zenon, <1>2, <1>5, SameTrackers
  <2> QED BY ZenonT(60), <1>1, <1>2, <1>4, <2>1, ReceiverMoves
<1>6. CASE /\ outgoing' = [outgoing EXCEPT ![n] = AddHandle(@, msg.handle, ReplyCallback(msg.peer))]
           /\ posts' = [posts EXCEPT ![n] = Append(@, post)]
  <2>1. ReceiverOK(receiver[e], e, cut, L) /\ receiver[e].at = "recv_read"
    BY Zenon DEF Agrees, ReceiversOK, RecvRead
  <2>2. PICK p \in Posts : InfoOK(msg, e[1], p, cut) /\ Plan[p].op = "read"
                           /\ \A j \in ReqsOf(p) : Src(<<p, j>>) # NullAddr
    BY Zenon, <2>1 DEF ReceiverOK
  <2>3. e[2] = "acc"
    BY Zenon, <2>1, EndsOf DEF ReceiverOK
  <2>4. n = Plan[p].peer /\ msg.peer = Plan[p].node
    BY Zenon, <2>2, <2>3, EndsOf DEF InfoOK
  <2>5. DOMAIN msg.reqs = ReqsOf(p) /\ \A j \in ReqsOf(p) :
          /\ msg.reqs[j] \in [reqid : {<<p, j>>}, nchunks : {cut[<<p, j>>]}, len : {LenOf(<<p, j>>)},
                         op : {Plan[p].op}, raddr : {Plan[p].reqs[j].raddr}, meta : {<<p, j>>}]
          /\ cut[<<p, j>>] # 0
    BY Zenon, <2>2 DEF InfoOK, ListOK
  <2> HIDE DEF msg
  <2>6. /\ IsPost(post) /\ post.peer = msg.peer /\ DOMAIN post.reqs = ReqsOf(p) /\ DOMAIN post.req_infos = ReqsOf(p)
        /\ \A j \in ReqsOf(p) :
             /\ post.reqs[j].op = "write" /\ post.reqs[j].laddr = ResolvedAddr(msg.reqs[j], Resolve)
             /\ post.req_infos[j] = [msg.reqs[j] EXCEPT !.op = "write", !.raddr = NullAddr]
        /\ post.reqs = [j \in ReqsOf(p) |-> post.reqs[j]]
    BY Zenon, <2>5 DEF ReplyPost, IsPost
  <2> HIDE DEF post
  <2>7. \A j \in ReqsOf(p) : ResolvedAddr(msg.reqs[j], Resolve) = Src(<<p, j>>)
    <3>1. \A j \in ReqsOf(p) : msg.reqs[j].raddr = Plan[p].reqs[j].raddr /\ msg.reqs[j].meta = <<p, j>>
      BY Zenon, <2>5
    <3> QED BY Zenon, <2>2, <3>1 DEF ResolvedAddr, RemoteAddr, Src, SrcAddr
  <2>8. \A j \in ReqsOf(p) :
          post.req_infos[j] \in [reqid : {<<p, j>>}, nchunks : {cut[<<p, j>>]}, len : {LenOf(<<p, j>>)},
                                 op : {"write"}, raddr : {NullAddr}, meta : {<<p, j>>}]
    <3> SUFFICES ASSUME NEW j \in ReqsOf(p)
                 PROVE  post.req_infos[j] \in
                          [reqid : {<<p, j>>}, nchunks : {cut[<<p, j>>]}, len : {LenOf(<<p, j>>)},
                           op : {"write"}, raddr : {NullAddr}, meta : {<<p, j>>}]
      OBVIOUS
    <3>1. PICK y : y = msg.reqs[j]
      OBVIOUS
    <3>2. y \in [reqid : {<<p, j>>}, nchunks : {cut[<<p, j>>]}, len : {LenOf(<<p, j>>)},
                 op : {Plan[p].op}, raddr : {Plan[p].reqs[j].raddr}, meta : {<<p, j>>}]
      BY Zenon, <2>5, <3>1
    <3>3. [y EXCEPT !.op = "write", !.raddr = NullAddr] \in
            [reqid : {<<p, j>>}, nchunks : {cut[<<p, j>>]}, len : {LenOf(<<p, j>>)},
             op : {"write"}, raddr : {NullAddr}, meta : {<<p, j>>}]
      BY ZenonT(60), <3>2
    <3> QED BY ZenonT(60), <2>6, <3>1, <3>3
  <2>9. ReplyOK(post, n, p, cut)
    <3>1. \A j \in ReqsOf(p) :
            /\ post.reqs[j].op = "write" /\ post.reqs[j].laddr = Src(<<p, j>>) /\ Src(<<p, j>>) # NullAddr
            /\ cut[<<p, j>>] # 0
      BY ZenonT(60), <2>2, <2>5, <2>6, <2>7
    <3> QED BY ZenonT(60), <2>2, <2>4, <2>6, <2>8, <3>1 DEF ReplyOK
  <2>10. ~IsFresh(post)
    <3>1. 1 \in DOMAIN post.req_infos
      BY Zenon, <2>6, FirstRequest
    <3> QED BY <3>1 DEF IsFresh
  <2>11. IsSeq(post.reqs)
    <3>1. ReqsOf(p) = 1 .. Len(Plan[p].reqs) /\ Len(Plan[p].reqs) \in Nat
      BY Zenon, FirstRequest
    <3>2. post.reqs \in [1 .. Len(Plan[p].reqs) -> Range(post.reqs)]
      BY Zenon, <2>6, <3>1 DEF Range
    <3> QED BY ZenonT(60), <3>1, <3>2, FunctionIsSeq DEF IsSeq
  <2>12. PostOK(post, n, cut)
    BY ZenonT(60), <2>6, <2>9, <2>10, <2>11 DEF PostOK
  <2>13. QueueOK(q, n, cut) /\ IsSeq(q)
    BY Zenon, <1>3 DEF Agrees, PostsOK, QueueOK
  <2>14. QueueOK(Append(q, post), n, cut)
    BY ZenonT(60), <2>10, <2>12, <2>13, QueueAppend
  <2>15. Range(Append(q, post)) = Range(q) \cup {post}
    BY Zenon, <2>13, AppendHolds
  <2>16. \A m \in Nodes : posts'[m] = IF m = n THEN Append(q, post) ELSE posts[m]
    BY Zenon, <1>3, <1>6
  <2>17. \A m \in Nodes : QueueOK(posts'[m], m, cut)
    BY ZenonT(60), <2>14, <2>16 DEF Agrees, PostsOK
  <2>18. \A m \in Nodes : \A x \in Range(posts'[m]) : IsFresh(x) => outcome[PostOf(x)] # "none"
    <3>1. \A m \in Nodes : \A x \in Range(posts'[m]) : x = post \/ x \in Range(posts[m])
      BY Zenon, <2>15, <2>16
    <3> QED BY ZenonT(60), <2>10, <3>1 DEF Agrees, PostsOK
  <2>19. PostsOK(cut)' /\ DOMAIN posts' = Nodes
    BY ZenonT(60), <1>2, <1>3, <1>6, <2>17, <2>18 DEF Agrees, PostsOK
  <2>20. OutgoingOK(cut, L)' /\ DOMAIN outgoing' = Nodes
    <3>1. TrackerOK(AddHandle(outgoing[n], msg.handle, ReplyCallback(msg.peer)), cut, L)
      BY ZenonT(60), <1>3, AddHandleKeeps DEF Agrees, OutgoingOK
    <3> QED BY ZenonT(60), <1>3, <1>6, <3>1 DEF Agrees, OutgoingOK
  <2> QED BY ZenonT(60), <1>1, <1>2, <1>4, <2>19, <2>20, ReceiverMoves
<1> QED BY Zenon, <1>5, <1>6 DEF RecvRead

\* The receive thread runs a callback, or completes a request.
LEMMA RecvCallbackKeeps ==
    ASSUME NEW cut \in Cuts, NEW L, Agrees(cut, L), NEW e \in Ends,
           RecvCallback(e) \/ RecvComplete(e)
    PROVE  Agrees(cut, L)'
<1>1. UNCHANGED <<main, infos, chunks, sender, workers, env, posts, outgoing, wire>>
  BY Zenon DEF RecvCallback, RecvComplete, ReceiverUnchanged, engineVars, workerVars, netVars
<1>2. /\ OutgoingOK(cut, L)' /\ DOMAIN outgoing' = Nodes /\ WiresOK(cut, L)' /\ DOMAIN wire' = Ends
      /\ DOMAIN posts' = Nodes
  BY Zenon, <1>1, SameTrackers DEF Agrees, Shapes
<1>3. /\ IncomingOK(cut, L) /\ PostsOK(cut) /\ DOMAIN incoming = Nodes /\ DOMAIN outcome = Posts
      /\ ReceiverOK(receiver[e], e, cut, L) /\ DOMAIN receiver = Ends
  BY Zenon DEF Agrees, Shapes, ReceiversOK
<1>4. IncomingOK(cut, L)' /\ PostsOK(cut)' /\ DOMAIN incoming' = Nodes /\ DOMAIN outcome' = Posts
  <2>1. CASE RecvCallback(e)
    BY ZenonT(60), <1>1, <1>3, <2>1, CallbackKeeps DEF RecvCallback
  <2>2. CASE RecvComplete(e)
    BY ZenonT(60), <1>1, <1>3, <2>2, CompleteKeeps DEF RecvComplete
  <2> QED BY Zenon, <2>1, <2>2
<1>5. PICK x : receiver' = [receiver EXCEPT ![e] = x] /\ ReceiverOK(x, e, cut, L)
  <2>1. CASE RecvCallback(e)
    BY Zenon, <2>1, RestOK DEF RecvCallback, Returned
  <2>2. CASE RecvComplete(e)
    <3>1. receiver[e].at = "complete" /\ receiver' = [receiver EXCEPT ![e] = [receiver[e] EXCEPT !.at = "ack"]]
      BY Zenon, <2>2 DEF RecvComplete, Now
    <3>2. <<receiver[e].msg.reqid, receiver[e].msg.index>> \in L
      BY Zenon, <1>3, <3>1 DEF ReceiverOK
    <3>3. ReceiverOK([receiver[e] EXCEPT !.at = "ack"], e, cut, L)
      BY ZenonT(60), <1>3, <3>1, <3>2, AtChanges DEF Looking
    <3> QED BY Zenon, <3>1, <3>3
  <2> QED BY Zenon, <2>1, <2>2
<1> QED BY ZenonT(60), <1>1, <1>2, <1>4, <1>5, ReceiverMoves

\* Transfer::recvData: the header of a chunk.
LEMMA RecvDataKeeps ==
    ASSUME NEW cut \in Cuts, NEW L, Agrees(cut, L), NEW e \in Ends, NEW k, RecvData(e, k)
    PROVE  Agrees(cut, L)'
<1> DEFINE msg == wire[e][k]
<1>1. WiresOK(cut, L)' /\ DOMAIN wire' = Ends /\ MsgOK(msg, e, cut, L)
  BY Zenon, Received DEF RecvData
<1>2. msg.type = "data" /\ ~IsAck(msg)
  BY Zenon DEF RecvData
<1>3. UNCHANGED <<main, infos, chunks, sender, workers, env, posts, outcome, outgoing, incoming>>
  BY Zenon DEF RecvData, ReceiverUnchanged, engineVars, workerVars
<1>4. /\ PostsOK(cut)' /\ DOMAIN posts' = Nodes /\ DOMAIN outcome' = Posts
      /\ OutgoingOK(cut, L)' /\ DOMAIN outgoing' = Nodes /\ IncomingOK(cut, L)' /\ DOMAIN incoming' = Nodes
  BY Zenon, <1>3, SameTrackers
<1>5. \/ receiver' = [receiver EXCEPT ![e] = [Idle("addr") EXCEPT !.msg = msg]]
      \/ \E at \in {"run", "stop"} : receiver' = [receiver EXCEPT ![e] = Idle(at)]
  BY Zenon DEF RecvData, Failed
<1> HIDE DEF msg
<1>6. e[2] = "acc" /\ DataOK(msg, e[1], cut)
  BY Zenon, <1>1, <1>2 DEF MsgOK, InfoOK, AckOK, IsAck
<1>7. ReceiverOK([Idle("addr") EXCEPT !.msg = msg], e, cut, L)
  <2> DEFINE y == [Idle("addr") EXCEPT !.msg = msg]
  <2>1. y \in [at : {"addr"}, msg : {msg}, dst : {NullAddr}, cb : {NoCallback}]
    BY Zenon DEF Idle
  <2> HIDE DEF y
  <2>2. ReceiverOK(y, e, cut, L)
    BY Zenon, <1>6, <2>1 DEF ReceiverOK, Looking
  <2> QED BY Zenon, <2>2 DEF y
<1>8. PICK x : receiver' = [receiver EXCEPT ![e] = x] /\ ReceiverOK(x, e, cut, L)
  BY ZenonT(60), <1>5, <1>7, RestOK
<1> QED BY ZenonT(60), <1>1, <1>3, <1>4, <1>8, ReceiverMoves

\* Transfer::sendAck.
LEMMA RecvSendAckKeeps ==
    ASSUME NEW cut \in Cuts, NEW L, Agrees(cut, L), NEW e \in Ends, RecvSendAck(e)
    PROVE  Agrees(cut, L)'
<1> DEFINE msg == receiver[e].msg
           ack == [msg EXCEPT !.len = 0, !.payload = <<>>]
<1>1. ReceiverOK(receiver[e], e, cut, L) /\ receiver[e].at = "ack"
  BY Zenon DEF Agrees, ReceiversOK, RecvSendAck
<1>2. e[2] = "acc" /\ DataOK(msg, e[1], cut) /\ <<msg.reqid, msg.index>> \in L
  BY Zenon, <1>1, EndsOf DEF ReceiverOK, Looking
<1>3. \/ Transmit(e, ack) /\ receiver' = [receiver EXCEPT ![e] = Idle("run")]
      \/ UNCHANGED wire /\ \E at \in {"run", "stop"} : receiver' = [receiver EXCEPT ![e] = Idle(at)]
  BY Zenon DEF RecvSendAck, Returned, Failed
<1>4. UNCHANGED <<main, infos, chunks, sender, workers, env, posts, outcome, outgoing, incoming>>
  BY Zenon DEF RecvSendAck, ReceiverUnchanged, engineVars, workerVars
<1>5. /\ PostsOK(cut)' /\ DOMAIN posts' = Nodes /\ DOMAIN outcome' = Posts
      /\ OutgoingOK(cut, L)' /\ DOMAIN outgoing' = Nodes /\ IncomingOK(cut, L)' /\ DOMAIN incoming' = Nodes
  BY Zenon, <1>4, SameTrackers
<1>6. PICK x : receiver' = [receiver EXCEPT ![e] = x] /\ ReceiverOK(x, e, cut, L)
  BY Zenon, <1>3, RestOK
<1>7. AckOK(ack, L)
  <2> HIDE DEF msg
  <2>1. msg \in [type : {"data"}, handle : {msg.handle}, reqid : {msg.reqid}, index : {msg.index},
              len : {msg.len}, offset : {msg.offset}, payload : {msg.payload}]
    BY Zenon, <1>2 DEF DataOK
  <2>2. ack.type = "data" /\ ack.len = 0 /\ ack.reqid = msg.reqid /\ ack.index = msg.index
    BY Zenon, <2>1
  <2> QED BY Zenon, <1>2, <2>2 DEF AckOK
<1> HIDE DEF msg, ack
<1>8. MsgOK(ack, OtherEnd(e), cut, L)
  BY ZenonT(60), <1>2, <1>7, EndsOf DEF MsgOK
<1>9. WiresOK(cut, L)' /\ DOMAIN wire' = Ends
  <2>1. CASE Transmit(e, ack)
    BY ZenonT(60), <1>8, <2>1, TransmitKeeps DEF Agrees, Shapes
  <2>2. CASE UNCHANGED wire
    BY Zenon, <2>2, SameTrackers
  <2> QED BY ZenonT(60), <1>3, <2>1, <2>2
<1> QED BY ZenonT(60), <1>4, <1>5, <1>6, <1>9, ReceiverMoves

\* A step of the receive path that changes at most incoming_.
LEMMA LookupKeeps ==
    ASSUME NEW cut, NEW L, Agrees(cut, L), NEW e \in Ends, LookupUnchanged,
           IncomingOK(cut, L)', DOMAIN incoming' = Nodes,
           NEW x, receiver' = [receiver EXCEPT ![e] = x], ReceiverOK(x, e, cut, L)
    PROVE  Agrees(cut, L)'
<1>1. UNCHANGED <<main, infos, chunks, sender, workers, env, posts, outcome, outgoing, wire>>
  BY Zenon DEF LookupUnchanged, ReceiverUnchanged, engineVars, workerVars, netVars
<1>2. /\ PostsOK(cut)' /\ DOMAIN posts' = Nodes /\ DOMAIN outcome' = Posts
      /\ OutgoingOK(cut, L)' /\ DOMAIN outgoing' = Nodes /\ WiresOK(cut, L)' /\ DOMAIN wire' = Ends
  BY Zenon, <1>1, SameTrackers
<1> QED BY ZenonT(60), <1>1, <1>2, ReceiverMoves

\* What Now assigns.
LEMMA NowSets ==
    ASSUME NEW e \in Ends, NEW at, Now(e, at)
    PROVE  receiver' = [receiver EXCEPT ![e] = [receiver[e] EXCEPT !.at = at]]
BY Zenon DEF Now

\* GetChunkAddr returns the destination of the chunk; Find and the end of a stream.
LEMMA RecvLookupKeeps ==
    ASSUME NEW cut \in Cuts, NEW L, Agrees(cut, L), NEW e \in Ends,
           RecvAddr(e) \/ RecvFind(e) \/ RecvEof(e)
    PROVE  Agrees(cut, L)'
<1>1. UNCHANGED incoming /\ LookupUnchanged
  BY Zenon DEF RecvAddr, RecvFind, RecvEof
<1>2. IncomingOK(cut, L)' /\ DOMAIN incoming' = Nodes
  BY Zenon, <1>1, SameTrackers
<1>3. ReceiverOK(receiver[e], e, cut, L) /\ DOMAIN receiver = Ends
  BY Zenon DEF Agrees, Shapes, ReceiversOK
<1>4. PICK x : receiver' = [receiver EXCEPT ![e] = x] /\ ReceiverOK(x, e, cut, L)
  <2>1. CASE RecvEof(e)
    BY Zenon, <2>1, RestOK DEF RecvEof
  <2>2. CASE RecvFind(e)
    <3>1. PICK at \in {"acquire", "abort"} : Now(e, at)
      BY Zenon, <2>2 DEF RecvFind
    <3>2. ReceiverOK([receiver[e] EXCEPT !.at = at], e, cut, L)
      BY Zenon, <1>3, <2>2, AtChanges DEF RecvFind, Looking
    <3> QED BY Zenon, <3>1, <3>2, NowSets
  <2>3. CASE RecvAddr(e)
    <3> DEFINE n == NodeOf(e)
               msg == receiver[e].msg
               addr == GetChunkAddr(incoming[n], msg.handle, msg.reqid, peerOf[e])
    <3>1. CASE \E at \in {"run", "stop"} : receiver' = [receiver EXCEPT ![e] = Idle(at)]
      BY Zenon, <3>1, RestOK
    <3>2. CASE addr # NullAddr /\ receiver' = [receiver EXCEPT ![e].at = "find", ![e].dst = addr]
      <4>1. receiver[e].at = "addr" /\ e[2] = "acc" /\ DataOK(msg, e[1], cut)
        BY ZenonT(60), <1>3, <2>3, EndsOf DEF ReceiverOK, RecvAddr
      <4>2. n \in Nodes /\ n = Target(msg.reqid)
        BY ZenonT(60), <4>1, EndsOf DEF DataOK, OnItsWay
      <4>3. TargetsOK(incoming[n], n)
        BY Zenon, <4>2 DEF Agrees, IncomingOK
      <4>4. addr = Dst(msg.reqid)
        BY Zenon, <3>2, <4>2, <4>3 DEF GetChunkAddr, HasReq, TargetsOK, AimsAt
      <4> HIDE DEF addr
      <4> DEFINE y == [receiver[e] EXCEPT !.at = "find", !.dst = addr]
      <4>5. receiver' = [receiver EXCEPT ![e] = y]
        BY Zenon, <1>3, <3>2
      <4>6. y \in [at : {"find"}, msg : {msg}, dst : {addr}, cb : {receiver[e].cb}]
        BY Zenon, <1>3 DEF ReceiverOK
      <4> HIDE DEF y, msg
      <4>7. ReceiverOK(y, e, cut, L)
        BY ZenonT(60), <3>2, <4>1, <4>4, <4>6 DEF ReceiverOK, Looking
      <4> QED BY ZenonT(60), <4>5, <4>7
    <3> QED BY ZenonT(60), <2>3, <3>1, <3>2 DEF RecvAddr, Failed
  <2> QED BY Zenon, <2>1, <2>2, <2>3
<1> QED BY ZenonT(60), <1>1, <1>2, <1>4, LookupKeeps

\* Acquire and Release write the chunks of the entry.
LEMMA PutChunksKeeps ==
    ASSUME NEW cut, NEW L, Agrees(cut, L), NEW e \in Ends, Holds(e), NEW ct, PutChunks(e, ct),
           ct \in [total : {cut[receiver[e].msg.reqid]}, done : {ct.done}, busy : {ct.busy}],
           \A i \in ct.done : <<receiver[e].msg.reqid, i>> \in L
    PROVE  IncomingOK(cut, L)' /\ DOMAIN incoming' = Nodes
<1> DEFINE n == NodeOf(e)
           m == receiver[e].msg
           t == WithChunks(incoming[n], m.handle, m.reqid, peerOf[e], ct)
<1>1. n \in Nodes /\ DOMAIN incoming = Nodes /\ TrackerOK(incoming[n], cut, L) /\ TargetsOK(incoming[n], n)
  BY Zenon, EndsOf DEF Agrees, Shapes, IncomingOK
<1>2. HasReq(incoming[n], m.handle, m.reqid, peerOf[e])
  BY Zenon DEF Holds
<1>3. TrackerOK(t, cut, L) /\ TargetsOK(t, n)
  BY Zenon, <1>1, <1>2, WithChunksKeeps
<1>4. incoming' = [incoming EXCEPT ![n] = t]
  BY Zenon, <1>1 DEF PutChunks
<1> HIDE DEF t
<1> QED BY Zenon, <1>1, <1>3, <1>4 DEF Agrees, IncomingOK

\* The chunks that Find returned.
LEMMA HeldChunks ==
    ASSUME NEW cut, NEW L, Agrees(cut, L), NEW e \in Ends, Holds(e)
    PROVE  /\ ChunksAt(e) \in [total : {cut[receiver[e].msg.reqid]}, done : {ChunksAt(e).done}, busy : {ChunksAt(e).busy}]
           /\ \A i \in ChunksAt(e).done : <<receiver[e].msg.reqid, i>> \in L
<1>1. NodeOf(e) \in Nodes /\ TrackerOK(incoming[NodeOf(e)], cut, L)
  BY Zenon, EndsOf DEF Agrees, IncomingOK
<1> QED BY ZenonT(60), <1>1 DEF Holds, HasReq, ChunksAt, TrackerOK, EntryOK, ReqOK

\* ChunkTracker::Acquire: a chunk that is done already has landed.
LEMMA RecvAcquireKeeps ==
    ASSUME NEW cut \in Cuts, NEW L, Agrees(cut, L), NEW e \in Ends, RecvAcquire(e)
    PROVE  Agrees(cut, L)'
<1> DEFINE i == receiver[e].msg.index
           ct == ChunksAt(e)
<1>1. LookupUnchanged /\ receiver[e].at = "acquire"
  BY Zenon DEF RecvAcquire
<1>2. ReceiverOK(receiver[e], e, cut, L)
  BY Zenon DEF Agrees, ReceiversOK
<1>3. CASE ~Holds(e)
  <2>1. Now(e, "dangling") /\ UNCHANGED incoming
    BY Zenon, <1>3 DEF RecvAcquire
  <2>2. ReceiverOK([receiver[e] EXCEPT !.at = "dangling"], e, cut, L)
    BY ZenonT(60), <1>1, <1>2, AtChanges DEF Looking
  <2>3. IncomingOK(cut, L)' /\ DOMAIN incoming' = Nodes
    BY Zenon, <2>1, SameTrackers
  <2> QED BY ZenonT(60), <1>1, <2>1, <2>2, <2>3, NowSets, LookupKeeps
<1>4. CASE Holds(e)
  <2>1. /\ ct \in [total : {cut[receiver[e].msg.reqid]}, done : {ct.done}, busy : {ct.busy}]
        /\ \A k \in ct.done : <<receiver[e].msg.reqid, k>> \in L
    BY Zenon, <1>4, HeldChunks
  <2>2. PutChunks(e, Acquire(ct, i))
    BY Zenon, <1>4 DEF RecvAcquire
  <2>3. \/ Now(e, "payload")
        \/ i \in ct.done /\ Now(e, "ack")
        \/ \E at \in {"run", "stop"} : receiver' = [receiver EXCEPT ![e] = Idle(at)]
    <3>1. AcquireStatus(ct, i) \in {"kEmpty", "kDone", "kBusy"} /\ (AcquireStatus(ct, i) = "kDone" => i \in ct.done)
      BY Zenon DEF AcquireStatus
    <3> QED BY Zenon, <1>4, <3>1 DEF RecvAcquire, Returned, Failed
  <2> HIDE DEF ct
  <2>4. /\ Acquire(ct, i) \in [total : {cut[receiver[e].msg.reqid]}, done : {Acquire(ct, i).done},
                               busy : {Acquire(ct, i).busy}]
        /\ Acquire(ct, i).done = ct.done
    BY Zenon, <2>1 DEF Acquire
  <2>5. IncomingOK(cut, L)' /\ DOMAIN incoming' = Nodes
    BY ZenonT(60), <1>4, <2>1, <2>2, <2>4, PutChunksKeeps
  <2>6. PICK x : receiver' = [receiver EXCEPT ![e] = x] /\ ReceiverOK(x, e, cut, L)
    <3>1. CASE Now(e, "payload")
      <4>1. ReceiverOK([receiver[e] EXCEPT !.at = "payload"], e, cut, L)
        BY ZenonT(60), <1>1, <1>2, AtChanges DEF Looking
      <4> QED BY ZenonT(60), <3>1, <4>1, NowSets
    <3>2. CASE i \in ct.done /\ Now(e, "ack")
      <4>1. ReceiverOK([receiver[e] EXCEPT !.at = "ack"], e, cut, L)
        BY ZenonT(60), <1>1, <1>2, <2>1, <3>2, AtChanges DEF Looking
      <4> QED BY ZenonT(60), <3>2, <4>1, NowSets
    <3>3. CASE \E at \in {"run", "stop"} : receiver' = [receiver EXCEPT ![e] = Idle(at)]
      BY ZenonT(60), <3>3, RestOK
    <3> QED BY ZenonT(60), <2>3, <3>1, <3>2, <3>3
  <2> QED BY ZenonT(60), <1>1, <2>5, <2>6, LookupKeeps
<1> QED BY Zenon, <1>3, <1>4

\* ChunkTracker::Release after a payload, whole or cut short.
LEMMA RecvReleaseKeeps ==
    ASSUME NEW cut \in Cuts, NEW L, Agrees(cut, L), NEW e \in Ends, RecvRelease(e)
    PROVE  Agrees(cut, L)'
<1> DEFINE i == receiver[e].msg.index
           success == receiver[e].at = "full"
           ct == ChunksAt(e)
           ct2 == Release(ct, i, success)
<1>1. LookupUnchanged /\ receiver[e].at \in {"full", "short"}
  BY Zenon DEF RecvRelease
<1>2. ReceiverOK(receiver[e], e, cut, L)
  BY Zenon DEF Agrees, ReceiversOK
<1>3. success => <<receiver[e].msg.reqid, i>> \in L
  BY Zenon, <1>2 DEF ReceiverOK
<1>4. CASE ~Holds(e)
  <2>1. Now(e, "dangling") /\ UNCHANGED incoming
    BY ZenonT(60), <1>4 DEF RecvRelease
  <2>2. ReceiverOK([receiver[e] EXCEPT !.at = "dangling"], e, cut, L)
    BY ZenonT(60), <1>1, <1>2, AtChanges DEF Looking
  <2>3. IncomingOK(cut, L)' /\ DOMAIN incoming' = Nodes
    BY Zenon, <2>1, SameTrackers
  <2> QED BY ZenonT(60), <1>1, <2>1, <2>2, <2>3, NowSets, LookupKeeps
<1>5. CASE Holds(e)
  <2>1. /\ ct \in [total : {cut[receiver[e].msg.reqid]}, done : {ct.done}, busy : {ct.busy}]
        /\ \A k \in ct.done : <<receiver[e].msg.reqid, k>> \in L
    BY Zenon, <1>5, HeldChunks
  <2>2. PutChunks(e, ct2)
    BY Zenon, <1>5 DEF RecvRelease
  <2>3. \/ success /\ \E at \in {"complete", "ack"} : Now(e, at)
        \/ \E at \in {"run", "stop"} : receiver' = [receiver EXCEPT ![e] = Idle(at)]
    BY Zenon, <1>5 DEF RecvRelease, Failed, ReleaseIsLast
  <2> HIDE DEF ct, success
  <2>4. ct2 \in [total : {cut[receiver[e].msg.reqid]}, done : {ct2.done}, busy : {ct2.busy}]
        /\ ct2.done = IF success THEN ct.done \cup {i} ELSE ct.done
    BY Zenon, <2>1 DEF Release
  <2>5. \A k \in ct2.done : <<receiver[e].msg.reqid, k>> \in L
    BY ZenonT(60), <1>3, <2>1, <2>4
  <2> HIDE DEF ct2
  <2>6. IncomingOK(cut, L)' /\ DOMAIN incoming' = Nodes
    BY ZenonT(60), <1>5, <2>2, <2>4, <2>5, PutChunksKeeps
  <2>7. PICK x : receiver' = [receiver EXCEPT ![e] = x] /\ ReceiverOK(x, e, cut, L)
    <3>1. CASE success /\ \E at \in {"complete", "ack"} : Now(e, at)
      <4>1. PICK at \in {"complete", "ack"} : Now(e, at)
        BY Zenon, <3>1
      <4>2. ReceiverOK([receiver[e] EXCEPT !.at = at], e, cut, L)
        BY ZenonT(60), <1>1, <1>2, <1>3, <3>1, AtChanges DEF Looking
      <4> QED BY ZenonT(60), <4>1, <4>2, NowSets
    <3>2. CASE \E at \in {"run", "stop"} : receiver' = [receiver EXCEPT ![e] = Idle(at)]
      BY Zenon, <3>2, RestOK
    <3> QED BY ZenonT(60), <2>3, <3>1, <3>2
  <2> QED BY ZenonT(60), <1>1, <2>6, <2>7, LookupKeeps
<1> QED BY Zenon, <1>4, <1>5

\* The payload is read into the buffer.
LEMMA RecvPayloadKeeps ==
    ASSUME NEW cut \in Cuts, MemOK(mem), Agrees(cut, Landed(cut, mem)), NEW e \in Ends, RecvPayload(e)
    PROVE  MemOK(mem)' /\ Agrees(cut, Landed(cut, mem))' /\ Stays(mem, mem')
<1> DEFINE msg == receiver[e].msg
           r == msg.reqid
<1>1. LookupUnchanged /\ UNCHANGED incoming /\ receiver[e].at = "payload"
  BY Zenon DEF RecvPayload
<1>2. ReceiverOK(receiver[e], e, cut, Landed(cut, mem))
  BY Zenon DEF Agrees, ReceiversOK
<1>3. DataOK(msg, e[1], cut) /\ receiver[e].dst = Dst(r) /\ Dst(r) # NullAddr
  BY Zenon, <1>1, <1>2 DEF ReceiverOK, Looking
<1>4. /\ r \in Requests /\ cut[r] # 0 /\ msg.index \in 0 .. (cut[r] - 1)
      /\ msg.offset = ChunkOffset(LenOf(r), cut[r], msg.index)
      /\ msg.len = ChunkLen(LenOf(r), cut[r], msg.index) /\ msg.len \in Nat
  BY Zenon, <1>3, ChunkFits DEF DataOK
<1>5. PICK n \in IF CanEndShort(e) THEN 0 .. msg.len ELSE {msg.len} :
        /\ mem' = StoreBytes(receiver[e].dst, msg.offset, [k \in 0 .. n - 1 |-> msg.payload[k]])
        /\ Now(e, IF n = msg.len THEN "full" ELSE "short")
  BY Zenon DEF RecvPayload
<1>5a. n \in 0 .. msg.len
  <2>1. CASE CanEndShort(e)
    BY ZenonT(60), <2>1, <1>5
  <2>2. CASE ~CanEndShort(e)
    <3>1. n = msg.len
      BY ZenonT(60), <2>2, <1>5
    <3>2. msg.len \in Nat
      BY ZenonT(60), <1>4
    <3> QED BY <3>1, <3>2
  <2> QED BY Zenon, <2>1, <2>2
<1> DEFINE bytes == [k \in 0 .. n - 1 |-> msg.payload[k]]
           i == msg.index
           at == IF n = msg.len THEN "full" ELSE "short"
<1>6. n \in Nat /\ DOMAIN bytes = 0 .. (n - 1)
      /\ \A k \in 0 .. (n - 1) : bytes[k] = <<Src(r), ChunkOffset(LenOf(r), cut[r], i) + k>>
  <2>1. \A k \in 0 .. (msg.len - 1) : msg.payload[k] = <<Src(r), msg.offset + k>>
    BY ZenonT(60), <1>3 DEF DataOK
  <2>2. n \in Nat /\ \A k \in 0 .. (n - 1) : k \in 0 .. (msg.len - 1)
    BY SMTT(60), <1>4, <1>5a
  <2>3. DOMAIN bytes = 0 .. (n - 1) /\ \A k \in 0 .. (n - 1) : bytes[k] = msg.payload[k]
    OBVIOUS
  <2> HIDE DEF bytes
  <2> QED BY ZenonT(60), <1>4, <2>1, <2>2, <2>3
<1>7. mem' = Stored(mem, Dst(r), ChunkOffset(LenOf(r), cut[r], i), bytes)
  BY ZenonT(60), <1>3, <1>4, <1>5 DEF StoreBytes, Stored
<1> HIDE DEF bytes
<1>8. PICK L : L = Landed(cut, mem')
  BY SMTT(30)
<1>9. MemOK(mem') /\ Stays(mem, mem') /\ Landed(cut, mem) \subseteq L /\ (n = msg.len => <<r, i>> \in L)
  <2> DEFINE M == mem
  <2>1. r \in Requests /\ Dst(r) # NullAddr /\ cut[r] # 0 /\ i \in 0 .. (cut[r] - 1)
        /\ (n = msg.len => n = ChunkLen(LenOf(r), cut[r], i))
    BY ZenonT(60), <1>3, <1>4
  <2> HIDE DEF r, i
  <2>2. LET M2 == Stored(M, Dst(r), ChunkOffset(LenOf(r), cut[r], i), bytes)
        IN  /\ MemOK(M2) /\ Stays(M, M2) /\ Landed(cut, M) \subseteq Landed(cut, M2)
            /\ (n = ChunkLen(LenOf(r), cut[r], i) => <<r, i>> \in Landed(cut, M2))
    BY ZenonT(60), <1>6, <2>1, StoreLands
  <2> QED BY ZenonT(60), <1>7, <1>8, <2>1, <2>2
<1>10. Agrees(cut, L)
  BY Zenon, <1>9, MoreLanded
<1>11. ReceiverOK([receiver[e] EXCEPT !.at = at], e, cut, L)
  <2>1. ReceiverOK(receiver[e], e, cut, L) /\ receiver[e].at \in Looking
    BY ZenonT(60), <1>1, <1>10 DEF Agrees, ReceiversOK, Looking
  <2>2. at \in Looking \cup {"abort", "dangling"} /\ (at \in {"full", "complete", "ack"} => n = msg.len)
    BY Zenon DEF Looking
  <2> HIDE DEF at
  <2> QED BY ZenonT(60), <1>9, <2>1, <2>2, AtChanges
<1>12. IncomingOK(cut, L)' /\ DOMAIN incoming' = Nodes
  BY Zenon, <1>1, <1>10, SameTrackers
<1>13. Agrees(cut, L)'
  BY ZenonT(60), <1>1, <1>5, <1>10, <1>11, <1>12, NowSets, LookupKeeps
<1> QED BY ZenonT(60), <1>8, <1>9, <1>13
=============================================================================
