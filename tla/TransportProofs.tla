-------------------------- MODULE TransportProofs --------------------------
(***************************************************************************)
(* The steps of the send threads, of the network and of users that poll    *)
(* keep the invariant of TransportLemmas, where a one-sided write adds to  *)
(* the set L of chunks that have landed.  Then the theorems about the      *)
(* transport: a post that is reported complete has all its bytes in place, *)
(* and bytes in place are never overwritten.                               *)
(***************************************************************************)
EXTENDS TransportMainProofs, TransportRecvProofs

\* Engine::Poll.
LEMMA PollKeeps ==
    ASSUME NEW cut \in Cuts, NEW L, Agrees(cut, L), NEW p \in Posts, PollStep(p)
    PROVE  Agrees(cut, L)'
<1> DEFINE n == Plan[p].node
           key == <<NoPeer, handleOf[p]>>
<1>1. PollUnchanged
  BY Zenon DEF PollStep, PollOutgoing, PollIncoming, PollRemove
<1>2. (MainsOK(cut) /\ InfosOK(cut) /\ ChunksOK(cut) /\ SendersOK(L) /\ WiresOK(cut, L) /\ ReceiversOK(cut, L))'
  BY Zenon, <1>1 DEF Agrees, PollUnchanged, engineVars, workerVars, netVars,
              MainsOK, InfosOK, ChunksOK, SendersOK, WiresOK, ReceiversOK
<1>3. outgoing' = outgoing \/ outgoing' = [outgoing EXCEPT ![n] = Erase(@, key)]
  BY Zenon DEF PollStep, PollOutgoing, PollIncoming, PollRemove
<1>4. incoming' = incoming \/ incoming' = [incoming EXCEPT ![n] = Erase(@, key)]
  BY Zenon DEF PollStep, PollOutgoing, PollIncoming, PollRemove
<1>5. outcome' = outcome \/ \E o \in {"not_found", "success"} : outcome' = [outcome EXCEPT ![p] = o]
  BY Zenon DEF PollStep, PollOutgoing, PollIncoming, PollRemove
<1>6. Shapes'
  BY ZenonT(60), <1>1, <1>3, <1>4, <1>5 DEF Agrees, Shapes, PollUnchanged, engineVars, workerVars, netVars
<1>7. OutgoingOK(cut, L)'
  BY SMTT(60), <1>3, EraseKeeps DEF Agrees, OutgoingOK, Shapes
<1>8. IncomingOK(cut, L)'
  BY SMTT(60), <1>4, EraseKeeps DEF Agrees, IncomingOK, Shapes
<1>9. PostsOK(cut)'
  <2>1. \A q \in Posts : outcome'[q] = "none" => outcome[q] = "none"
    BY Zenon, <1>5 DEF Agrees, Shapes
  <2>2. UNCHANGED posts
    BY Zenon, <1>1 DEF PollUnchanged, engineVars
  <2> QED BY ZenonT(60), <2>1, <2>2, OutcomeKeeps DEF Agrees
<1> QED BY ZenonT(60), <1>2, <1>6, <1>7, <1>8, <1>9 DEF Agrees

-----------------------------------------------------------------------------
\* The network.

\* A connection breaks.
LEMMA BreakKeeps ==
    ASSUME NEW cut \in Cuts, NEW L, Agrees(cut, L), NEW c \in Channels, Break(c)
    PROVE  Agrees(cut, L)'
<1>0. <<c, "acc">> \in Ends /\ <<c, "conn">> \in Ends /\ <<c, "acc">> # <<c, "conn">>
  BY Zenon DEF Ends
<1>1. PICK k \in 0 .. Len(wire[<<c, "acc">>]), l \in 0 .. Len(wire[<<c, "conn">>]) :
         wire' = [wire EXCEPT ![<<c, "acc">>] = SubSeq(@, 1, k), ![<<c, "conn">>] = SubSeq(@, 1, l)]
  BY Zenon DEF Break
<1>2. (PostsOK(cut) /\ MainsOK(cut) /\ OutgoingOK(cut, L) /\ IncomingOK(cut, L)
       /\ InfosOK(cut) /\ ChunksOK(cut) /\ SendersOK(L) /\ ReceiversOK(cut, L))'
  BY Zenon DEF Agrees, Break, NetUnchanged, engineVars, workerVars, userVars, PostsOK,
         MainsOK, OutgoingOK, IncomingOK, InfosOK, ChunksOK, SendersOK, ReceiversOK
<1>3. Shapes'
  BY Zenon, <1>1 DEF Agrees, Shapes, Break, NetUnchanged, engineVars, workerVars, userVars
<1>4. DOMAIN wire = Ends
  BY Zenon DEF Agrees, Shapes
<1>5. ASSUME NEW e \in Ends PROVE WireOK(wire'[e], e, cut, L)
  <2>1. WireOK(wire[e], e, cut, L)
    BY Zenon DEF Agrees, WiresOK
  <2>2. CASE e = <<c, "acc">>
    <3>1. wire'[e] = SubSeq(wire[e], 1, k)
      BY ZenonT(60), <1>0, <1>1, <1>4, <2>2
    <3>2. IsSeq(wire[e]) /\ Len(wire[e]) \in Nat
      BY <2>1 DEF WireOK, IsSeq
    <3>2a. 1 \in 1 .. (Len(wire[e]) + 1) /\ k \in 0 .. Len(wire[e])
      BY <3>2, <2>2
    <3>3. IsSeq(wire'[e]) /\ Range(wire'[e]) \subseteq Range(wire[e])
      BY ZenonT(60), <3>1, <3>2, <3>2a, SubSeqHolds
    <3> QED BY Zenon, <2>1, <3>3 DEF WireOK
  <2>3. CASE e = <<c, "conn">>
    <3>1. wire'[e] = SubSeq(wire[e], 1, l)
      BY ZenonT(60), <1>0, <1>1, <1>4, <2>3
    <3>2. IsSeq(wire[e]) /\ Len(wire[e]) \in Nat
      BY <2>1 DEF WireOK, IsSeq
    <3>2a. 1 \in 1 .. (Len(wire[e]) + 1) /\ l \in 0 .. Len(wire[e])
      BY <3>2, <2>3
    <3>3. IsSeq(wire'[e]) /\ Range(wire'[e]) \subseteq Range(wire[e])
      BY ZenonT(60), <3>1, <3>2, <3>2a, SubSeqHolds
    <3> QED BY Zenon, <2>1, <3>3 DEF WireOK
  <2>4. CASE e # <<c, "acc">> /\ e # <<c, "conn">>
    BY ZenonT(60), <1>1, <1>4, <2>1, <2>4
  <2> QED BY ZenonT(60), <2>2, <2>3, <2>4
<1>6. WiresOK(cut, L)'
  BY Zenon, <1>5 DEF WiresOK
<1> QED BY Zenon, <1>2, <1>3, <1>6 DEF Agrees

\* A datagram is lost or duplicated.
LEMMA LoseOrDuplicateKeeps ==
    ASSUME NEW cut \in Cuts, NEW L, Agrees(cut, L), NEW e \in Ends, NEW k \in DOMAIN wire[e],
           Lose(e, k) \/ Duplicate(e, k)
    PROVE  Agrees(cut, L)'
<1>1. \/ wire' = [wire EXCEPT ![e] = Without(@, k)]
      \/ wire' = [wire EXCEPT ![e] = Append(@, @[k])]
  BY Zenon DEF Lose, Duplicate
<1>2. (PostsOK(cut) /\ MainsOK(cut) /\ OutgoingOK(cut, L) /\ IncomingOK(cut, L)
       /\ InfosOK(cut) /\ ChunksOK(cut) /\ SendersOK(L) /\ ReceiversOK(cut, L))'
  BY Zenon DEF Agrees, Lose, Duplicate, NetUnchanged, engineVars, workerVars, userVars, PostsOK,
         MainsOK, OutgoingOK, IncomingOK, InfosOK, ChunksOK, SendersOK, ReceiversOK
<1>3. Shapes'
  BY Zenon, <1>1 DEF Agrees, Shapes, Lose, Duplicate, NetUnchanged, engineVars, workerVars, userVars
<1>4. DOMAIN wire = Ends /\ WireOK(wire[e], e, cut, L)
  BY Zenon DEF Agrees, Shapes, WiresOK
<1>5. wire[e][k] \in Range(wire[e])
  BY Zenon DEF Range
<1>6. IsSeq(wire'[e]) /\ Range(wire'[e]) \subseteq Range(wire[e])
  <2>1. CASE wire' = [wire EXCEPT ![e] = Without(@, k)]
    BY Zenon, <1>4, <2>1, WithoutHolds DEF WireOK
  <2>2. CASE wire' = [wire EXCEPT ![e] = Append(@, @[k])]
    BY SMTT(60), <1>4, <1>5, <2>2, AppendHolds DEF WireOK
  <2> QED BY Zenon, <1>1, <2>1, <2>2
<1>7. WireOK(wire'[e], e, cut, L)
  BY Zenon, <1>4, <1>6 DEF WireOK
<1>8. \A d \in Ends : d # e => wire'[d] = wire[d]
  BY Zenon, <1>1, <1>4
<1>9. WiresOK(cut, L)'
  BY ZenonT(60), <1>7, <1>8 DEF Agrees, WiresOK
<1> QED BY ZenonT(60), <1>2, <1>3, <1>9 DEF Agrees

-----------------------------------------------------------------------------
\* The send threads.

\* A worker writes a good message, or stops on an error.
LEMMA AfterWriteKeeps ==
    ASSUME NEW cut, NEW L, WiresOK(cut, L), DOMAIN wire = Ends, SendersOK(L), DOMAIN sender = Channels,
           NEW c \in Channels, NEW msg, MsgOK(msg, <<c, "acc">>, cut, L), AfterWrite(c, msg)
    PROVE  WiresOK(cut, L)' /\ DOMAIN wire' = Ends /\ SendersOK(L)' /\ DOMAIN sender' = Channels
<1>1. <<c, "conn">> \in Ends /\ OtherEnd(<<c, "conn">>) = <<c, "acc">>
  BY Zenon DEF Ends, OtherEnd
<1>2. CASE Transmit(<<c, "conn">>, msg) /\ UNCHANGED sender
  <2>1. WiresOK(cut, L)' /\ DOMAIN wire' = Ends
    BY ZenonT(60), <1>1, <1>2, TransmitKeeps
  <2> QED BY Zenon, <1>2, <2>1 DEF SendersOK
<1>3. CASE UNCHANGED wire /\ sender' = [sender EXCEPT ![c] = Idle("stop")]
  <2>1. SenderOK(Idle("stop"), L)
    BY Zenon DEF SenderOK, Idle
  <2> QED BY Zenon, <1>3, <2>1 DEF SendersOK, WiresOK
<1> QED BY Zenon, <1>2, <1>3 DEF AfterWrite

\* A worker sends descriptors.
LEMMA SendInfoKeeps ==
    ASSUME NEW cut \in Cuts, NEW L, Agrees(cut, L), NEW c \in Channels, SendInfo(c)
    PROVE  Agrees(cut, L)'
<1>1. IsSeq(infos[c]) /\ infos[c] # <<>> /\ \A x \in Range(infos[c]) : \E p \in Posts : InfoOK(x, c, p, cut)
  BY ZenonT(60) DEF SendInfo, Agrees, InfosOK
<1>2. IsSeq(Tail(infos[c])) /\ Range(Tail(infos[c])) \subseteq Range(infos[c]) /\ Head(infos[c]) \in Range(infos[c])
  BY Zenon, <1>1, TailHolds
<1>3. MsgOK(Head(infos[c]), <<c, "acc">>, cut, L)
  BY ZenonT(60), <1>1, <1>2 DEF MsgOK
<1>4. WiresOK(cut, L)' /\ DOMAIN wire' = Ends /\ SendersOK(L)' /\ DOMAIN sender' = Channels
  BY ZenonT(60), <1>3, AfterWriteKeeps DEF SendInfo, Agrees, Shapes
<1>5. infos' = [infos EXCEPT ![c] = Tail(@)] /\ DOMAIN infos = Channels
  BY Zenon DEF SendInfo, Agrees, Shapes
<1>6. InfosOK(cut)'
  BY ZenonT(60), <1>1, <1>2, <1>5 DEF Agrees, InfosOK
<1>7. Shapes'
  BY ZenonT(60), <1>4, <1>5 DEF Agrees, Shapes, SendInfo, SenderUnchanged, engineVars
<1>8. (PostsOK(cut) /\ MainsOK(cut) /\ OutgoingOK(cut, L) /\ IncomingOK(cut, L)
       /\ ChunksOK(cut) /\ ReceiversOK(cut, L))'
  BY Zenon DEF Agrees, SendInfo, SenderUnchanged, engineVars, PostsOK, MainsOK,
         OutgoingOK, IncomingOK, ChunksOK, ReceiversOK
<1> QED BY ZenonT(60), <1>4, <1>6, <1>7, <1>8 DEF Agrees

\* What a worker takes from chunks_, whatever becomes of it.
LEMMA ChunkTaken ==
    ASSUME NEW cut, NEW L, Agrees(cut, L), NEW c \in Channels, SendChunk(c),
           WiresOK(cut, L)', DOMAIN wire' = Ends, SendersOK(L)', DOMAIN sender' = Channels,
           env' \in [posts : {env'.posts}, kind : {env'.kind}, counts : SUBSET Nat, buffer : {env'.buffer},
                breaks : {env'.breaks}, loss : {env'.loss}, dup : {env'.dup}]
    PROVE  Agrees(cut, L)'
<1>1. IsSeq(chunks[c]) /\ chunks[c] # <<>> /\ \A x \in Range(chunks[c]) : ChunkOK(x, c, cut)
  BY Zenon DEF SendChunk, Agrees, ChunksOK
<1>2. IsSeq(Tail(chunks[c])) /\ Range(Tail(chunks[c])) \subseteq Range(chunks[c])
  BY ZenonT(60), <1>1, TailHolds
<1>3. chunks' = [chunks EXCEPT ![c] = Tail(@)] /\ DOMAIN chunks = Channels
  BY Zenon DEF SendChunk, Agrees, Shapes
<1>4. ChunksOK(cut)'
  BY ZenonT(60), <1>1, <1>2, <1>3 DEF Agrees, ChunksOK
<1>5. UNCHANGED <<outgoing, incoming, infos, outcome, posts, main, workers, receiver>>
  BY Zenon DEF SendChunk, SenderUnchanged, engineVars
<1>6. Shapes'
  BY ZenonT(60), <1>3, <1>5 DEF Agrees, Shapes
<1>7. (PostsOK(cut) /\ MainsOK(cut) /\ OutgoingOK(cut, L) /\ IncomingOK(cut, L)
       /\ InfosOK(cut) /\ ReceiversOK(cut, L))'
  BY Zenon, <1>5 DEF Agrees, PostsOK, MainsOK, OutgoingOK, IncomingOK, InfosOK, ReceiversOK
<1> QED BY Zenon, <1>4, <1>6, <1>7 DEF Agrees

\* A worker sends a chunk: as a message that carries the bytes of the source, or one-sided,
\* straight into the destination.
LEMMA SendChunkKeeps ==
    ASSUME NEW cut \in Cuts, MemOK(mem), Agrees(cut, Landed(cut, mem)), NEW c \in Channels, SendChunk(c)
    PROVE  MemOK(mem)' /\ Agrees(cut, Landed(cut, mem))' /\ Stays(mem, mem')
<1> DEFINE chunk == Head(chunks[c])
           bytes == LoadBytes(chunk.laddr, chunk.offset, chunk.len)
           r == chunk.reqid
           msg == [type |-> "data", handle |-> chunk.handle, reqid |-> chunk.reqid,
                   index |-> chunk.index, len |-> chunk.len, offset |-> chunk.offset, payload |-> bytes]
<1>1. ChunkOK(chunk, c, cut)
  <2>1. IsSeq(chunks[c]) /\ chunks[c] # <<>> /\ \A x \in Range(chunks[c]) : ChunkOK(x, c, cut)
    BY ZenonT(60) DEF SendChunk, Agrees, ChunksOK
  <2> QED BY ZenonT(60), <2>1, TailHolds
<1>2. \/ /\ env.kind # "onesided" /\ AfterWrite(c, msg) /\ UNCHANGED <<mem, up, env>>
      \/ OneSidedWrite(c, chunk, bytes) /\ UNCHANGED wire
  BY ZenonT(60) DEF SendChunk
<1> HIDE DEF chunk
<1>3. /\ r \in Requests /\ cut[r] # 0 /\ Src(r) # NullAddr /\ chunk.laddr = Src(r)
      /\ chunk.raddr \in {NullAddr, Dst(r)} /\ chunk.index \in Nat /\ chunk.index < cut[r]
      /\ chunk.offset = ChunkOffset(LenOf(r), cut[r], chunk.index)
      /\ chunk.len = ChunkLen(LenOf(r), cut[r], chunk.index)
  BY ZenonT(60), <1>1 DEF ChunkOK, OnItsWay, IsCut
<1>4. cut[r] \in 1 .. LenOf(r) /\ LenOf(r) \in Nat \ {0} /\ chunk.index \in 0 .. (cut[r] - 1)
  BY <1>3, Journey DEF Cuts
<1>5. chunk.offset \in Nat /\ chunk.len \in Nat \ {0} /\ chunk.offset + chunk.len <= LenOf(r)
  BY ZenonT(60), <1>3, <1>4, ChunkInside
<1>6. DOMAIN bytes = 0 .. (chunk.len - 1) /\ \A k \in 0 .. (chunk.len - 1) : bytes[k] = <<Src(r), chunk.offset + k>>
  <2>1. Src(r) \in Addrs /\ DOMAIN mem[Src(r)] = 0 .. (LenOf(r) - 1)
    BY Zenon, <1>3, Lengths DEF MemOK
  <2>2. \A k \in 0 .. (LenOf(r) - 1) : mem[Src(r)][k] = <<Src(r), k>>
    BY ZenonT(60), <1>3, <2>1 DEF MemOK
  <2>3. \A k \in 0 .. (chunk.len - 1) : chunk.offset + k \in 0 .. (LenOf(r) - 1)
    BY SMTT(60), <1>4, <1>5
  <2>4. DOMAIN bytes = 0 .. (chunk.len - 1) /\ \A k \in 0 .. (chunk.len - 1) : bytes[k] = mem[Src(r)][chunk.offset + k]
    BY Zenon, <1>3 DEF LoadBytes
  <2> QED BY ZenonT(60), <2>2, <2>3, <2>4
<1> HIDE DEF bytes
<1>7. CASE AfterWrite(c, msg) /\ UNCHANGED <<mem, up, env>>
  <2>1. MsgOK(msg, <<c, "acc">>, cut, Landed(cut, mem))
    <3>1. /\ msg.reqid = chunk.reqid /\ msg.index = chunk.index /\ msg.len = chunk.len
          /\ msg.offset = chunk.offset /\ msg.payload = bytes
          /\ msg \in [type : {"data"}, handle : {msg.handle}, reqid : {msg.reqid}, index : {msg.index},
                      len : {msg.len}, offset : {msg.offset}, payload : {msg.payload}]
      OBVIOUS
    <3> HIDE DEF msg
    <3>2. OnItsWay(msg, c, cut)
      BY ZenonT(60), <1>1, <3>1 DEF ChunkOK, OnItsWay
    <3>3. DataOK(msg, c, cut)
      BY ZenonT(60), <1>6, <3>1, <3>2 DEF DataOK
    <3> QED BY Zenon, <3>3 DEF MsgOK
  <2> HIDE DEF msg
  <2>2. PICK L : L = Landed(cut, mem)
    OBVIOUS
  <2>3. WiresOK(cut, L)' /\ DOMAIN wire' = Ends /\ SendersOK(L)' /\ DOMAIN sender' = Channels
    BY ZenonT(60), <1>7, <2>1, <2>2, AfterWriteKeeps DEF Agrees, Shapes
  <2>4. Agrees(cut, L)'
    BY ZenonT(60), <1>7, <2>2, <2>3, ChunkTaken DEF Agrees, Shapes
  <2>5. L = Landed(cut, mem)'
    BY ZenonT(60), <1>7, <2>2
  <2> QED BY ZenonT(60), <1>7, <2>4, <2>5 DEF Stays
<1>8. CASE OneSidedWrite(c, chunk, bytes) /\ UNCHANGED wire
  <2>1. CASE /\ chunk.raddr # NullAddr
             /\ mem' = StoreBytes(chunk.raddr, chunk.offset, bytes)
             /\ sender' = [sender EXCEPT ![c] = [Idle("update") EXCEPT !.msg = chunk]]
             /\ UNCHANGED <<up, env>>
    <3>1. chunk.raddr = Dst(r) /\ Dst(r) # NullAddr
      BY ZenonT(60), <1>3, <2>1
    <3>2. mem' = Stored(mem, Dst(r), ChunkOffset(LenOf(r), cut[r], chunk.index), bytes)
      BY ZenonT(60), <1>3, <2>1, <3>1 DEF StoreBytes, Stored
    <3>3. PICK L : L = Landed(cut, mem')
      BY SMTT(30)
    <3>4. MemOK(mem') /\ Stays(mem, mem') /\ Landed(cut, mem) \subseteq L /\ <<r, chunk.index>> \in L
      <4> DEFINE M == mem
                 i == chunk.index
                 m == chunk.len
      <4>1. r \in Requests /\ Dst(r) # NullAddr /\ cut[r] # 0 /\ i \in 0 .. (cut[r] - 1) /\ m \in Nat
        BY ZenonT(60), <1>3, <1>4, <1>5, <3>1
      <4>2. DOMAIN bytes = 0 .. (m - 1) /\ m = ChunkLen(LenOf(r), cut[r], i)
            /\ \A k \in 0 .. (m - 1) : bytes[k] = <<Src(r), ChunkOffset(LenOf(r), cut[r], i) + k>>
        BY ZenonT(60), <1>3, <1>6
      <4> HIDE DEF r, i, m
      <4>3. LET M2 == Stored(M, Dst(r), ChunkOffset(LenOf(r), cut[r], i), bytes)
            IN  MemOK(M2) /\ Stays(M, M2) /\ Landed(cut, M) \subseteq Landed(cut, M2) /\ <<r, i>> \in Landed(cut, M2)
        BY ZenonT(60), <4>1, <4>2, StoreLands
      <4> QED BY ZenonT(60), <4>3, <3>2, <3>3 DEF i, r
    <3>5. Agrees(cut, L)
      BY ZenonT(60), <3>4, MoreLanded
    <3>6. SenderOK([Idle("update") EXCEPT !.msg = chunk], L)
      BY ZenonT(60), <3>4 DEF SenderOK, Idle
    <3>7. SendersOK(L)' /\ DOMAIN sender' = Channels
      BY ZenonT(60), <2>1, <3>5, <3>6 DEF Agrees, Shapes, SendersOK
    <3>8. WiresOK(cut, L)' /\ DOMAIN wire' = Ends
      BY ZenonT(60), <1>8, <3>5 DEF Agrees, Shapes, WiresOK
    <3>9. Agrees(cut, L)'
      BY SMTT(60), <2>1, <3>5, <3>7, <3>8, ChunkTaken DEF Agrees, Shapes
    <3> QED BY ZenonT(60), <3>3, <3>4, <3>9
  <2>2. CASE /\ env' = IF up[c] /\ chunk.raddr # NullAddr THEN [env EXCEPT !.loss = @ - 1] ELSE env
             /\ UNCHANGED <<mem, sender>>
    <3>1. PICK L : L = Landed(cut, mem)
      OBVIOUS
    <3>2. env' \in [posts : {env'.posts}, kind : {env'.kind}, counts : SUBSET Nat, buffer : {env'.buffer},
                breaks : {env'.breaks}, loss : {env'.loss}, dup : {env'.dup}]
      <4>1. env' = env \/ env' = [env EXCEPT !.loss = @ - 1]
        BY ZenonT(60), <2>2
      <4> QED BY ZenonT(60), <4>1 DEF Agrees, Shapes
    <3>3. SendersOK(L)' /\ DOMAIN sender' = Channels /\ WiresOK(cut, L)' /\ DOMAIN wire' = Ends
      BY ZenonT(60), <1>8, <2>2, <3>1 DEF Agrees, Shapes, SendersOK, WiresOK
    <3>4. Agrees(cut, L)'
      BY ZenonT(60), <3>1, <3>2, <3>3, ChunkTaken
    <3>5. L = Landed(cut, mem)'
      BY ZenonT(60), <2>2, <3>1
    <3> QED BY ZenonT(60), <2>2, <3>4, <3>5 DEF Stays
  <2> QED BY ZenonT(60), <1>8, <2>1, <2>2 DEF OneSidedWrite
<1> QED BY Zenon, <1>2, <1>7, <1>8

\* A worker records a one-sided chunk that has landed.
LEMMA SendUpdateKeeps ==
    ASSUME NEW cut \in Cuts, NEW L, Agrees(cut, L), NEW c \in Channels, SendUpdate(c)
    PROVE  Agrees(cut, L)'
<1> DEFINE n == c[1]
           chunk == sender[c].msg
<1>0. n \in Nodes /\ DOMAIN sender = Channels /\ DOMAIN outgoing = Nodes
  BY Zenon DEF Channels, Agrees, Shapes
<1>1. <<chunk.reqid, chunk.index>> \in L
  BY Zenon DEF SendUpdate, Agrees, SendersOK, SenderOK
<1>2. OutgoingOK(cut, L)' /\ DOMAIN outgoing' = Nodes
  <2>1. CASE UNCHANGED outgoing
    BY ZenonT(60), <2>1, <1>0 DEF Agrees, OutgoingOK
  <2>2. CASE /\ ~UpdateAborts(outgoing[n], chunk.handle, chunk.reqid)
             /\ outgoing' = [outgoing EXCEPT ![n] = Update(@, chunk.handle, chunk.reqid, chunk.index)]
    <3>1. TrackerOK(Update(outgoing[n], chunk.handle, chunk.reqid, chunk.index), cut, L)
      BY ZenonT(60), <1>0, <1>1, <2>2, UpdateKeeps DEF Agrees, OutgoingOK
    <3> QED BY ZenonT(60), <1>0, <2>2, <3>1 DEF Agrees, OutgoingOK
  <2> QED BY ZenonT(60), <2>1, <2>2 DEF SendUpdate
<1>3. \E x : sender' = [sender EXCEPT ![c] = x] /\ x.at # "update"
  <2>1. sender' = [sender EXCEPT ![c] = Idle("abort")] \/ sender' = [sender EXCEPT ![c] = Idle("run")]
        \/ \E cb : sender' = [sender EXCEPT ![c] = [Idle("callback") EXCEPT !.msg = chunk, !.cb = cb]]
    BY Zenon DEF SendUpdate
  <2>2. \A cb : [Idle("callback") EXCEPT !.msg = chunk, !.cb = cb].at = "callback"
    BY Zenon DEF Idle
  <2>3. Idle("abort").at = "abort" /\ Idle("run").at = "run"
    BY Zenon DEF Idle
  <2> QED BY ZenonT(60), <2>1, <2>2, <2>3
<1>4. SendersOK(L)' /\ DOMAIN sender' = Channels
  BY ZenonT(60), <1>0, <1>3 DEF Agrees, SendersOK, SenderOK
<1>5. Shapes'
  BY ZenonT(60), <1>2, <1>4 DEF Agrees, Shapes, SendUpdate, SenderUnchanged, engineVars
<1>6. (PostsOK(cut) /\ MainsOK(cut) /\ IncomingOK(cut, L) /\ InfosOK(cut) /\ ChunksOK(cut)
       /\ WiresOK(cut, L) /\ ReceiversOK(cut, L))'
  BY Zenon DEF Agrees, SendUpdate, SenderUnchanged, engineVars, PostsOK, MainsOK,
         IncomingOK, InfosOK, ChunksOK, WiresOK, ReceiversOK
<1> QED BY ZenonT(60), <1>2, <1>4, <1>5, <1>6 DEF Agrees

\* A worker runs the callback of a post that it completed.
LEMMA SendCallbackKeeps ==
    ASSUME NEW cut \in Cuts, NEW L, Agrees(cut, L), NEW c \in Channels, SendCallback(c)
    PROVE  Agrees(cut, L)'
<1>1. UNCHANGED <<posts, main, workers>> /\ DOMAIN incoming = Nodes /\ DOMAIN outcome = Posts
  BY Zenon DEF SendCallback, SenderUnchanged, engineVars, Agrees, Shapes
<1>2. IncomingOK(cut, L)' /\ PostsOK(cut)' /\ DOMAIN incoming' = Nodes /\ DOMAIN outcome' = Posts
  BY ZenonT(60), <1>1, CallbackKeeps DEF SendCallback, Agrees
<1>3. SendersOK(L)' /\ DOMAIN sender' = Channels
  <2>1. SenderOK(Idle("run"), L)
    BY Zenon DEF SenderOK, Idle
  <2> QED BY ZenonT(60), <2>1 DEF Agrees, Shapes, SendersOK, SendCallback
<1>4. Shapes'
  BY ZenonT(60), <1>1, <1>2, <1>3 DEF Agrees, Shapes, SendCallback, SenderUnchanged
<1>5. (MainsOK(cut) /\ OutgoingOK(cut, L) /\ InfosOK(cut) /\ ChunksOK(cut)
       /\ WiresOK(cut, L) /\ ReceiversOK(cut, L))'
  BY Zenon, <1>1 DEF Agrees, SendCallback, SenderUnchanged, MainsOK, OutgoingOK, InfosOK, ChunksOK, WiresOK, ReceiversOK
<1> QED BY ZenonT(60), <1>2, <1>3, <1>4, <1>5 DEF Agrees

\* Initially no request is cut.
LEMMA InitAgrees == Init => TInv
<1> SUFFICES ASSUME Init PROVE TInv
  OBVIOUS
<1>1. PICK cut : cut = [r \in Requests |-> 0]
  BY Zenon
<1>2. cut \in Cuts /\ \A r \in Requests : cut[r] = 0
  <2>1. \A r \in Requests : LenOf(r) \in Nat
    BY Zenon, Journey
  <2> QED BY SMTT(60), <1>1, <2>1 DEF Cuts
<1>3. MemOK(mem)
  <2>1. \A r \in Requests : Src(r) # NullAddr => Src(r) \in Addrs
    BY Zenon, Lengths
  <2> QED BY Zenon, <2>1 DEF Init, MemOK
<1> DEFINE L == Landed(cut, mem)
<1> HIDE DEF L
<1>4. Shapes
  <2>1. workers \in [Nodes -> [Nodes -> Nat]]
    BY Zenon DEF Init
  <2>2. env \in [posts : {env.posts}, kind : {env.kind}, counts : SUBSET Nat, buffer : {env.buffer},
                breaks : {env.breaks}, loss : {env.loss}, dup : {env.dup}]
    <3>1. SUBSET (0 .. NumConns) \subseteq SUBSET Nat
      BY PlanAssumption
    <3>2. env \in [posts : SUBSET Posts, kind : {"stream", "message", "onesided"}, counts : SUBSET (0 .. NumConns),
          buffer : Nat \ {0}, breaks : Nat, loss : Nat, dup : Nat]
      BY Zenon, PlanAssumption DEF Init
    <3> QED BY ZenonT(60), <3>1, <3>2
  <2> QED BY ZenonT(60), <2>1, <2>2 DEF Init, Shapes
<1>5. PostsOK(cut)
  <2>1. \A m \in Nodes : posts[m] = <<>>
    BY Zenon DEF Init
  <2>2. QueueOK(<<>>, 0, cut) /\ \A m \in Nodes : QueueOK(<<>>, m, cut)
    BY EmptySeqHolds DEF QueueOK
  <2> QED BY ZenonT(60), <1>2, <2>1, <2>2, EmptySeqHolds DEF PostsOK
<1>6. MainsOK(cut)
  BY Zenon DEF Init, MainsOK, MainOK
<1>7. OutgoingOK(cut, L) /\ IncomingOK(cut, L)
  <2>1. \A n \in Nodes : DOMAIN outgoing[n] = {} /\ DOMAIN incoming[n] = {}
    BY DEF Init
  <2> QED BY Zenon, <2>1 DEF OutgoingOK, IncomingOK, TrackerOK, TargetsOK
<1>8. InfosOK(cut) /\ ChunksOK(cut)
  BY Zenon, EmptySeqHolds DEF Init, InfosOK, ChunksOK
<1>9. SendersOK(L)
  BY Zenon DEF Init, SendersOK, SenderOK, Idle
<1>10. WiresOK(cut, L)
  BY Zenon, EmptySeqHolds DEF Init, WiresOK, WireOK
<1>11. ReceiversOK(cut, L)
  BY Zenon, RestOK DEF Init, ReceiversOK
<1>12. Agrees(cut, L)
  BY ZenonT(60), <1>4, <1>5, <1>6, <1>7, <1>8, <1>9, <1>10, <1>11 DEF Agrees
<1> QED BY ZenonT(60), <1>2, <1>3, <1>12 DEF TInv, L

\* Steps that leave the memory alone.
LEMMA SameMemory ==
    ASSUME TInv, UNCHANGED mem,
           \E cut \in Cuts : Agrees(cut, Landed(cut, mem))'
    PROVE  TInv' /\ Stays(mem, mem')
BY Zenon DEF TInv, Stays

\* The same, when the cut stays.
LEMMA RigidAgrees ==
    ASSUME NEW cut \in Cuts, UNCHANGED mem,
           \A L : L = Landed(cut, mem) => Agrees(cut, L)'
    PROVE  \E cut2 \in Cuts : Agrees(cut2, Landed(cut2, mem))'
<1>1. PICK L : L = Landed(cut, mem)
  OBVIOUS
<1>2. Agrees(cut, L)' /\ L = Landed(cut, mem)'
  BY Zenon, <1>1
<1> QED BY Zenon, <1>2

\* Every step keeps the invariant, and keeps in place the bytes that are.
LEMMA StepAgrees ==
    ASSUME TInv, [Next]_vars
    PROVE  TInv' /\ Stays(mem, mem')
<1>1. PICK cut \in Cuts : Agrees(cut, Landed(cut, mem))
  BY Zenon DEF TInv
<1>2. MemOK(mem)
  BY Zenon DEF TInv
<1>3. ASSUME NEW n \in Nodes, MainLoop(n) PROVE TInv' /\ Stays(mem, mem')
  <2>1. \E cut2 \in Cuts : Agrees(cut2, Landed(cut2, mem))'
    BY ZenonT(60), <1>1, <1>3, MainLoopKeeps
  <2>2. UNCHANGED mem
    BY Zenon, <1>3 DEF MainLoop, MainUnchanged
  <2> QED BY Zenon, <2>1, <2>2, SameMemory
<1>4. ASSUME NEW c \in Channels, SendChunk(c) PROVE TInv' /\ Stays(mem, mem')
  BY ZenonT(60), <1>1, <1>2, <1>4, SendChunkKeeps DEF TInv
<1>5. ASSUME NEW e \in Ends, RecvPayload(e) PROVE TInv' /\ Stays(mem, mem')
  BY ZenonT(60), <1>1, <1>2, <1>5, RecvPayloadKeeps DEF TInv
<1>6. ASSUME UNCHANGED mem, \A L : L = Landed(cut, mem) => Agrees(cut, L)'
      PROVE  TInv' /\ Stays(mem, mem')
  BY ZenonT(60), <1>6, RigidAgrees, SameMemory
<1>7. ASSUME NEW p \in Posts, Post(p) \/ PollStep(p) PROVE TInv' /\ Stays(mem, mem')
  <2>1. UNCHANGED mem
    BY Zenon, <1>7 DEF Post, PollStep, PollOutgoing, PollIncoming, PollRemove, PollUnchanged
  <2>2. \A L : L = Landed(cut, mem) => Agrees(cut, L)'
    BY SMTT(60), <1>1, <1>7, PostKeeps, PollKeeps
  <2> QED BY Zenon, <1>6, <2>1, <2>2
<1>8. ASSUME NEW n \in Nodes, MainEnqueueInfo(n) \/ MainEnqueueChunk(n) PROVE TInv' /\ Stays(mem, mem')
  <2>1. UNCHANGED mem
    BY Zenon, <1>8 DEF MainEnqueueInfo, MainEnqueueChunk, MainUnchanged
  <2>2. \A L : L = Landed(cut, mem) => Agrees(cut, L)'
    BY Zenon, <1>1, <1>8, MainEnqueueInfoKeeps, MainEnqueueChunkKeeps
  <2> QED BY Zenon, <1>6, <2>1, <2>2
<1>9. ASSUME NEW c \in Channels, SendInfo(c) \/ SendUpdate(c) \/ SendCallback(c) PROVE TInv' /\ Stays(mem, mem')
  <2>1. UNCHANGED mem
    BY Zenon, <1>9 DEF SendInfo, SendUpdate, SendCallback
  <2>2. \A L : L = Landed(cut, mem) => Agrees(cut, L)'
    BY SMTT(60), <1>1, <1>9, SendInfoKeeps, SendUpdateKeeps, SendCallbackKeeps
  <2> QED BY Zenon, <1>6, <2>1, <2>2
<1>10. ASSUME NEW e \in Ends, NEW k, RecvPostInfo(e, k) \/ RecvAck(e, k) \/ RecvData(e, k)
       PROVE  TInv' /\ Stays(mem, mem')
  <2>1. UNCHANGED mem
    BY Zenon, <1>10 DEF RecvPostInfo, RecvAck, RecvData
  <2>2. \A L : L = Landed(cut, mem) => Agrees(cut, L)'
    BY SMTT(60), <1>1, <1>10, RecvPostInfoKeeps, RecvAckKeeps, RecvDataKeeps
  <2> QED BY Zenon, <1>6, <2>1, <2>2
<1>11. ASSUME NEW e \in Ends, RecvRead(e) \/ RecvCallback(e) \/ RecvComplete(e) \/ RecvSendAck(e)
       PROVE  TInv' /\ Stays(mem, mem')
  <2>1. UNCHANGED mem
    BY Zenon, <1>11 DEF RecvRead, RecvCallback, RecvComplete, RecvSendAck
  <2>2. \A L : L = Landed(cut, mem) => Agrees(cut, L)'
    BY ZenonT(60), <1>1, <1>11, RecvReadKeeps, RecvCallbackKeeps, RecvSendAckKeeps
  <2> QED BY Zenon, <1>6, <2>1, <2>2
<1>12. ASSUME NEW e \in Ends, RecvAddr(e) \/ RecvFind(e) \/ RecvEof(e) \/ RecvAcquire(e) \/ RecvRelease(e)
       PROVE  TInv' /\ Stays(mem, mem')
  <2>1. UNCHANGED mem
    BY Zenon, <1>12 DEF RecvAddr, RecvFind, RecvEof, RecvAcquire, RecvRelease
  <2>2. \A L : L = Landed(cut, mem) => Agrees(cut, L)'
    BY ZenonT(60), <1>1, <1>12, RecvLookupKeeps, RecvAcquireKeeps, RecvReleaseKeeps
  <2> QED BY Zenon, <1>6, <2>1, <2>2
<1>13. ASSUME Network PROVE TInv' /\ Stays(mem, mem')
  <2>1. UNCHANGED mem
    BY Zenon, <1>13 DEF Network, Break, Lose, Duplicate, NetUnchanged
  <2>2. \A L : L = Landed(cut, mem) => Agrees(cut, L)'
    BY ZenonT(60), <1>1, <1>13, BreakKeeps, LoseOrDuplicateKeeps DEF Network
  <2> QED BY Zenon, <1>6, <2>1, <2>2
<1>14. ASSUME UNCHANGED vars PROVE TInv' /\ Stays(mem, mem')
  <2>1. UNCHANGED <<posts, main, workers, outgoing, incoming, infos, chunks, sender, receiver, wire, env, mem, outcome>>
    BY Zenon, <1>14 DEF vars, engineVars, workerVars, netVars, userVars
  <2>2. \A L : L = Landed(cut, mem) => Agrees(cut, L)'
    BY ZenonT(60), <1>1, <2>1 DEF Agrees, Shapes, PostsOK, MainsOK, OutgoingOK, IncomingOK, InfosOK, ChunksOK,
                      SendersOK, WiresOK, ReceiversOK
  <2> QED BY Zenon, <1>6, <2>1, <2>2
<1>15. ASSUME Threads PROVE TInv' /\ Stays(mem, mem')
  <2>1. ASSUME NEW n \in Nodes, MainStep(n) PROVE TInv' /\ Stays(mem, mem')
    BY Zenon, <1>3, <1>8, <2>1 DEF MainStep
  <2>2. ASSUME NEW c \in Channels, SendStep(c) PROVE TInv' /\ Stays(mem, mem')
    BY Zenon, <1>4, <1>9, <2>2 DEF SendStep
  <2>3. ASSUME NEW e \in Ends, RecvStep(e) PROVE TInv' /\ Stays(mem, mem')
    BY ZenonT(60), <1>5, <1>10, <1>11, <1>12, <2>3 DEF RecvStep
  <2> QED BY ZenonT(60), <1>7, <1>15, <2>1, <2>2, <2>3 DEF Threads
<1> QED BY ZenonT(60), <1>7, <1>13, <1>14, <1>15 DEF Next

\* The source and the destination of a request.
LEMMA JourneyOf ==
    ASSUME NEW t \in Journeys
    PROVE  t.req \in Requests /\ t.src = Src(t.req) /\ t.dst = Dst(t.req)
<1>1. PICK p \in Posts : t \in {[req |-> <<p, j>>, src |-> SrcAddr(p, j), dst |-> DstAddr(p, j)] : j \in ReqsOf(p)}
  BY Zenon DEF Journeys
<1>2. PICK j \in ReqsOf(p) : t = [req |-> <<p, j>>, src |-> SrcAddr(p, j), dst |-> DstAddr(p, j)]
  BY Zenon, <1>1
<1> QED BY Zenon, <1>2, PostRequests DEF Src, Dst

\* What the invariant says of the chunks a sender counts as done.
LEMMA AgreesDelivers == TInv => AckedIsDelivered
<1> SUFFICES ASSUME TInv PROVE AckedIsDelivered
  OBVIOUS
<1>1. PICK cut \in Cuts : Agrees(cut, Landed(cut, mem))
  BY Zenon DEF TInv
<1> SUFFICES ASSUME NEW n \in Nodes, NEW key \in DOMAIN outgoing[n],
                    NEW t \in Journeys, t.req \in DOMAIN outgoing[n][key].req_map,
                    NEW i \in outgoing[n][key].req_map[t.req].chunks.done
             PROVE  LET ct == outgoing[n][key].req_map[t.req].chunks
                        len == BufferLen(t.dst)
                    IN  \A k \in ChunkOffset(len, ct.total, i) ..
                                 ChunkOffset(len, ct.total, i) + ChunkLen(len, ct.total, i) - 1 :
                          mem[t.dst][k] = <<t.src, k>>
  BY ZenonT(60) DEF AckedIsDelivered
<1> DEFINE r == t.req
           ct == outgoing[n][key].req_map[r].chunks
<1>2. r \in Requests /\ t.src = Src(r) /\ t.dst = Dst(r)
  BY Zenon, JourneyOf
<1>3. ct.total = cut[r] /\ <<r, i>> \in Landed(cut, mem)
  <2>1. ReqOK(outgoing[n][key].req_map[r], r, cut, Landed(cut, mem))
    BY ZenonT(60), <1>1 DEF Agrees, OutgoingOK, TrackerOK, EntryOK
  <2> QED BY ZenonT(60), <2>1 DEF ReqOK
<1> HIDE DEF ct, r
<1>4. InPlace(r, cut, i, mem)
  BY ZenonT(60), <1>3 DEF Landed
<1>5. Dst(r) # NullAddr /\ Dst(r) \in Addrs /\ BufferLen(Dst(r)) = LenOf(r) /\ LenOf(r) \in Nat \ {0}
  BY Zenon, <1>2, <1>4, Lengths, Journey DEF InPlace
<1> QED BY ZenonT(60), <1>2, <1>3, <1>4, <1>5 DEF InPlace, ChunkBytes, ct, r

\* For any nodes, posts, lengths, numbers of channels and faults: a chunk that outgoing_
\* counts as done is in place at its destination, although acknowledgements and chunks
\* are lost, repeated and reordered, and connections break (RequestTracker's Update,
\* Transfer's receive path, Worker's send path).
THEOREM ReportedIsDelivered == Spec => []AckedIsDelivered
<1>1. TInv /\ [Next]_vars => TInv'
  BY Zenon, StepAgrees
<1> QED BY <1>1, InitAgrees, AgreesDelivers, PTL DEF Spec

\* For any nodes, posts, lengths, numbers of channels and faults: a byte that has reached
\* its place is never overwritten by anything else, by no late or repeated chunk, no
\* short payload and no other post.
THEOREM ArrivedBytesStay == Spec => BytesStay
<1>1. TInv /\ [Next]_vars => TInv' /\ Stays(mem, mem')
  BY Zenon, StepAgrees
<1>2. Stays(mem, mem') => StaysPut
  <2> SUFFICES ASSUME Stays(mem, mem'), NEW t \in Journeys, t.dst # NullAddr,
                      NEW k \in DOMAIN mem[t.dst], mem[t.dst][k] = <<t.src, k>>
               PROVE  mem'[t.dst][k] = mem[t.dst][k]
    BY Zenon DEF StaysPut
  <2> QED BY Zenon, JourneyOf DEF Stays
<1> QED BY <1>1, <1>2, InitAgrees, PTL DEF Spec, BytesStay
=============================================================================
