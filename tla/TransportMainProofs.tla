------------------------ MODULE TransportMainProofs ------------------------
(***************************************************************************)
(* The steps of users that post and of the main threads keep the invariant *)
(* of TransportLemmas.  One lemma per action; the step that cuts a new post *)
(* changes the cut.                                                        *)
(***************************************************************************)
EXTENDS TransportLemmas

\* Engine::Post.
LEMMA PostKeeps ==
    ASSUME NEW cut \in Cuts, NEW L, Agrees(cut, L), NEW p \in Posts, Post(p)
    PROVE  Agrees(cut, L)'
<1> DEFINE n == Plan[p].node
           h == genHandle(nextHandle[n])
           cb == IF Plan[p].callback THEN UserCallback ELSE NoCallback
           post == [peer |-> Plan[p].peer, handle |-> h, reqs |-> RequestsOf(p), req_infos |-> <<>>]
<1>0. n \in Nodes /\ outcome[p] = "none"
  BY Zenon, PlanAssumption DEF Post
<1>1. (MainsOK(cut) /\ InfosOK(cut) /\ ChunksOK(cut) /\ SendersOK(L) /\ WiresOK(cut, L) /\ ReceiversOK(cut, L))'
  BY ZenonT(60) DEF Agrees, Post, workerVars, netVars, MainsOK, InfosOK, ChunksOK, SendersOK, WiresOK, ReceiversOK
<1>2. Shapes'
  BY Zenon DEF Agrees, Shapes, Post, workerVars, netVars
<1>3. OutgoingOK(cut, L)'
  <2>1. outgoing' = outgoing \/ outgoing' = [outgoing EXCEPT ![n] = AddHandle(@, h, cb)]
    BY Zenon DEF Post
  <2> QED BY <2>1, AddHandleKeeps DEF Agrees, OutgoingOK, Shapes
<1>4. IncomingOK(cut, L)'
  <2>1. incoming' = incoming \/ incoming' = [incoming EXCEPT ![n] = AddHandle(@, h, cb)]
    BY Zenon DEF Post
  <2> QED BY <2>1, AddHandleKeeps DEF Agrees, IncomingOK, Shapes
<1>5. PostsOK(cut)'
  <2>0. outcome'[p] # "none" /\ \A q \in Posts : q # p => outcome'[q] = outcome[q]
    BY Zenon DEF Post, Agrees, Shapes
  <2>1. \A r \in Requests : outcome'[r[1]] = "none" => cut[r] = 0
    <3>1. \A r \in Requests : r[1] \in Posts
      BY DEF Requests
    <3> QED BY Zenon, <2>0, <3>1 DEF Agrees, PostsOK
  <2>2. CASE posts' = posts
    <3>1. \A m \in Nodes : \A x \in Range(posts[m]) : IsFresh(x) => outcome'[PostOf(x)] # "none"
      <4> SUFFICES ASSUME NEW m \in Nodes, NEW x \in Range(posts[m]), IsFresh(x)
                   PROVE  outcome'[PostOf(x)] # "none"
        OBVIOUS
      <4>1. PICK q \in Posts : LocalOK(x, m, q)
        BY Zenon DEF Agrees, PostsOK, QueueOK, PostOK
      <4>2. PostOf(x) = q
        BY Zenon, <4>1, LocalPost DEF PostOf, LocalOK
      <4> QED BY Zenon, <2>0, <4>2 DEF Agrees, PostsOK
    <3> QED BY Zenon, <2>1, <2>2, <3>1 DEF Agrees, PostsOK
  <2>3. CASE posts' = [posts EXCEPT ![n] = Append(@, post)]
    <3> DEFINE q == posts[n]
    <3>1. IsSeq(q) /\ QueueOK(q, n, cut)
      BY Zenon, <1>0 DEF Agrees, PostsOK, QueueOK
    <3>2. post.reqs = RequestsOf(p) /\ PostOf(post) = p /\ IsFresh(post) /\ PostOK(post, n, cut)
      <4>1. \A j \in ReqsOf(p) : cut[<<p, j>>] = 0
        <5>1. \A j \in ReqsOf(p) : <<p, j>> \in Requests
          BY DEF Requests
        <5> QED BY Zenon, <1>0, <5>1 DEF Agrees, PostsOK
      <4>2. PostOf(post) = p /\ IsFresh(post) /\ IsSeq(post.reqs)
        BY Zenon, LocalPost DEF PostOf, IsFresh
      <4> QED BY Zenon, <4>1, <4>2 DEF PostOK, LocalOK, IsPost
    <3>3. \A m \in Nodes : \A x \in Range(posts[m]) : IsFresh(x) => PostOf(x) \in Posts /\ PostOf(x) # p
      <4> SUFFICES ASSUME NEW m \in Nodes, NEW x \in Range(posts[m]), IsFresh(x)
                   PROVE  PostOf(x) \in Posts /\ PostOf(x) # p
        OBVIOUS
      <4>1. PICK w \in Posts : LocalOK(x, m, w)
        BY Zenon DEF Agrees, PostsOK, QueueOK, PostOK
      <4>2. PostOf(x) = w
        BY Zenon, <4>1, LocalPost DEF PostOf, LocalOK
      <4> QED BY Zenon, <1>0, <4>2 DEF Agrees, PostsOK
    <3> HIDE DEF post
    <3>4. QueueOK(Append(q, post), n, cut)
      <4>1. \A k \in DOMAIN q : IsFresh(q[k]) => PostOf(q[k]) # PostOf(post)
        BY Zenon, <1>0, <3>2, <3>3 DEF Range
      <4> QED BY Zenon, <3>1, <3>2, <4>1, QueueAppend
    <3>5. DOMAIN posts = Nodes
      BY Zenon DEF Agrees, Shapes
    <3>6. posts'[n] = Append(q, post) /\ \A m \in Nodes : m # n => posts'[m] = posts[m]
      BY Zenon, <1>0, <2>3, <3>5
    <3>7. \A m \in Nodes : QueueOK(posts'[m], m, cut)
      BY Zenon, <3>4, <3>6 DEF Agrees, PostsOK
    <3>8. \A m \in Nodes : \A x \in Range(posts'[m]) : IsFresh(x) => outcome'[PostOf(x)] # "none"
      <4> SUFFICES ASSUME NEW m \in Nodes, NEW x \in Range(posts'[m]), IsFresh(x)
                   PROVE  outcome'[PostOf(x)] # "none"
        OBVIOUS
      <4>1. x = post \/ x \in Range(posts[m])
        <5>1. CASE m = n
          <6>1. Range(Append(q, post)) = Range(q) \cup {post}
            BY Zenon, <3>1, AppendHolds
          <6> QED BY Zenon, <3>6, <5>1, <6>1
        <5>2. CASE m # n
          BY Zenon, <3>6, <5>2
        <5> QED BY Zenon, <5>1, <5>2
      <4> QED BY ZenonT(60), <2>0, <3>2, <3>3, <4>1 DEF Agrees, PostsOK
    <3> QED BY Zenon, <2>1, <3>7, <3>8 DEF PostsOK
  <2> QED BY Zenon, <2>2, <2>3 DEF Post
<1> QED BY ZenonT(60), <1>1, <1>2, <1>3, <1>4, <1>5 DEF Agrees

\* The main thread takes a post from posts_.  A new post is cut here: the state agrees with
\* a cut that differs from the one before at the requests of this post.
LEMMA MainLoopKeeps ==
    ASSUME NEW cut \in Cuts, Agrees(cut, Landed(cut, mem)), NEW n \in Nodes, MainLoop(n)
    PROVE  \E cut2 \in Cuts : Agrees(cut2, Landed(cut2, mem))'
<1> DEFINE L == Landed(cut, mem)
           q == posts[n]
           post == Head(q)
<1>1. QueueOK(q, n, cut) /\ q # <<>> /\ main[n] = MainIdle
  BY Zenon DEF Agrees, PostsOK, MainLoop
<1>2. /\ QueueOK(Tail(q), n, cut) /\ Range(Tail(q)) \subseteq Range(q)
      /\ post \in Range(q) /\ PostOK(post, n, cut)
      /\ \A x \in Range(Tail(q)) : IsFresh(x) /\ IsFresh(post) => PostOf(x) # PostOf(post)
  BY ZenonT(60), <1>1, TailQueue
<1> HIDE DEF post
<1>3. post.peer \in Nodes
  BY Zenon, <1>2, PlanAssumption DEF PostOK, LocalOK, ReplyOK
<1> DEFINE have == workers[n][post.peer]
<1>4. have \in Nat /\ workers \in [Nodes -> [Nodes -> Nat]] /\ env.counts \subseteq Nat
  BY <1>3 DEF Agrees, Shapes
<1>5. PICK connected \in IF have < NumConns THEN env.counts ELSE {0} :
        LET total == have + connected
            req_infos == RequestInfos(post, total)
            is_write == post.reqs[1].op = "write"
        IN  /\ workers' = [workers EXCEPT ![n][post.peer] = total]
            /\ posts' = [posts EXCEPT ![n] = Tail(@)]
            /\ IF total = 0 THEN UNCHANGED <<main, outgoing, incoming>>
               ELSE /\ outgoing' = IF ~is_write THEN outgoing ELSE
                         [outgoing EXCEPT ![n] = AddReqs(@, post.handle, req_infos, NoPeer, NoResolve)]
                    /\ incoming' = IF is_write THEN incoming ELSE
                         [incoming EXCEPT ![n] = AddReqs(@, post.handle, req_infos, NoPeer, Resolve)]
                    /\ main' = [main EXCEPT ![n] =
                         [at |-> IF post.req_infos = <<>> THEN "infos" ELSE "chunks",
                          post |-> [post EXCEPT !.req_infos = AnnouncedInfos(post, req_infos)],
                          w |-> 1, r |-> 1, i |-> 0]]
  BY Zenon DEF MainLoop, post
<1> DEFINE total == have + connected
           ri == RequestInfos(post, total)
           ann == [post EXCEPT !.req_infos = AnnouncedInfos(post, ri)]
           is_write == post.reqs[1].op = "write"
           work == [at |-> IF post.req_infos = <<>> THEN "infos" ELSE "chunks", post |-> ann,
                    w |-> 1, r |-> 1, i |-> 0]
<1>6. total \in Nat
  BY <1>4, <1>5
<1>7. /\ workers' = [workers EXCEPT ![n][post.peer] = total]
      /\ posts' = [posts EXCEPT ![n] = Tail(@)]
      /\ total = 0 => UNCHANGED <<main, outgoing, incoming>>
      /\ total # 0 =>
           /\ outgoing' = IF ~is_write THEN outgoing ELSE
                [outgoing EXCEPT ![n] = AddReqs(@, post.handle, ri, NoPeer, NoResolve)]
           /\ incoming' = IF is_write THEN incoming ELSE
                [incoming EXCEPT ![n] = AddReqs(@, post.handle, ri, NoPeer, Resolve)]
           /\ main' = [main EXCEPT ![n] = work]
  BY Zenon, <1>5
<1> HIDE DEF total, have, ri, ann, is_write, work
<1>8. UNCHANGED <<nextHandle, infos, chunks, sender, receiver, peerOf, wire, up, env, mem, outcome>>
  BY Zenon DEF MainLoop, workerVars, netVars, userVars
<1>9. Shapes'
  <2>1. workers' \in [Nodes -> [Nodes -> Nat]]
    BY Zenon, <1>3, <1>4, <1>6, <1>7
  <2>2. DOMAIN posts' = Nodes /\ DOMAIN main' = Nodes /\ DOMAIN outgoing' = Nodes /\ DOMAIN incoming' = Nodes
    BY Zenon, <1>7 DEF Agrees, Shapes
  <2> QED BY Zenon, <1>8, <2>1, <2>2 DEF Agrees, Shapes
<1>10. posts'[n] = Tail(q) /\ \A m \in Nodes : m # n => posts'[m] = posts[m]
  BY Zenon, <1>7 DEF Agrees, Shapes
<1>11. \A m \in Nodes : Range(posts'[m]) \subseteq Range(posts[m])
  BY Zenon, <1>2, <1>10
<1>12. \A M : Landed(cut, mem)' = Landed(cut, mem)
  BY Zenon, <1>8
<1>13. PostsOK(cut)'
  <2>1. \A m \in Nodes : QueueOK(posts'[m], m, cut)
    <3>1. \A m \in Nodes : QueueOK(posts[m], m, cut)
      BY Zenon DEF Agrees, PostsOK
    <3> QED BY Zenon, <1>2, <1>10, <3>1
  <2>2. \A m \in Nodes : \A x \in Range(posts'[m]) : IsFresh(x) => outcome'[PostOf(x)] # "none"
    BY Zenon, <1>8, <1>11 DEF Agrees, PostsOK
  <2> QED BY Zenon, <1>8, <2>1, <2>2 DEF Agrees, PostsOK
<1>14. CASE total = 0
  <2>1. Agrees(cut, L)'
    BY ZenonT(60), <1>7, <1>8, <1>9, <1>13, <1>14
       DEF Agrees, MainsOK, OutgoingOK, IncomingOK, InfosOK, ChunksOK, SendersOK, WiresOK, ReceiversOK
  <2> QED BY Zenon, <2>1, <1>12
<1>15. CASE total # 0 /\ ~IsFresh(post)
  <2>1. PICK p \in Posts : ReplyOK(post, n, p, cut)
    BY Zenon, <1>2, <1>15 DEF PostOK
  <2>2. IsPost(post) /\ IsSeq(post.reqs)
    BY Zenon, <1>2 DEF PostOK
  <2>3. /\ ri = post.req_infos /\ DOMAIN ri = ReqsOf(p)
        /\ \A j \in ReqsOf(p) :
             IsCut(<<p, j>>, cut) /\ ri[j].reqid = <<p, j>> /\ ri[j].nchunks = cut[<<p, j>>]
        /\ IsPost(ann) /\ ann.reqs = post.reqs /\ ReplyOK(ann, n, p, cut)
    BY Zenon, <1>15, <2>1, <2>2, ReplyInfos DEF ri, ann
  <2>4. is_write /\ 1 \in DOMAIN post.reqs
    BY Zenon, <2>1, FirstRequest DEF ReplyOK, is_write
  <2>5. \A j \in DOMAIN ri : IsCut(ri[j].reqid, cut) /\ ri[j].nchunks = cut[ri[j].reqid]
    BY Zenon, <2>3
  <2>6. OutgoingOK(cut, L)'
    <3>1. outgoing' = [outgoing EXCEPT ![n] = AddReqs(@, post.handle, ri, NoPeer, NoResolve)]
      BY Zenon, <1>7, <1>15, <2>4
    <3>2. TrackerOK(AddReqs(outgoing[n], post.handle, ri, NoPeer, NoResolve), cut, L)
      BY Zenon, <2>5, AddReqsKeeps DEF Agrees, OutgoingOK
    <3>3. DOMAIN outgoing = Nodes
      BY Zenon DEF Agrees, Shapes
    <3> HIDE DEF L
    <3> QED BY Zenon, <1>12, <3>1, <3>2, <3>3 DEF Agrees, OutgoingOK, L
  <2>7. IncomingOK(cut, L)'
    BY ZenonT(60), <1>7, <1>8, <1>15, <2>4 DEF Agrees, IncomingOK
  <2>8. MainOK(work, n, cut)
    <3>1. work = [at |-> "chunks", post |-> ann, w |-> 1, r |-> 1, i |-> 0]
      BY Zenon, <1>15 DEF work, IsFresh
    <3>2. ann.req_infos[1].nchunks = cut[<<p, 1>>] /\ cut[<<p, 1>>] \in Nat \ {0}
      <4>1. 1 \in ReqsOf(p) /\ <<p, 1>> \in Requests
        BY Zenon, FirstRequest, PostRequests
      <4> QED BY Zenon, <2>3, <4>1 DEF ReplyOK, Cuts
    <3> QED BY SMTT(60), <2>1, <2>2, <2>3, <2>4, <3>1, <3>2 DEF MainOK
  <2>9. MainsOK(cut)'
    <3>1. main' = [main EXCEPT ![n] = work] /\ DOMAIN main = Nodes
      BY Zenon, <1>7, <1>15 DEF Agrees, Shapes
    <3> QED BY Zenon, <2>8, <3>1 DEF Agrees, MainsOK
  <2>10. Agrees(cut, L)'
    BY ZenonT(60), <1>8, <1>9, <1>13, <2>6, <2>7, <2>9
       DEF Agrees, InfosOK, ChunksOK, SendersOK, WiresOK, ReceiversOK
  <2> QED BY Zenon, <2>10, <1>12
<1>16. CASE total # 0 /\ IsFresh(post)
  <2> DEFINE p == PostOf(post)
  <2>1. p \in Posts /\ LocalOK(post, n, p) /\ \A j \in ReqsOf(p) : cut[<<p, j>>] = 0
    BY ZenonT(60), <1>2, <1>16, FreshIsLocal
  <2>2. IsPost(post) /\ IsSeq(post.reqs) /\ post.reqs = RequestsOf(p)
    BY Zenon, <1>2, <2>1 DEF PostOK, LocalOK
  <2> HIDE DEF p
  <2>3. PICK cut2 \in Cuts :
          /\ Refines(cut2, cut) /\ \A j \in ReqsOf(p) : cut2[<<p, j>>] = Least(total, LenOf(<<p, j>>))
          /\ \A r \in Requests : r[1] # p => cut2[r] = cut[r]
    <3> DEFINE new == [r \in Requests |-> IF r[1] = p THEN Least(total, LenOf(r)) ELSE cut[r]]
    <3>1. \A r \in Requests : LenOf(r) \in Nat \ {0}
      BY Zenon, Journey
    <3>2. \A r \in Requests : new[r] \in Nat /\ new[r] <= LenOf(r)
      BY SMTT(60), <1>6, <3>1 DEF Cuts, Least
    <3>3. \A r \in Requests : r[1] = p => cut[r] = 0
      <4>1. \A r \in Requests : r[2] \in ReqsOf(r[1]) /\ r = <<r[1], r[2]>>
        BY Zenon, Journey
      <4> QED BY <2>1, <4>1
    <3>4. new \in Cuts /\ Refines(new, cut)
      BY ZenonT(60), <3>2, <3>3 DEF Cuts, Refines
    <3>5. \A j \in ReqsOf(p) : new[<<p, j>>] = Least(total, LenOf(<<p, j>>))
      BY ZenonT(60), <2>1, PostRequests
    <3>6. \A r \in Requests : r[1] # p => new[r] = cut[r]
      OBVIOUS
    <3> HIDE DEF new
    <3> QED BY ZenonT(60), <3>4, <3>5, <3>6
  <2>5. PICK L2 : L2 = Landed(cut2, mem)
    BY SMTT(30)
  <2>6. /\ Agrees(cut, L2)
        /\ MainsOK(cut2) /\ OutgoingOK(cut2, L2) /\ IncomingOK(cut2, L2)
        /\ InfosOK(cut2) /\ ChunksOK(cut2) /\ SendersOK(L2) /\ WiresOK(cut2, L2) /\ ReceiversOK(cut2, L2)
    <3>0. Landed(cut, mem) \subseteq L2
      BY ZenonT(60), <2>3, <2>5, LandedRefines
    <3>1. Agrees(cut, L2)
      BY ZenonT(60), <3>0, MoreLanded
    <3> QED BY ZenonT(60), <2>3, <3>1, StateRefines
  <2>8. /\ DOMAIN ri = ReqsOf(p)
        /\ \A j \in ReqsOf(p) :
             /\ IsCut(<<p, j>>, cut2) /\ ri[j].reqid = <<p, j>> /\ ri[j].nchunks = cut2[<<p, j>>]
             /\ Plan[p].op # "write" => ri[j].raddr = Plan[p].reqs[j].laddr
        /\ ListOK(AnnouncedInfos(post, ri), p, cut2)
    <3>1. total \in Nat \ {0}
      BY ZenonT(60), <1>6, <1>16
    <3> QED BY ZenonT(60), <1>16, <2>1, <2>2, <2>3, <3>1, FreshInfos DEF ri
  <2>9. 1 \in ReqsOf(p) /\ post.reqs[1].op = Plan[p].op /\ DOMAIN post.reqs = ReqsOf(p)
    <3>1. 1 \in ReqsOf(p) /\ post.reqs = RequestsOf(p)
      BY ZenonT(60), <2>1, <2>2, FirstRequest
    <3> QED BY <3>1 DEF RequestsOf
  <2>10. \A j \in DOMAIN ri : IsCut(ri[j].reqid, cut2) /\ ri[j].nchunks = cut2[ri[j].reqid]
    BY Zenon, <2>8
  <2>11. OutgoingOK(cut2, L2)'
    <3>1. TrackerOK(AddReqs(outgoing[n], post.handle, ri, NoPeer, NoResolve), cut2, L2)
      BY ZenonT(60), <2>6, <2>10, AddReqsKeeps DEF OutgoingOK
    <3>2. DOMAIN outgoing = Nodes
      BY Zenon DEF Agrees, Shapes
    <3>3. \A m \in Nodes : TrackerOK(outgoing'[m], cut2, L2)
      BY ZenonT(60), <1>7, <1>16, <2>6, <3>1, <3>2 DEF OutgoingOK
    <3> QED BY Zenon, <3>3 DEF OutgoingOK
  <2>12. IncomingOK(cut2, L2)'
    <3>1. CASE is_write
      BY ZenonT(60), <1>7, <1>16, <2>6, <3>1 DEF IncomingOK
    <3>2. CASE ~is_write
      <4>1. \A j \in DOMAIN ri : ResolvedAddr(ri[j], Resolve) = Dst(ri[j].reqid)
        <5>1. \A j \in ReqsOf(p) : Plan[p].reqs[j].laddr # NullAddr
          BY Zenon, <2>1, PlanAssumption DEF ReqsOf
        <5>2. \A j \in ReqsOf(p) : Dst(<<p, j>>) = Plan[p].reqs[j].laddr
          BY Zenon, <2>9, <3>2 DEF Dst, DstAddr, is_write
        <5>3. Plan[p].op # "write"
          BY ZenonT(60), <2>9, <3>2 DEF is_write
        <5> QED BY ZenonT(60), <2>8, <5>1, <5>2, <5>3 DEF ResolvedAddr
      <4>2. /\ TrackerOK(AddReqs(incoming[n], post.handle, ri, NoPeer, Resolve), cut2, L2)
            /\ TargetsOK(AddReqs(incoming[n], post.handle, ri, NoPeer, Resolve), n)
        <5>1. TrackerOK(incoming[n], cut2, L2) /\ TargetsOK(incoming[n], n)
          BY Zenon, <2>6 DEF IncomingOK
        <5> QED BY SMTT(60), <2>10, <4>1, <5>1, AddReqsKeeps
      <4>3. DOMAIN incoming = Nodes
        BY Zenon DEF Agrees, Shapes
      <4>4. \A m \in Nodes : TrackerOK(incoming'[m], cut2, L2) /\ TargetsOK(incoming'[m], m)
        BY ZenonT(60), <1>7, <1>16, <2>6, <3>2, <4>2, <4>3 DEF IncomingOK
      <4> QED BY Zenon, <4>4 DEF IncomingOK
    <3> QED BY ZenonT(60), <3>1, <3>2
  <2>13. MainOK(work, n, cut2)
    <3>1. work = [at |-> "infos", post |-> ann, w |-> 1, r |-> 1, i |-> 0]
      BY Zenon, <1>16 DEF work, IsFresh
    <3>2. IsPost(ann) /\ ann.reqs = post.reqs /\ ann.peer = post.peer /\ ann.req_infos = AnnouncedInfos(post, ri)
      BY Zenon, <2>2 DEF IsPost, ann
    <3>3. ann.req_infos[1].nchunks \in Nat \ {0}
      <4>1. <<p, 1>> \in Requests
        BY ZenonT(60), <2>1, <2>9, PostRequests
      <4>2. ann.req_infos[1].nchunks = cut2[<<p, 1>>]
        BY ZenonT(60), <2>8, <2>9, <3>2 DEF ListOK
      <4>3. cut2[<<p, 1>>] \in Nat \ {0}
        BY ZenonT(60), <2>3, <2>8, <2>9, <4>1 DEF IsCut, Cuts
      <4> QED BY ZenonT(60), <4>2, <4>3
    <3>4. LocalOK(ann, n, p) /\ ListOK(ann.req_infos, p, cut2)
      BY ZenonT(60), <2>1, <2>8, <3>2 DEF LocalOK
    <3> QED BY SMTT(60), <2>1, <2>2, <2>9, <3>1, <3>2, <3>3, <3>4 DEF MainOK
  <2>14. MainsOK(cut2)'
    <3>1. main' = [main EXCEPT ![n] = work] /\ DOMAIN main = Nodes
      BY ZenonT(60), <1>7, <1>16 DEF Agrees, Shapes
    <3> QED BY ZenonT(60), <2>6, <2>13, <3>1 DEF MainsOK
  <2>15. PostsOK(cut2)'
    <3>1. \A m \in Nodes : \A x \in Range(posts'[m]) : IsFresh(x) => PostOf(x) # p /\ PostOf(x) \in Posts
      <4> SUFFICES ASSUME NEW m \in Nodes, NEW x \in Range(posts'[m]), IsFresh(x)
                   PROVE  PostOf(x) # p /\ PostOf(x) \in Posts
        BY SMTT(30)
      <4>1. x \in Range(posts[m]) /\ PostOK(x, m, cut)
        BY ZenonT(60), <1>11 DEF Agrees, PostsOK, QueueOK
      <4>2. PostOf(x) \in Posts /\ LocalOK(x, m, PostOf(x))
        BY ZenonT(60), <4>1, FreshIsLocal
      <4>3. CASE m = n
        BY ZenonT(60), <1>2, <1>10, <1>16, <4>2, <4>3 DEF p
      <4>4. CASE m # n
        BY ZenonT(60), <2>1, <4>2, <4>4 DEF LocalOK
      <4> QED BY ZenonT(60), <4>3, <4>4
    <3>2. \A m \in Nodes : \A x \in Range(posts'[m]) : PostOK(x, m, cut2)
      <4> SUFFICES ASSUME NEW m \in Nodes, NEW x \in Range(posts'[m]) PROVE PostOK(x, m, cut2)
        BY SMTT(30)
      <4>1. PostOK(x, m, cut)
        BY ZenonT(60), <1>11 DEF Agrees, PostsOK, QueueOK
      <4>2. CASE IsFresh(x)
        <5>1. LocalOK(x, m, PostOf(x)) /\ \A j \in ReqsOf(PostOf(x)) : cut[<<PostOf(x), j>>] = 0
          BY ZenonT(60), <4>1, <4>2, FreshIsLocal
        <5>2. PostOf(x) # p /\ PostOf(x) \in Posts
          BY ZenonT(60), <3>1, <4>2
        <5>3. \A j \in ReqsOf(PostOf(x)) : cut2[<<PostOf(x), j>>] = 0
          <6>1. \A j \in ReqsOf(PostOf(x)) : <<PostOf(x), j>> \in Requests
            BY ZenonT(60), <5>2, PostRequests
          <6> QED BY ZenonT(60), <2>3, <5>1, <5>2, <6>1
        <5> QED BY ZenonT(60), <4>1, <4>2, <5>1, <5>2, <5>3 DEF PostOK
      <4>3. CASE ~IsFresh(x)
        BY ZenonT(60), <2>3, <4>1, <4>3, ReplyRefines DEF PostOK
      <4> QED BY ZenonT(60), <4>2, <4>3
    <3>3. \A m \in Nodes : QueueOK(posts'[m], m, cut2)
      <4>1. \A m \in Nodes : QueueOK(posts'[m], m, cut)
        BY ZenonT(60), <1>2, <1>10 DEF Agrees, PostsOK
      <4> QED BY ZenonT(60), <3>2, <4>1 DEF QueueOK
    <3>4. \A m \in Nodes : \A x \in Range(posts'[m]) : IsFresh(x) => outcome'[PostOf(x)] # "none"
      BY ZenonT(60), <1>8, <1>11 DEF Agrees, PostsOK
    <3>5. \A r \in Requests : outcome'[r[1]] = "none" => cut2[r] = 0
      <4>1. outcome[p] # "none"
        BY ZenonT(60), <1>2, <1>16 DEF Agrees, PostsOK, p
      <4> QED BY ZenonT(60), <1>8, <2>3, <4>1 DEF Agrees, PostsOK
    <3> QED BY ZenonT(60), <3>3, <3>4, <3>5 DEF PostsOK
  <2>16. Agrees(cut2, L2)'
    <3>1. InfosOK(cut2)' /\ ChunksOK(cut2)' 
      BY ZenonT(60), <1>8, <2>6 DEF InfosOK, ChunksOK
    <3>2. SendersOK(L2)' /\ WiresOK(cut2, L2)' /\ ReceiversOK(cut2, L2)'
      BY ZenonT(60), <1>8, <2>6 DEF SendersOK, WiresOK, ReceiversOK
    <3> QED BY ZenonT(60), <1>9, <2>11, <2>12, <2>14, <2>15, <3>1, <3>2 DEF Agrees
  <2>17. L2 = Landed(cut2, mem)'
    BY ZenonT(60), <1>8, <2>5
  <2> QED BY ZenonT(60), <2>3, <2>16, <2>17
<1> QED BY Zenon, <1>14, <1>15, <1>16

\* What the main thread has at hand while it hands out the post.
LEMMA MainWork ==
    ASSUME NEW cut, NEW L, Agrees(cut, L), NEW n \in Nodes, main[n].at \in {"infos", "chunks"}
    PROVE  LET x == main[n]
           IN  /\ x \in [at : {"infos", "chunks"}, post : {x.post}, w : {x.w}, r : {x.r}, i : Nat]
               /\ IsPost(x.post) /\ IsSeq(x.post.reqs) /\ x.r \in DOMAIN x.post.reqs
               /\ x.i < x.post.req_infos[x.r].nchunks
               /\ \E p \in Posts :
                    \/ /\ LocalOK(x.post, n, p) /\ ListOK(x.post.req_infos, p, cut)
                       /\ x.at = "chunks" => Plan[p].op = "write"
                    \/ ReplyOK(x.post, n, p, cut) /\ x.at = "chunks"
<1>1. MainOK(main[n], n, cut)
  BY Zenon DEF Agrees, MainsOK
<1>2. main[n] # MainIdle
  BY DEF MainIdle
<1> QED BY ZenonT(60), <1>1, <1>2 DEF MainOK

\* The main thread hands the descriptors of a post to a worker.
LEMMA MainEnqueueInfoKeeps ==
    ASSUME NEW cut \in Cuts, NEW L, Agrees(cut, L), NEW n \in Nodes, MainEnqueueInfo(n)
    PROVE  Agrees(cut, L)'
<1> DEFINE m == main[n]
           post == m.post
           msg == [type |-> "info", handle |-> post.handle, reqs |-> post.req_infos, peer |-> n]
           c == <<n, post.peer, m.w>>
<1>0. m.at = "infos"
  BY Zenon DEF MainEnqueueInfo
<1>1. /\ m \in [at : {"infos", "chunks"}, post : {m.post}, w : {m.w}, r : {m.r}, i : Nat]
      /\ IsPost(post) /\ IsSeq(post.reqs) /\ m.r \in DOMAIN post.reqs
      /\ m.i < post.req_infos[m.r].nchunks
      /\ \E p \in Posts : LocalOK(post, n, p) /\ ListOK(post.req_infos, p, cut)
  BY ZenonT(60), <1>0, MainWork
<1>2. PICK p \in Posts : LocalOK(post, n, p) /\ ListOK(post.req_infos, p, cut)
  BY Zenon, <1>1
<1>3. (Shapes /\ PostsOK(cut) /\ OutgoingOK(cut, L) /\ IncomingOK(cut, L)
       /\ ChunksOK(cut) /\ SendersOK(L) /\ WiresOK(cut, L) /\ ReceiversOK(cut, L))'
  BY Zenon DEF Agrees, MainEnqueueInfo, MainUnchanged, netVars, userVars, Shapes, PostsOK,
         OutgoingOK, IncomingOK, ChunksOK, SendersOK, WiresOK, ReceiversOK
<1>4. infos' = infos \/ infos' = [infos EXCEPT ![c] = Append(@, msg)]
  BY Zenon DEF MainEnqueueInfo
<1>5. main' = [main EXCEPT ![n] =
             IF m.w < LastInfoWorker(n, post.peer) THEN [m EXCEPT !.w = @ + 1]
             ELSE IF post.reqs[1].op = "write" THEN [m EXCEPT !.at = "chunks", !.w = 1]
             ELSE MainIdle]
  BY Zenon DEF MainEnqueueInfo
<1>6. DOMAIN main = Nodes /\ DOMAIN infos = Channels
  BY Zenon DEF Agrees, Shapes
<1>7. InfosOK(cut)'
  <2> SUFFICES ASSUME NEW d \in Channels
               PROVE  IsSeq(infos'[d]) /\ \A x \in Range(infos'[d]) : \E s \in Posts : InfoOK(x, d, s, cut)
    BY Zenon DEF InfosOK
  <2>1. IsSeq(infos[d]) /\ \A x \in Range(infos[d]) : \E s \in Posts : InfoOK(x, d, s, cut)
    BY Zenon DEF Agrees, InfosOK
  <2>2. d = c => InfoOK(msg, d, p, cut)
    <3>1. msg.type = "info" /\ msg.peer = n /\ msg.reqs = post.req_infos
      OBVIOUS
    <3>2. c[1] = n /\ c[2] = post.peer
      OBVIOUS
    <3> HIDE DEF c, msg
    <3> QED BY ZenonT(60), <1>2, <3>1, <3>2 DEF InfoOK, LocalOK
  <2> HIDE DEF c, msg
  <2>3. infos'[d] = infos[d] \/ (d = c /\ infos'[d] = Append(infos[d], msg))
    BY ZenonT(60), <1>4, <1>6
  <2>4. IsSeq(Append(infos[d], msg)) /\ Range(Append(infos[d], msg)) = Range(infos[d]) \cup {msg}
    BY ZenonT(60), <2>1, AppendHolds
  <2> QED BY ZenonT(60), <2>1, <2>2, <2>3, <2>4
<1>8. post.reqs[1].op = Plan[p].op
  BY SMTT(60), <1>2, FirstRequest DEF LocalOK, RequestsOf
<1>9. MainOK(main'[n], n, cut)
  <2> HIDE DEF m
  <2>1. MainOK([m EXCEPT !.w = @ + 1], n, cut)
    <3> DEFINE y == [m EXCEPT !.w = @ + 1]
    <3>1. y \in [at : {"infos"}, post : {m.post}, w : {y.w}, r : {m.r}, i : {m.i}]
      BY Zenon, <1>0, <1>1
    <3> HIDE DEF y
    <3> QED BY ZenonT(60), <1>1, <1>2, <3>1 DEF MainOK, y
  <2>2. ASSUME post.reqs[1].op = "write" PROVE MainOK([m EXCEPT !.at = "chunks", !.w = 1], n, cut)
    <3> DEFINE y == [m EXCEPT !.at = "chunks", !.w = 1]
    <3>1. y \in [at : {"chunks"}, post : {m.post}, w : {y.w}, r : {m.r}, i : {m.i}]
      BY ZenonT(60), <1>0, <1>1
    <3> HIDE DEF y
    <3> QED BY ZenonT(60), <1>1, <1>2, <1>8, <2>2, <3>1 DEF MainOK, y
  <2>3. MainOK(MainIdle, n, cut)
    BY Zenon DEF MainOK
  <2> QED BY ZenonT(60), <1>5, <1>6, <2>1, <2>2, <2>3
<1>10. MainsOK(cut)'
  BY ZenonT(60), <1>5, <1>6, <1>9 DEF Agrees, MainsOK
<1> QED BY ZenonT(60), <1>3, <1>7, <1>10 DEF Agrees

\* The chunk that the main thread hands out next is a chunk of the cut.
LEMMA ChunkIsCut ==
    ASSUME NEW cut \in Cuts, NEW L, Agrees(cut, L), NEW n \in Nodes, main[n].at = "chunks"
    PROVE  LET m == main[n]
               info == m.post.req_infos[m.r]
           IN  /\ IsCut(info.reqid, cut) /\ info.nchunks = cut[info.reqid] /\ info.len = LenOf(info.reqid)
               /\ m.post.reqs[m.r].laddr = Src(info.reqid) /\ Src(info.reqid) # NullAddr
               /\ info.raddr \in {NullAddr, Dst(info.reqid)}
               /\ n = Sender(info.reqid) /\ m.post.peer = Target(info.reqid)
<1> DEFINE m == main[n]
           post == m.post
           j == m.r
           info == post.req_infos[j]
<1>1. PICK p \in Posts :
         \/ LocalOK(post, n, p) /\ ListOK(post.req_infos, p, cut) /\ Plan[p].op = "write"
         \/ ReplyOK(post, n, p, cut)
  BY ZenonT(60), MainWork
<1>2. j \in DOMAIN post.reqs
  BY Zenon, MainWork
<1> HIDE DEF m, j
<1>3. CASE LocalOK(post, n, p) /\ ListOK(post.req_infos, p, cut) /\ Plan[p].op = "write"
  <2>1. j \in ReqsOf(p) /\ post.reqs[j].laddr = Plan[p].reqs[j].laddr
    BY SMTT(60), <1>2, <1>3 DEF LocalOK, RequestsOf
  <2>2. <<p, j>> \in Requests /\ Plan[p].reqs[j].laddr # NullAddr
    BY ZenonT(60), <2>1, PostRequests, PlanAssumption DEF ReqsOf
  <2>3. info \in [reqid : {<<p, j>>}, nchunks : {cut[<<p, j>>]}, len : {LenOf(<<p, j>>)},
                         op : {Plan[p].op}, raddr : {Plan[p].reqs[j].raddr}, meta : {<<p, j>>}]
    BY ZenonT(60), <1>3, <2>1 DEF ListOK
  <2>4. cut[<<p, j>>] # 0
    BY ZenonT(60), <1>3, <2>1 DEF ListOK
  <2>5. /\ Src(<<p, j>>) = Plan[p].reqs[j].laddr
        /\ Plan[p].reqs[j].raddr # NullAddr => Dst(<<p, j>>) = Plan[p].reqs[j].raddr
        /\ Sender(<<p, j>>) = n /\ Target(<<p, j>>) = post.peer
    BY Zenon, <1>3 DEF Src, SrcAddr, Dst, DstAddr, RemoteAddr, ResolvedAddr, Sender, Target, LocalOK
  <2> HIDE DEF info
  <2> QED BY ZenonT(60), <2>1, <2>2, <2>3, <2>4, <2>5 DEF IsCut, info, j, m
<1>4. CASE ReplyOK(post, n, p, cut)
  <2>1. j \in ReqsOf(p) /\ post.reqs[j].laddr = Src(<<p, j>>) /\ Src(<<p, j>>) # NullAddr
    BY Zenon, <1>2, <1>4 DEF ReplyOK
  <2>2. <<p, j>> \in Requests
    BY Zenon, <2>1, PostRequests
  <2>3. info \in [reqid : {<<p, j>>}, nchunks : {cut[<<p, j>>]}, len : {LenOf(<<p, j>>)},
                  op : {"write"}, raddr : {NullAddr}, meta : {<<p, j>>}]
    BY Zenon, <1>4, <2>1 DEF ReplyOK
  <2>4. cut[<<p, j>>] # 0
    BY Zenon, <1>4, <2>1 DEF ReplyOK
  <2>5. Sender(<<p, j>>) = n /\ Target(<<p, j>>) = post.peer
    BY Zenon, <1>4 DEF Sender, Target, ReplyOK
  <2> HIDE DEF info
  <2> QED BY ZenonT(60), <2>1, <2>2, <2>3, <2>4, <2>5 DEF IsCut, info, j, m
<1> QED BY ZenonT(60), <1>1, <1>3, <1>4

\* The main thread hands a chunk to a worker.
LEMMA MainEnqueueChunkKeeps ==
    ASSUME NEW cut \in Cuts, NEW L, Agrees(cut, L), NEW n \in Nodes, MainEnqueueChunk(n)
    PROVE  Agrees(cut, L)'
<1> DEFINE m == main[n]
           post == m.post
           info == post.req_infos[m.r]
           c == <<n, post.peer, ChunkWorker(m.i, workers[n][post.peer])>>
           chunk == [handle |-> post.handle, reqid |-> info.reqid, index |-> m.i,
                        len |-> ChunkLen(info.len, info.nchunks, m.i),
                        offset |-> ChunkOffset(info.len, info.nchunks, m.i),
                        raddr |-> info.raddr, laddr |-> post.reqs[m.r].laddr]
<1>0. m.at = "chunks"
  BY Zenon DEF MainEnqueueChunk
<1>1. /\ m \in [at : {"infos", "chunks"}, post : {m.post}, w : {m.w}, r : {m.r}, i : Nat]
      /\ IsPost(post) /\ IsSeq(post.reqs) /\ m.r \in DOMAIN post.reqs
      /\ m.i < info.nchunks
  BY ZenonT(60), <1>0, MainWork
<1>2. PICK p \in Posts : 
         \/ LocalOK(post, n, p) /\ ListOK(post.req_infos, p, cut) /\ Plan[p].op = "write"
         \/ ReplyOK(post, n, p, cut)
  BY Zenon, <1>0, MainWork
<1>3. (Shapes /\ PostsOK(cut) /\ OutgoingOK(cut, L) /\ IncomingOK(cut, L)
       /\ InfosOK(cut) /\ SendersOK(L) /\ WiresOK(cut, L) /\ ReceiversOK(cut, L))'
  BY ZenonT(60) DEF Agrees, MainEnqueueChunk, MainUnchanged, netVars, userVars, Shapes, PostsOK,
         OutgoingOK, IncomingOK, InfosOK, SendersOK, WiresOK, ReceiversOK
<1>4. chunks' = [chunks EXCEPT ![c] = Append(@, chunk)]
  BY ZenonT(60) DEF MainEnqueueChunk
<1>5. main' = [main EXCEPT ![n] =
             IF m.i + 1 < info.nchunks THEN [m EXCEPT !.i = @ + 1]
             ELSE IF m.r < Len(post.reqs) THEN [m EXCEPT !.i = 0, !.r = @ + 1]
             ELSE MainIdle]
  BY Zenon DEF MainEnqueueChunk
<1>6. DOMAIN main = Nodes /\ DOMAIN chunks = Channels
  BY Zenon DEF Agrees, Shapes
<1>6a. /\ IsCut(info.reqid, cut) /\ info.nchunks = cut[info.reqid] /\ info.len = LenOf(info.reqid)
       /\ post.reqs[m.r].laddr = Src(info.reqid) /\ Src(info.reqid) # NullAddr
       /\ info.raddr \in {NullAddr, Dst(info.reqid)}
       /\ n = Sender(info.reqid) /\ post.peer = Target(info.reqid)
  BY ZenonT(60), <1>0, ChunkIsCut
<1>7. ChunksOK(cut)'
  <2> SUFFICES ASSUME NEW d \in Channels
               PROVE  IsSeq(chunks'[d]) /\ \A x \in Range(chunks'[d]) : ChunkOK(x, d, cut)
    BY Zenon DEF ChunksOK
  <2>1. IsSeq(chunks[d]) /\ \A x \in Range(chunks[d]) : ChunkOK(x, d, cut)
    BY Zenon DEF Agrees, ChunksOK
  <2>2. d = c => ChunkOK(chunk, d, cut)
    <3>1. /\ chunk.reqid = info.reqid /\ chunk.index = m.i /\ chunk.raddr = info.raddr
          /\ chunk.laddr = post.reqs[m.r].laddr /\ chunk.len = ChunkLen(info.len, info.nchunks, m.i)
          /\ chunk.offset = ChunkOffset(info.len, info.nchunks, m.i)
      BY Zenon
    <3>2. m.i \in Nat /\ m.i < info.nchunks
      BY Zenon, <1>1
    <3>3. c[1] = n /\ c[2] = post.peer
      BY SMTT(30)
    <3> HIDE DEF chunk, info, post, m, c
    <3>4. OnItsWay(chunk, c, cut)
      BY ZenonT(60), <1>6a, <3>1, <3>2, <3>3 DEF OnItsWay
    <3> QED BY ZenonT(60), <1>6a, <3>1, <3>4 DEF ChunkOK
  <2> HIDE DEF c, chunk
  <2>3. chunks'[d] = chunks[d] \/ (d = c /\ chunks'[d] = Append(chunks[d], chunk))
    BY Zenon, <1>4, <1>6
  <2>4. IsSeq(Append(chunks[d], chunk)) /\ Range(Append(chunks[d], chunk)) = Range(chunks[d]) \cup {chunk}
    BY Zenon, <2>1, AppendHolds
  <2> QED BY ZenonT(60), <2>1, <2>2, <2>3, <2>4
<1>9. MainOK(main'[n], n, cut)
  <2>1. ASSUME m.i + 1 < info.nchunks PROVE MainOK([m EXCEPT !.i = @ + 1], n, cut)
    <3> DEFINE y == [m EXCEPT !.i = @ + 1]
    <3> HIDE DEF m
    <3>1. y \in [at : {"chunks"}, post : {m.post}, w : {m.w}, r : {m.r}, i : {m.i + 1}] /\ m.i + 1 \in Nat
      BY <1>0, <1>1
    <3> HIDE DEF y
    <3> QED BY ZenonT(60), <1>1, <1>2, <2>1, <3>1 DEF MainOK, y
  <2>2. ASSUME m.r < Len(post.reqs) PROVE MainOK([m EXCEPT !.i = 0, !.r = @ + 1], n, cut)
    <3> DEFINE y == [m EXCEPT !.i = 0, !.r = @ + 1]
    <3> HIDE DEF m
    <3>1. y \in [at : {"chunks"}, post : {m.post}, w : {m.w}, r : {m.r + 1}, i : {0}]
      BY ZenonT(60), <1>0, <1>1
    <3>2. m.r + 1 \in DOMAIN post.reqs
      <4>1. PICK S : post.reqs \in Seq(S)
        BY Zenon, <1>1 DEF IsSeq
      <4>2. DOMAIN post.reqs = 1 .. Len(post.reqs) /\ Len(post.reqs) \in Nat
        BY <4>1
      <4> QED BY SMTT(60), <1>1, <2>2, <4>2
    <3>3. DOMAIN post.reqs = ReqsOf(p)
      BY Zenon, <1>2 DEF LocalOK, RequestsOf, ReplyOK
    <3>4. post.req_infos[m.r + 1].nchunks \in Nat /\ post.req_infos[m.r + 1].nchunks > 0
      <4>1. <<p, m.r + 1>> \in Requests /\ m.r + 1 \in ReqsOf(p)
        BY ZenonT(60), <3>2, <3>3, PostRequests
      <4>2. post.req_infos[m.r + 1].nchunks = cut[<<p, m.r + 1>>] /\ cut[<<p, m.r + 1>>] # 0
        BY ZenonT(60), <1>2, <4>1 DEF ListOK, ReplyOK
      <4> QED BY SMTT(60), <4>1, <4>2 DEF Cuts
    <3> HIDE DEF y
    <3> QED BY ZenonT(60), <1>1, <1>2, <3>1, <3>2, <3>4 DEF MainOK, y
  <2>3. MainOK(MainIdle, n, cut)
    BY Zenon DEF MainOK
  <2> HIDE DEF m, info, post
  <2> QED BY ZenonT(60), <1>5, <1>6, <2>1, <2>2, <2>3
<1>10. MainsOK(cut)'
  BY Zenon, <1>5, <1>6, <1>9 DEF Agrees, MainsOK
<1> QED BY ZenonT(60), <1>3, <1>7, <1>10 DEF Agrees
=============================================================================
