------------------------------- MODULE Worker -------------------------------
(***************************************************************************)
(* The send thread of a worker (engine/worker.cc SendLoop) with the sends   *)
(* of Transfer.  Workers of accepted channels have nothing to send but the  *)
(* acknowledgements of their receive thread, so a channel has one send      *)
(* thread, at the connecting end.  Worker shutdown is not part of it.       *)
(***************************************************************************)
EXTENDS TransportState

SenderUnchanged == UNCHANGED <<engineVars, receiver, peerOf, handleOf, polling>>

\* A failed write ends the send loop of a stream; the loop of a message channel
\* goes on.  A broken stream may also take the bytes before it notices.
AfterWrite(c, msg) ==
    \/ CanTransmit(<<c, "conn">>) /\ Transmit(<<c, "conn">>, msg) /\ UNCHANGED sender
    \/ /\ ~up[c] /\ UNCHANGED wire
       /\ sender' = [sender EXCEPT ![c] = Idle("stop")]

\* SendLoop takes an info before any chunk.
SendInfo(c) ==
    /\ sender[c].at = "run" /\ infos[c] # <<>>
    /\ infos' = [infos EXCEPT ![c] = Tail(@)]
    /\ AfterWrite(c, Head(infos[c]))
    /\ UNCHANGED <<outgoing, incoming, chunks, up, env, mem, outcome, recvPosts>> /\ SenderUnchanged

MustSendInfoFirst_never(c) == FALSE
MustSendInfoFirst(c) == infos[c] # <<>>

\* RdmaChannel::Write: the peer's memory is written before the CQE reports
\* success, or the CQE reports an error, after which the queue pair is unusable.
OneSidedWrite(c, chunk, bytes) ==
    /\ env.kind = "onesided"
    /\ \/ /\ up[c] /\ chunk.raddr # NullAddr
          /\ mem' = StoreBytes(chunk.raddr, chunk.offset, bytes)
          /\ sender' = [sender EXCEPT ![c] = [Idle("update") EXCEPT !.msg = chunk]]
          /\ UNCHANGED <<up, env>>
       \/ /\ ~up[c] \/ chunk.raddr = NullAddr \/ env.loss > 0
          /\ up' = [up EXCEPT ![c] = FALSE]
          /\ env' = IF up[c] /\ chunk.raddr # NullAddr THEN [env EXCEPT !.loss = @ - 1] ELSE env
          /\ UNCHANGED <<mem, sender>>

SendChunk(c) ==
    LET chunk == Head(chunks[c])
        bytes == LoadBytes(chunk.laddr, chunk.offset, chunk.len)
    IN  /\ sender[c].at = "run" /\ ~MustSendInfoFirst(c) /\ chunks[c] # <<>>
        /\ chunks' = [chunks EXCEPT ![c] = Tail(@)]
        /\ \/ /\ env.kind # "onesided"
              /\ AfterWrite(c, [type |-> "data", handle |-> chunk.handle, reqid |-> chunk.reqid,
                    index |-> chunk.index, len |-> chunk.len, offset |-> chunk.offset, payload |-> bytes])
              /\ UNCHANGED <<mem, up, env>>
           \/ OneSidedWrite(c, chunk, bytes) /\ UNCHANGED wire
        /\ UNCHANGED <<outgoing, incoming, infos, outcome, recvPosts>> /\ SenderUnchanged

\* outgoing_.Update after a one-sided write.
SendUpdate(c) ==
    LET n == c[1]
        chunk == sender[c].msg
    IN  /\ sender[c].at = "update"
        /\ IF UpdateAborts(outgoing[n], chunk.handle, chunk.reqid)
           THEN sender' = [sender EXCEPT ![c] = Idle("abort")] /\ UNCHANGED outgoing
           ELSE LET cb == UpdateCallback(outgoing[n], chunk.handle, chunk.reqid, chunk.index)
                IN  /\ outgoing' = [outgoing EXCEPT ![n] =
                         Update(@, chunk.handle, chunk.reqid, chunk.index)]
                    /\ sender' = [sender EXCEPT ![c] = IF cb = NoCallback THEN Idle("run")
                         ELSE [Idle("callback") EXCEPT !.msg = chunk, !.cb = cb]]
        /\ UNCHANGED <<incoming, infos, chunks, wire, up, env, mem, outcome, recvPosts>> /\ SenderUnchanged

SendCallback(c) ==
    /\ sender[c].at = "callback"
    /\ RunCallback(c[1], sender[c].cb, sender[c].msg.handle)
    /\ sender' = [sender EXCEPT ![c] = Idle("run")]
    /\ UNCHANGED <<outgoing, infos, chunks, wire, up, env, mem>> /\ SenderUnchanged

SendStep(c) == SendInfo(c) \/ SendChunk(c) \/ SendUpdate(c) \/ SendCallback(c)
=============================================================================
