----------------------------- MODULE RdmaChannel -----------------------------
(***************************************************************************)
(* A write over an RDMA connection (channel/channel_rdma.cc): the worker's  *)
(* send thread posts a one-sided write and polls the completion queue,      *)
(* while another thread may shut the channel down and the device completes  *)
(* or flushes the work.  The send loop stops after the first failed write.  *)
(***************************************************************************)
EXTENDS Naturals, Sequences

CONSTANTS MaxWrites

VARIABLES
    is_shutdown_,
    qpError,    \* the queue pair was moved to the error state
    sendQueue,  \* posted writes the device has not completed
    cq,         \* completions not polled yet
    remote,     \* writes whose data is in the peer's memory
    write,      \* the send thread's Write()
    shutter     \* the thread that calls Shutdown()

channelVars == <<is_shutdown_, qpError, sendQueue, cq, remote, write, shutter>>

ChannelInit ==
    /\ is_shutdown_ = FALSE /\ qpError = FALSE
    /\ sendQueue = <<>> /\ cq = <<>> /\ remote = {}
    /\ write = [n |-> 0, at |-> "idle", result |-> "none"]
    /\ shutter = "idle"

Return(result) == [n |-> write.n, at |-> "idle", result |-> result]

\* SendLoop goes on only while writes succeed.  A malformed pair of buffers, or a queue
\* pair that refuses the work, fails the write.
BeginWrite(n) ==
    /\ write.at = "idle" /\ write.result # "failed" /\ n = write.n + 1 /\ n <= MaxWrites
    /\ \/ /\ ~is_shutdown_
          /\ sendQueue' = Append(sendQueue, n)
          /\ write' = [n |-> n, at |-> "polling", result |-> "none"]
       \/ /\ write' = [n |-> n, at |-> "idle", result |-> "failed"]
          /\ UNCHANGED sendQueue
    /\ UNCHANGED <<is_shutdown_, qpError, cq, remote, shutter>>

PollCq_once ==
    /\ write.at = "polling"
    /\ IF cq = <<>>
       THEN write' = Return(IF is_shutdown_ THEN "failed" ELSE "ok") /\ UNCHANGED cq
       ELSE /\ cq' = Tail(cq)
            /\ write' = Return(IF ~is_shutdown_ /\ Head(cq).ok THEN "ok" ELSE "failed")
    /\ UNCHANGED <<is_shutdown_, qpError, sendQueue, remote, shutter>>

\* The turn of the polling loop that leaves it: a shutdown is seen, or the oldest
\* completion taken; a shutdown fails the write whatever was polled.
PollCq ==
    /\ write.at = "polling"
    /\ \/ cq = <<>> /\ is_shutdown_ /\ write' = Return("failed") /\ UNCHANGED cq
       \/ /\ cq # <<>>
          /\ cq' = Tail(cq)
          /\ write' = Return(IF ~is_shutdown_ /\ Head(cq).ok THEN "ok" ELSE "failed")
    /\ UNCHANGED <<is_shutdown_, qpError, sendQueue, remote, shutter>>

\* ibv_poll_cq fails.
PollFails ==
    /\ write.at = "polling"
    /\ write' = Return("failed")
    /\ UNCHANGED <<is_shutdown_, qpError, sendQueue, cq, remote, shutter>>

\* The device performs the oldest write or reports an error for it; in the error state
\* it flushes it.
Complete ==
    /\ sendQueue # <<>>
    /\ sendQueue' = Tail(sendQueue)
    /\ \/ /\ ~qpError
          /\ remote' = remote \cup {Head(sendQueue)}
          /\ cq' = Append(cq, [n |-> Head(sendQueue), ok |-> TRUE])
       \/ /\ cq' = Append(cq, [n |-> Head(sendQueue), ok |-> FALSE])
          /\ UNCHANGED remote
    /\ UNCHANGED <<is_shutdown_, qpError, write, shutter>>

\* Only the call that sets is_shutdown_ goes on to move the queue pair.
BeginShutdown ==
    /\ shutter = "idle"
    /\ is_shutdown_' = TRUE
    /\ shutter' = IF is_shutdown_ THEN "idle" ELSE "set"
    /\ UNCHANGED <<qpError, sendQueue, cq, remote, write>>

MoveQpToError ==
    /\ shutter = "set"
    /\ qpError' = TRUE /\ shutter' = "idle"
    /\ UNCHANGED <<is_shutdown_, sendQueue, cq, remote, write>>

ChannelNext ==
    \/ \E n \in 1..MaxWrites : BeginWrite(n)
    \/ PollCq \/ PollFails \/ Complete \/ BeginShutdown \/ MoveQpToError

----------------------------------------------------------------------------
\* A write that returns success has its own data in the peer's memory: completions carry
\* the channel and not the write, so this rests on no completion being left over from an
\* earlier write.
SuccessIsDelivered ==
    write.at = "idle" /\ write.result = "ok" => write.n \in remote /\ cq = <<>> /\ sendQueue = <<>>

=============================================================================
