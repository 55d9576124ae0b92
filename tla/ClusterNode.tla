---------------------------- MODULE ClusterNode ----------------------------
(***************************************************************************)
(* The workload of one :node process (test/cluster/node): the main thread  *)
(* of ClusterNode::Run driving its outbound streams, the threads of the     *)
(* transport that run completion callbacks, and the thread of the metrics   *)
(* sampler.  ExecuteOutboundStreams() keeps its mutex, queue and counter on *)
(* the stack of the main thread, and every callback refers to them.         *)
(***************************************************************************)
EXTENDS Sequences, SequencesExt, FiniteSets, Integers

CONSTANTS Streams,      \* the outbound streams of the node
          TotalXfers,   \* total_xfers of each stream, at least 1
          MaxSamples    \* bound: lines the sampler emits

VARIABLES
    run,              \* where ClusterNode::Run is
    ready_queue,      \* streams to post
    active_streams,   \* streams that have not finished
    current,          \* the stream popped from ready_queue
    inflight,         \* streams with a post whose callback has not run
    completed_xfers,
    failed,           \* streams that a failed post or completion ended
    sampler,          \* the sampler thread: "off", "waiting", "sampling"
    stop_,            \* the sampler's notification
    emitted           \* the lines written to the control channel

nodeVars == <<run, ready_queue, active_streams, current, inflight,
              completed_xfers, failed, sampler, stop_, emitted>>

streamVars == <<ready_queue, active_streams, current, inflight,
                completed_xfers, failed>>

NoStream == "none"

NodeInit ==
    /\ run = "wait_start"
    /\ ready_queue = <<>> /\ active_streams = 0
    /\ current = NoStream
    /\ inflight = {} /\ failed = {}
    /\ completed_xfers = [s \in Streams |-> 0]
    /\ sampler = "off" /\ stop_ = FALSE
    /\ emitted = <<"ready">>

\* START arrives: the sampler thread starts and the streams are queued.
BeginStreams ==
    /\ run = "wait_start"
    /\ run' = "await"
    /\ \E q \in SetToSeqs(Streams) : ready_queue' = q
    /\ active_streams' = Cardinality(Streams)
    /\ sampler' = "waiting"
    /\ UNCHANGED <<current, inflight, completed_xfers, failed, stop_, emitted>>

\* The main thread takes the next stream under the mutex, or leaves the loop
\* when none is queued and none is active.
AwaitWork ==
    /\ run = "await"
    /\ \/ /\ ready_queue # <<>>
          /\ current' = Head(ready_queue) /\ ready_queue' = Tail(ready_queue)
          /\ run' = "post"
       \/ /\ ready_queue = <<>> /\ active_streams = 0
          /\ run' = "workload_done" /\ UNCHANGED <<current, ready_queue>>
    /\ UNCHANGED <<active_streams, inflight, completed_xfers, failed, sampler,
                   stop_, emitted>>

\* Post() accepts the requests; its callback may run before Post() returns.
PostAccepted ==
    /\ run = "post" /\ current # NoStream
    /\ inflight' = inflight \cup {current}
    /\ current' = NoStream
    /\ UNCHANGED <<run, ready_queue, active_streams, completed_xfers, failed,
                   sampler, stop_, emitted>>

\* Post() fails: no callback will run, and the stream ends here.
PostRejected ==
    /\ run = "post" /\ current # NoStream
    /\ failed' = failed \cup {current}
    /\ active_streams' = active_streams - 1
    /\ run' = "await" /\ current' = NoStream
    /\ UNCHANGED <<ready_queue, inflight, completed_xfers, sampler, stop_,
                   emitted>>

PostReturns ==
    /\ run = "post" /\ current = NoStream
    /\ run' = "await"
    /\ UNCHANGED <<streamVars, sampler, stop_, emitted>>

\* The callback of a post, on a thread of the transport, under the mutex: a
\* success that is not the last transfer queues the stream again.
OnComplete_extra(s) ==
    /\ s \in inflight
    /\ inflight' = inflight \ {s}
    /\ \/ /\ completed_xfers' = [completed_xfers EXCEPT ![s] = @ + 1]
          /\ IF completed_xfers[s] < TotalXfers
             THEN /\ ready_queue' = Append(ready_queue, s)
                  /\ UNCHANGED active_streams
             ELSE /\ active_streams' = active_streams - 1
                  /\ UNCHANGED ready_queue
          /\ UNCHANGED failed
       \/ /\ failed' = failed \cup {s}
          /\ active_streams' = active_streams - 1
          /\ UNCHANGED <<ready_queue, completed_xfers>>
    /\ UNCHANGED <<run, current, sampler, stop_, emitted>>
OnComplete(s) ==
    /\ s \in inflight
    /\ inflight' = inflight \ {s}
    /\ \/ /\ completed_xfers' = [completed_xfers EXCEPT ![s] = @ + 1]
          /\ IF completed_xfers[s] + 1 < TotalXfers
             THEN /\ ready_queue' = Append(ready_queue, s)
                  /\ UNCHANGED active_streams
             ELSE /\ active_streams' = active_streams - 1
                  /\ UNCHANGED ready_queue
          /\ UNCHANGED failed
       \/ /\ failed' = failed \cup {s}
          /\ active_streams' = active_streams - 1
          /\ UNCHANGED <<ready_queue, completed_xfers>>
    /\ UNCHANGED <<run, current, sampler, stop_, emitted>>

\* EmitWorkloadDone(), then WaitForCommand(kStopCommand).
ReportWorkloadDone ==
    /\ run = "workload_done"
    /\ emitted' = Append(emitted, "workload_done")
    /\ run' = "wait_stop"
    /\ UNCHANGED <<streamVars, sampler, stop_>>

\* sampler.Stop(): notify, then join.
StopSampler ==
    /\ run = "wait_stop"
    /\ stop_' = TRUE
    /\ run' = "join"
    /\ UNCHANGED <<streamVars, sampler, emitted>>

JoinSampler ==
    /\ run = "join" /\ sampler = "off"
    /\ run' = "node_done"
    /\ UNCHANGED <<streamVars, sampler, stop_, emitted>>

ReportNodeDone ==
    /\ run = "node_done"
    /\ emitted' = Append(emitted, "node_done")
    /\ run' = "returned"
    /\ UNCHANGED <<streamVars, sampler, stop_>>

\* The sampler thread: the wait for the notification ends with it or with the
\* interval; a sample is then captured and emitted.
SamplerWakes ==
    /\ sampler = "waiting"
    /\ \/ stop_ /\ sampler' = "off"
       \/ /\ ~stop_ /\ Len(emitted) < MaxSamples + 2
          /\ sampler' = "sampling"
    /\ UNCHANGED <<run, streamVars, stop_, emitted>>

EmitMetricsSample ==
    /\ sampler = "sampling"
    /\ emitted' = Append(emitted, "sample")
    /\ sampler' = "waiting"
    /\ UNCHANGED <<run, streamVars, stop_>>

MainStep ==
    \/ BeginStreams \/ AwaitWork \/ PostAccepted \/ PostReturns
    \/ ReportWorkloadDone \/ StopSampler \/ JoinSampler \/ ReportNodeDone

SamplerStep == SamplerWakes \/ EmitMetricsSample

NodeNext ==
    \/ MainStep \/ PostRejected \/ SamplerStep
    \/ \E s \in Streams : OnComplete(s)

-----------------------------------------------------------------------------
(* Properties *)

\* active_streams, shared by the main thread and the callbacks, always counts
\* the streams that are queued, being posted or in flight, and none of these
\* has run all its transfers.  Once the main thread has left ExecuteOutboundStreams() no
\* callback is still to come (it would use a dead mutex), and every stream ran all its
\* transfers or failed on the way.
ActiveIsExact ==
    /\ run \in {"await", "post"} =>
         LET busy == ToSet(ready_queue) \cup inflight \cup ({current} \cap Streams)
         IN /\ Cardinality(busy) = active_streams
            /\ \A s \in busy : s \notin failed /\ completed_xfers[s] < TotalXfers
    /\ run \in {"workload_done", "wait_stop", "join", "node_done", "returned"} =>
         inflight = {} /\ \A s \in Streams : s \in failed \/ completed_xfers[s] = TotalXfers

=============================================================================
