---------------------------- MODULE InstancePool ----------------------------
(***************************************************************************)
(* The transport instances of a :node process (test/cluster/node/          *)
(* instance.cc): created by the threads of ParallelFor(), which draw indices *)
(* and candidate ports from two atomic counters, registered with the buffer *)
(* they share, and destroyed in parallel again.  The buffer keeps pointers  *)
(* to the transports it must unregister from.                               *)
(***************************************************************************)
EXTENDS Integers

CONSTANTS NumInstances,   \* config.num_instances
          Threads,        \* the threads of ParallelFor
          BasePort, LastPort,       \* candidate ports; LastPort stands for 65535
          MaxPortBindAttempts       \* kMaxPortBindAttempts

\* CreateInstances() refuses a node without instances, ParallelFor() has at least one workers,
\* and port 0 is no base port.
ASSUME InstancesAssumption ==
    /\ NumInstances \in Nat \ {0} /\ BasePort \in Nat \ {0} /\ LastPort \in Nat
    /\ MaxPortBindAttempts \in Nat /\ Threads # {}

Indices == 0 .. NumInstances - 1
Ports == BasePort .. LastPort

VARIABLES
    phase,        \* "create", "destroy", "end"
    next_index, next_port, first_error,
    workers,      \* per thread: its place, index, attempts and port
    instances,    \* the port of each instance, or NoPort
    bound,        \* the ports of live transports
    busy,         \* ports other processes hold
    registered    \* registered_transports_ of the buffer, by port

instanceVars == <<phase, next_index, next_port, first_error, workers, instances,
                  bound, busy, registered>>

NoPort == 0

At(pc, idx, attempt, port) ==
    [pc |-> pc, idx |-> idx, attempt |-> attempt, port |-> port]

Fresh == At("draw", 0, 0, NoPort)

InstancesInit ==
    /\ phase = "create"
    /\ next_index = 0 /\ next_port = BasePort /\ first_error = FALSE
    /\ workers = [t \in Threads |-> Fresh]
    /\ instances = [i \in Indices |-> NoPort]
    /\ bound = {} /\ busy \in SUBSET Ports /\ registered = {}

Moves(t, next) == workers' = [workers EXCEPT ![t] = next]

\* A thread of ParallelFor() draws an index; it ends when there is none left.
DrawIndex(t) ==
    /\ workers[t].pc = "draw"
    /\ next_index' = next_index + 1
    /\ Moves(t, IF next_index >= NumInstances THEN At("end", 0, 0, NoPort)
                ELSE At("check", next_index, 0, NoPort))
    /\ UNCHANGED <<phase, next_port, first_error, instances, bound, busy,
                   registered>>

\* It looks for an earlier error under err_mu before it runs the body.
CheckError(t) ==
    /\ workers[t].pc = "check"
    /\ Moves(t, IF first_error THEN At("end", 0, 0, NoPort)
                ELSE [workers[t] EXCEPT
                        !.pc = IF phase = "create" THEN "bind" ELSE "unregister"])
    /\ UNCHANGED <<phase, next_index, next_port, first_error, instances, bound,
                   busy, registered>>

\* BindTransportWithRetry(): draw a candidate port and create the transport.
\* Creation fails where the port is held, and may fail elsewhere.
DrawPort(t) ==
    /\ workers[t].pc = "bind"
    /\ next_port' = next_port + 1
    /\ Moves(t, [workers[t] EXCEPT
                   !.pc = IF next_port > LastPort THEN "fail" ELSE "transport",
                   !.attempt = @ + 1, !.port = next_port])
    /\ UNCHANGED <<phase, next_index, first_error, instances, bound, busy,
                   registered>>

CreateTransport(t) ==
    /\ workers[t].pc = "transport"
    /\ \/ /\ workers[t].port \notin bound \cup busy
          /\ bound' = bound \cup {workers[t].port}
          /\ Moves(t, [workers[t] EXCEPT !.pc = "register"])
       \/ /\ Moves(t, [workers[t] EXCEPT
                         !.pc = IF workers[t].attempt < MaxPortBindAttempts THEN "bind"
                                ELSE "fail"])
          /\ UNCHANGED bound
    /\ UNCHANGED <<phase, next_index, next_port, first_error, instances, busy,
                   registered>>

\* RegisterWith() and the NodeInstance.  When the registration fails the
\* transport is destroyed on return.
RegisterWith_first(t) ==
    /\ workers[t].pc = "register"
    /\ registered' = registered \cup {workers[t].port}
    /\ \/ /\ instances' = [instances EXCEPT ![workers[t].idx] = workers[t].port]
          /\ Moves(t, Fresh) /\ UNCHANGED bound
       \/ /\ bound' = bound \ {workers[t].port}
          /\ Moves(t, [workers[t] EXCEPT !.pc = "fail"]) /\ UNCHANGED instances
    /\ UNCHANGED <<phase, next_index, next_port, first_error, busy>>
RegisterWith(t) ==
    /\ workers[t].pc = "register"
    /\ \/ /\ registered' = registered \cup {workers[t].port}
          /\ instances' = [instances EXCEPT ![workers[t].idx] = workers[t].port]
          /\ Moves(t, Fresh) /\ UNCHANGED bound
       \/ /\ bound' = bound \ {workers[t].port}
          /\ Moves(t, [workers[t] EXCEPT !.pc = "fail"])
          /\ UNCHANGED <<instances, registered>>
    /\ UNCHANGED <<phase, next_index, next_port, first_error, busy>>

\* The body failed: the error is kept and the thread ends.
BodyFails(t) ==
    /\ workers[t].pc = "fail"
    /\ first_error' = TRUE
    /\ Moves(t, At("end", 0, 0, NoPort))
    /\ UNCHANGED <<phase, next_index, next_port, instances, bound, busy,
                   registered>>

\* ~NodeInstance(): unregister under the buffer's mutex, then reset transport_.
UnregisterFrom(t) ==
    /\ workers[t].pc = "unregister"
    /\ registered' = registered \ {instances[workers[t].idx]}
    /\ Moves(t, [workers[t] EXCEPT !.pc = "reset"])
    /\ UNCHANGED <<phase, next_index, next_port, first_error, instances, bound,
                   busy>>

ResetTransport(t) ==
    /\ workers[t].pc = "reset"
    /\ bound' = bound \ {instances[workers[t].idx]}
    /\ instances' = [instances EXCEPT ![workers[t].idx] = NoPort]
    /\ Moves(t, Fresh)
    /\ UNCHANGED <<phase, next_index, next_port, first_error, busy, registered>>

\* The threads are joined.  CreateInstances() destroys what it has on an error;
\* otherwise the node runs, and its destructor does so later.
Join ==
    /\ \A t \in Threads : workers[t].pc = "end"
    /\ \/ phase = "create" /\ phase' = IF first_error THEN "destroy" ELSE "running"
       \/ phase = "destroy" /\ phase' = "end"
    /\ IF phase' = "destroy"
       THEN /\ next_index' = 0 /\ first_error' = FALSE
            /\ workers' = [t \in Threads |-> Fresh]
       ELSE UNCHANGED <<next_index, first_error, workers>>
    /\ UNCHANGED <<next_port, instances, bound, busy, registered>>

DestroyInstances ==
    /\ phase = "running"
    /\ phase' = "destroy"
    /\ next_index' = 0 /\ first_error' = FALSE
    /\ workers' = [t \in Threads |-> Fresh]
    /\ UNCHANGED <<next_port, instances, bound, busy, registered>>

ThreadStep(t) ==
    \/ DrawIndex(t) \/ CheckError(t) \/ DrawPort(t) \/ CreateTransport(t)
    \/ RegisterWith(t) \/ BodyFails(t) \/ UnregisterFrom(t) \/ ResetTransport(t)

InstancesNext == Join \/ DestroyInstances \/ \E t \in Threads : ThreadStep(t)

InstancesSpec == InstancesInit /\ [][InstancesNext]_instanceVars

-----------------------------------------------------------------------------
(* Properties *)

\* The buffer never keeps a pointer to a destroyed transport: UnregisterAll()
\* and UnregisterFrom() follow these pointers.
BufferReferencesLive == registered \subseteq bound

\* A node that runs has all its instances, each on a port of its own and
\* registered, although threads stop early on the error of another.
RunningIsComplete ==
    phase = "running" =>
        /\ \A i \in Indices : instances[i] \in registered
        /\ \A i, j \in Indices : i # j => instances[i] # instances[j]

\* What was created before a failure is destroyed, as is everything at the end.
EndIsEmpty ==
    phase = "end" => bound = {} /\ registered = {}
                     /\ \A i \in Indices : instances[i] = NoPort

=============================================================================
