--------------------------- MODULE ClusterSession ---------------------------
(***************************************************************************)
(* A benchmark session of the cluster harness (test/cluster): the Python   *)
(* orchestrator, one reader thread per node, and the :node processes it     *)
(* drives over their standard input and output.  A remote node hangs off an *)
(* ssh process: ending that process closes the node's pipes and leaves the  *)
(* node itself running.                                                     *)
(*                                                                         *)
(* Every wait of the orchestrator has a time limit, and the time at which   *)
(* it runs out is not modelled: a wait may give up at any moment.           *)
(***************************************************************************)
EXTENDS Sequences, SequencesExt, FiniteSets, Integers

CONSTANTS ServerNodes,   \* the server nodes, in the order they are spawned
          ClientNodes,   \* the client nodes, likewise
          RemoteNodes    \* the nodes that run on another host

VARIABLES
    step,        \* the step of run_bipartite_session
    todo,        \* the nodes the current loop has still to handle
    outcome,     \* "none", "ok", or "error" once an exception is raised
    listed,      \* server_procs and client_procs
    staged,      \* _staged_remotes: the hosts that cleanup() visits
    terminated,  \* the nodes whose local (node or ssh) process was ended
    proc,        \* the state of each :node process
    stdin,       \* the commands a node has still to read
    stdout,      \* the lines its reader thread has still to read
    payloads,    \* the payloads the reader thread has stored
    error        \* the nodes whose reader thread set error

sessionVars == <<step, todo, outcome, listed, staged, terminated, proc, stdin,
                 stdout, payloads, error>>

orchestratorVars == <<step, todo, outcome, listed, staged>>

Nodes == ToSet(ServerNodes) \cup ToSet(ClientNodes)

SessionInit ==
    /\ step = "stage" /\ todo = <<>> /\ outcome = "none"
    /\ listed = {} /\ staged = {} /\ terminated = {} /\ error = {}
    /\ proc = [n \in Nodes |-> "absent"]
    /\ stdin = [n \in Nodes |-> <<>>]
    /\ stdout = [n \in Nodes |-> <<>>]
    /\ payloads = [n \in Nodes |-> {}]

\* The pipe from a node ends when the node exits or its ssh process does; the
\* pipe to it when its ssh process or the orchestrator does.
OutputEnds(n) == proc[n] = "exited" \/ n \in terminated
InputEnds(n) == n \in terminated \/ step = "exited"

-----------------------------------------------------------------------------
(* The orchestrator *)

\* An exception leaves the try block for its finally clause.
Raise ==
    /\ step' = "finally" /\ todo' = <<>> /\ outcome' = "error"
    /\ UNCHANGED <<listed, staged>>

GoTo(s, nodes) == step' = s /\ todo' = nodes

\* stage_binary() copies to all remote hosts in parallel and records each one
\* as it completes.  The first failure raises, whatever else was copied.
StageBinary ==
    /\ step = "stage"
    /\ \E done \in SUBSET RemoteNodes :
          /\ staged' = done
          /\ IF done = RemoteNodes
             THEN GoTo("spawn_servers", ServerNodes) /\ UNCHANGED outcome
             ELSE GoTo("finally", <<>>) /\ outcome' = "error"
    /\ UNCHANGED <<listed, terminated, proc, stdin, stdout, payloads, error>>

\* One round of _spawn_node_group().  The list of processes is returned, and so
\* known to the finally clause, only when all were spawned.
SpawnNode ==
    /\ step \in {"spawn_servers", "spawn_clients"} /\ todo # <<>>
    /\ proc' = [proc EXCEPT ![Head(todo)] = "starting"]
    /\ todo' = Tail(todo)
    /\ UNCHANGED <<step, outcome, listed, staged, terminated, stdin, stdout,
                   payloads, error>>

\* resolve_bind_ip() or Popen() raises.
SpawnFails ==
    /\ step \in {"spawn_servers", "spawn_clients"} /\ todo # <<>>
    /\ Raise
    /\ UNCHANGED <<terminated, proc, stdin, stdout, payloads, error>>

GroupSpawned ==
    /\ todo = <<>>
    /\ \/ /\ step = "spawn_servers"
          /\ GoTo("wait_servers", ServerNodes)
          /\ listed' = ToSet(ServerNodes)
       \/ /\ step = "spawn_clients"
          /\ GoTo("wait_clients", ClientNodes)
          /\ listed' = Nodes
    /\ UNCHANGED <<outcome, staged, terminated, proc, stdin, stdout, payloads,
                   error>>

\* The event of each waiting loop, and the payload the loop then needs.
Awaited == [wait_servers |-> "ready", wait_clients |-> "ready",
            workload |-> "workload_done", collect |-> "node_done"]

\* A reader thread that finds the output ended early sets every event.
Signalled(n) == Awaited[step] \in payloads[n] \/ n \in error

\* One round of _wait_for_nodes_ready(), _wait_for_workload_done() or
\* _stop_and_collect_nodes(): the event is set, and error is looked at before
\* the payload.  The last loop also waits for the process to exit.
WaitForNode_lenient ==
    /\ step \in DOMAIN Awaited /\ todo # <<>>
    /\ Signalled(Head(todo))
    /\ todo' = Tail(todo)
    /\ UNCHANGED <<step, outcome, listed, staged, terminated, proc, stdin,
                   stdout, payloads, error>>
WaitForNode ==
    /\ step \in DOMAIN Awaited /\ todo # <<>>
    /\ Signalled(Head(todo))
    /\ IF Head(todo) \in error
       THEN Raise
       ELSE /\ step = "collect" => OutputEnds(Head(todo))
            /\ todo' = Tail(todo)
            /\ UNCHANGED <<step, outcome, listed, staged>>
    /\ UNCHANGED <<terminated, proc, stdin, stdout, payloads, error>>

\* The wait times out, for the event or, in the last loop, for the exit.  While
\* it waits for the workload the orchestrator also looks at the servers.
WaitFails ==
    /\ step \in DOMAIN Awaited /\ todo # <<>>
    /\ Raise
    /\ UNCHANGED <<terminated, proc, stdin, stdout, payloads, error>>

ServerFailed ==
    /\ step = "workload" /\ todo # <<>>
    /\ ToSet(ServerNodes) \cap error # {}
    /\ Raise
    /\ UNCHANGED <<terminated, proc, stdin, stdout, payloads, error>>

\* send_command() writes to the nodes whose process still runs.
Sent(nodes, cmd) ==
    [n \in Nodes |-> IF n \in nodes /\ ~OutputEnds(n)
                     THEN Append(stdin[n], cmd) ELSE stdin[n]]

ServersReady ==
    /\ step = "wait_servers" /\ todo = <<>>
    /\ GoTo("spawn_clients", ClientNodes)
    /\ UNCHANGED <<outcome, listed, staged, terminated, proc, stdin, stdout,
                   payloads, error>>

\* The START barrier: the servers first, then the clients.
BroadcastStart ==
    \/ /\ step = "wait_clients" /\ todo = <<>>
       /\ GoTo("start_clients", <<>>)
       /\ stdin' = Sent(ToSet(ServerNodes), "START")
       /\ UNCHANGED <<outcome, listed, staged, terminated, proc, stdout,
                      payloads, error>>
    \/ /\ step = "start_clients"
       /\ GoTo("workload", ClientNodes)
       /\ stdin' = Sent(ToSet(ClientNodes), "START")
       /\ UNCHANGED <<outcome, listed, staged, terminated, proc, stdout,
                      payloads, error>>

\* _stop_and_collect_nodes() begins with a broadcast to all.
BroadcastStop ==
    /\ step = "workload" /\ todo = <<>>
    /\ GoTo("collect", ClientNodes \o ServerNodes)
    /\ stdin' = Sent(Nodes, "STOP")
    /\ UNCHANGED <<outcome, listed, staged, terminated, proc, stdout, payloads,
                   error>>

\* The results are aggregated and written; collecting traces may raise.
Report ==
    /\ step = "collect" /\ todo = <<>>
    /\ GoTo("finally", <<>>)
    /\ outcome' \in {"ok", "error"}
    /\ UNCHANGED <<listed, staged, terminated, proc, stdin, stdout, payloads,
                   error>>

\* finally: terminate() every listed process that still runs.  A local node
\* dies, by SIGTERM or else by SIGKILL; a remote node only loses its ssh.
Terminate ==
    /\ step = "finally"
    /\ terminated' = terminated \cup {n \in listed : proc[n] # "exited"}
    /\ proc' = [n \in Nodes |-> IF n \in listed \ RemoteNodes THEN "exited"
                                ELSE proc[n]]
    /\ GoTo("cleanup", <<>>)
    /\ UNCHANGED <<outcome, listed, staged, stdin, stdout, payloads, error>>

\* executor.cleanup(): pkill on each staged host.  A command that cannot be run
\* or fails is passed over; one that times out raises, and the remaining hosts
\* are not visited.
Cleanup ==
    /\ step = "cleanup"
    /\ \E killed \in SUBSET staged, ends \in {"returns", "raises"} :
          /\ proc' = [n \in Nodes |->
                        IF n \in killed /\ proc[n] # "absent" THEN "exited"
                        ELSE proc[n]]
          /\ outcome' = IF ends = "raises" /\ staged # {} THEN "error"
                        ELSE outcome
    /\ GoTo("exited", <<>>)
    /\ UNCHANGED <<listed, staged, terminated, stdin, stdout, payloads, error>>

OrchestratorStep ==
    \/ StageBinary \/ SpawnNode \/ GroupSpawned \/ WaitForNode \/ ServersReady
    \/ BroadcastStart \/ BroadcastStop \/ Report \/ Terminate \/ Cleanup

\* What may always happen instead, and what nothing else depends on.
OrchestratorFails == SpawnFails \/ WaitFails \/ ServerFailed

-----------------------------------------------------------------------------
(* A node: ClusterNode::Run *)

Becomes(n, state, lines) ==
    /\ proc' = [proc EXCEPT ![n] = state]
    /\ stdout' = [stdout EXCEPT
                    ![n] = IF n \in terminated THEN @ ELSE @ \o lines]

\* The instances are created and NODE_READY is emitted.
EmitNodeReady(n) ==
    /\ proc[n] = "starting"
    /\ Becomes(n, "ready", <<"ready">>)
    /\ UNCHANGED <<orchestratorVars, terminated, stdin, payloads, error>>

\* WaitForCommand() skips lines until the expected one; at the end of the input
\* it returns false.
WaitForCommand(n, cmd) ==
    IF stdin[n] # <<>>
    THEN stdin' = [stdin EXCEPT ![n] = Tail(@)]
    ELSE InputEnds(n) /\ UNCHANGED stdin

GotCommand(n, cmd) == stdin[n] # <<>> /\ Head(stdin[n]) = cmd

WaitForStart(n) ==
    /\ proc[n] = "ready"
    /\ WaitForCommand(n, "START")
    /\ IF GotCommand(n, "START")
       THEN Becomes(n, IF n \in ToSet(ClientNodes) THEN "working"
                       ELSE "serving", <<>>)
       ELSE Becomes(n, IF stdin[n] = <<>> THEN "exited" ELSE "ready", <<>>)
    /\ UNCHANGED <<orchestratorVars, terminated, payloads, error>>

\* ExecuteOutboundStreams() returns and WORKLOAD_DONE is emitted.
EmitWorkloadDone(n) ==
    /\ proc[n] = "working"
    /\ Becomes(n, "serving", <<"workload_done">>)
    /\ UNCHANGED <<orchestratorVars, terminated, stdin, payloads, error>>

\* The result of waiting for STOP is ignored: the end of the input also ends
\* the node.
WaitForStop(n) ==
    /\ proc[n] = "serving"
    /\ WaitForCommand(n, "STOP")
    /\ Becomes(n, IF GotCommand(n, "STOP") \/ stdin[n] = <<>> THEN "ending"
                  ELSE "serving", <<>>)
    /\ UNCHANGED <<orchestratorVars, terminated, payloads, error>>

\* NODE_DONE is the last line of the node.
EmitNodeDone(n) ==
    /\ proc[n] = "ending"
    /\ Becomes(n, "exited", <<"node_done">>)
    /\ UNCHANGED <<orchestratorVars, terminated, stdin, payloads, error>>

\* The process dies, or cannot create its instances or write its traces.
NodeDies(n) ==
    /\ proc[n] \notin {"absent", "exited"} /\ step # "exited"
    /\ Becomes(n, "exited", <<>>)
    /\ UNCHANGED <<orchestratorVars, terminated, stdin, payloads, error>>

NodeStep(n) ==
    \/ EmitNodeReady(n) \/ WaitForStart(n) \/ EmitWorkloadDone(n)
    \/ WaitForStop(n) \/ EmitNodeDone(n)

\* One round of _read_stdout_loop().  At the end of the output a node that has
\* not reported both READY and NODE_DONE is an error.
ReadStdout(n) ==
    /\ proc[n] # "absent"
    /\ \/ /\ stdout[n] # <<>>
          /\ payloads' = [payloads EXCEPT ![n] = @ \cup {Head(stdout[n])}]
          /\ stdout' = [stdout EXCEPT ![n] = Tail(@)]
          /\ UNCHANGED error
       \/ /\ stdout[n] = <<>> /\ OutputEnds(n) /\ n \notin error
          /\ ~({"ready", "node_done"} \subseteq payloads[n])
          /\ error' = error \cup {n}
          /\ UNCHANGED <<payloads, stdout>>
    /\ UNCHANGED <<orchestratorVars, terminated, proc, stdin>>

SessionEnds ==
    /\ step = "exited"
    /\ \A n \in Nodes : proc[n] \in {"absent", "exited"}
    /\ UNCHANGED sessionVars

SessionNext ==
    \/ OrchestratorStep \/ OrchestratorFails \/ SessionEnds
    \/ \E n \in Nodes : NodeStep(n) \/ NodeDies(n) \/ ReadStdout(n)

-----------------------------------------------------------------------------
(* Properties *)

\* A session that succeeds has the results of every node: no process that died
\* before its last report is passed over, whichever thread noticed first.
SuccessIsComplete ==
    outcome = "ok" =>
        /\ error = {}
        /\ \A n \in Nodes : {"ready", "node_done"} \subseteq payloads[n]
        /\ \A c \in ToSet(ClientNodes) : "workload_done" \in payloads[c]

=============================================================================
