------------------------------ MODULE MCCluster -----------------------------
(***************************************************************************)
(* The cluster test harness: an orchestrator with its nodes, the process of *)
(* one node, and the pool of Transport instances of a process.  `focus`     *)
(* says which of them runs in a behaviour.                                  *)
(***************************************************************************)
EXTENDS ClusterSession, ClusterNode, InstancePool

CONSTANTS s1, c1, c2
OneServer == <<s1>>
TwoClients == <<c1, c2>>

VARIABLE focus
mcVars == <<focus, sessionVars, nodeVars, instanceVars>>

Init == focus \in {"session", "node", "instances"} /\ SessionInit /\ NodeInit /\ InstancesInit
        /\ (focus # "instances" => busy = {})

InSession == focus = "session" /\ UNCHANGED <<focus, nodeVars, instanceVars>>
InNode == focus = "node" /\ UNCHANGED <<focus, sessionVars, instanceVars>>
InInstances == focus = "instances" /\ UNCHANGED <<focus, sessionVars, nodeVars>>

Next ==
    \/ InSession /\ SessionNext
    \/ InNode /\ NodeNext
    \/ InInstances /\ InstancesNext

Spec == Init /\ [][Next]_mcVars
=============================================================================
