---------------------------- MODULE MCGraphWalk ------------------------------
(***************************************************************************)
(* Every workflow of three nodes with at most three edges, out of two      *)
(* ports, in which the first node leads to the others; it has no trigger,  *)
(* or its first node is one and its second node is disabled.  The second   *)
(* port of a node is used after the first, the ports being alike.  A load  *)
(* sees the rows in any order.                                             *)
(***************************************************************************)
EXTENDS GraphWalk, TLC

MCNodes == 1..3
MCPorts == 1..2
MCEdges == {e \in [source : MCNodes, port : MCPorts, target : MCNodes] :
              e.source # e.target}
EdgeSets == {E \in UNION {kSubset(k, MCEdges) : k \in 2..3} :
  /\ ReachedBy(E, 1) = MCNodes
  /\ \A e \in E : \E f \in E : f.source = e.source /\ f.port = 1}

Workflow(E, T, D) ==
  [edges |-> E, triggers |-> T, disabled |-> D, layouts |-> Loads(MCNodes, E)]
MCWorkflows ==
  {Workflow(E, {}, D) : E \in EdgeSets, D \in {{}, {2}}}
    \cup {Workflow(E, {1}, {2}) : E \in EdgeSets}
=============================================================================
