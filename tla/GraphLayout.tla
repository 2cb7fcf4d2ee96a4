----------------------------- MODULE GraphLayout -----------------------------
(***************************************************************************)
(* How the engine lays a workflow graph out: a depth-first search takes    *)
(* the back edges away, Kahn's algorithm orders the nodes of what remains. *)
(* The rows of nodes and edges come as sequences, in the order the         *)
(* database happens to answer; node ids are numbers, ordered as the code   *)
(* orders them.  A loop of the code is a function of the number of its     *)
(* rounds, one that has ended repeats its state; the rounds are taken      *)
(* often enough for every loop to end (GraphWalk_proof).                   *)
(***************************************************************************)
EXTENDS Integers, Sequences, FiniteSets, FiniteSetsExt, Functions

-----------------------------------------------------------------------------
(***************************************************************************)
(* The search: path is its stack (gray nodes), left holds the nodes it is  *)
(* done with (black ones), followed the edges it has taken.                *)
(***************************************************************************)
StartSearch == [path |-> <<>>, left |-> {}, followed |-> {}, back |-> {}]

Met(s) == s.left \cup Range(s.path)
Top(s) == s.path[Len(s.path)]

\* The rows of edges out of the top node that are not followed yet.
Open(rows, s) ==
  {i \in DOMAIN rows : rows[i].source = Top(s) /\ rows[i] \notin s.followed}
Unmet(nodes, s) == {i \in DOMAIN nodes : nodes[i] \notin Met(s)}

\* A plausible slip: every edge into a node met before counts as a back edge.
FollowTwoColours(s, e) ==
  [path |-> IF e.target \in Met(s) THEN s.path ELSE Append(s.path, e.target),
   left |-> s.left, followed |-> s.followed \cup {e},
   back |-> s.back \cup (IF e.target \in Met(s) THEN {e} ELSE {})]

Follow(s, e) ==
  [path |-> IF e.target \in Met(s) THEN s.path ELSE Append(s.path, e.target),
   left |-> s.left, followed |-> s.followed \cup {e},
   back |-> s.back \cup (IF e.target \in Range(s.path) THEN {e} ELSE {})]

Leave(s) ==
  [s EXCEPT !.path = SubSeq(s.path, 1, Len(s.path) - 1),
            !.left = s.left \cup {Top(s)}]

\* One round: down an edge or up again, from the next node when the stack is empty.
SearchOn(nodes, rows, s) ==
  IF s.path # <<>>
  THEN IF Open(rows, s) = {} THEN Leave(s)
       ELSE Follow(s, rows[Min(Open(rows, s))])
  ELSE IF Unmet(nodes, s) = {} THEN s
       ELSE [s EXCEPT !.path = <<nodes[Min(Unmet(nodes, s))]>>]

\* Every node is entered and left once, every edge followed once.
identifyBackEdges(nodes, rows) ==
  LET search[k \in Nat] ==
        IF k = 0 THEN StartSearch ELSE SearchOn(nodes, rows, search[k - 1])
  IN search[2 * Len(nodes) + Len(rows)].back

-----------------------------------------------------------------------------
(***************************************************************************)
(* The sort: the queue holds batches, sets of nodes that became ready in   *)
(* the same round and leave it in the order of their ids.                  *)
(***************************************************************************)
\* Every source of an edge into n is in done: its in-degree has come to zero.
Ready(edges, n, done) == \A e \in edges : e.target = n => e.source \in done

Batch(S) == IF S = {} THEN <<>> ELSE <<S>>

StartSort(nodes, edges) ==
  [queue |-> Batch({n \in nodes : Ready(edges, n, {})}), order |-> <<>>]

SortOn(edges, s) ==
  IF s.queue = <<>> THEN s
  ELSE LET n == Min(Head(s.queue))
           now == Append(s.order, n)
           ready == {e.target : e \in {f \in edges :
                       f.source = n /\ Ready(edges, f.target, Range(now))}}
       IN [queue |-> Batch(Head(s.queue) \ {n}) \o Tail(s.queue) \o Batch(ready),
           order |-> now]

\* Every round orders a node.  The code throws when nodes are left over.
topologicalSort(nodes, edges) ==
  LET sort[k \in Nat] ==
        IF k = 0 THEN StartSort(nodes, edges) ELSE SortOn(edges, sort[k - 1])
  IN sort[Cardinality(nodes)].order

-----------------------------------------------------------------------------
\* The loop that keeps the back edges, in the order of the rows.
Kept(rows, back) ==
  LET kept[k \in Nat] ==
        IF k = 0 THEN <<>>
        ELSE IF rows[k] \in back THEN Append(kept[k - 1], rows[k])
        ELSE kept[k - 1]
  IN kept[Len(rows)]

\* loadAndBuildGraph: the order of the nodes and the back edges, as they are stored.
loadAndBuildGraph(nodes, rows) ==
  LET back == identifyBackEdges(nodes, rows)
  IN [order |-> topologicalSort(Range(nodes), Range(rows) \ back),
      back |-> Kept(rows, back)]

\* The queries name no order: the rows may come in any.
Orders(S) == Bijection(1..Cardinality(S), S)
Loads(nodes, edges) ==
  {loadAndBuildGraph(ns, rs) : ns \in Orders(nodes), rs \in Orders(edges)}

\* No edge leads out of C.
Closed(edges, C) == \A e \in edges : e.source \in C => e.target \in C
=============================================================================
