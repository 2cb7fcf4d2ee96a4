------------------------------ MODULE GraphWalk ------------------------------
(***************************************************************************)
(* One execution walks the graph of its workflow: the pointer runs along   *)
(* the sorted nodes, a node runs when an edge has made it reachable, an    *)
(* active back edge turns the pointer back.  A node that asks the user     *)
(* parks the walk: what it kept in memory is gone, the answer resumes it   *)
(* from the rows and the path log (case A).  A crash loses the same, and   *)
(* the re-drive starts again from those two (case B).  They are written    *)
(* one after the other, and a failed write of the log is only logged.      *)
(*                                                                         *)
(* owed is a history variable, the reference the walk is compared with:    *)
(* the nodes an edge has activated since they last ran, the entry nodes at *)
(* the start.  An output is the set of ports it opens.  The rows of the    *)
(* graph are taken to be the same, in the same order, for every segment.   *)
(* Left out: stop requests (ExecutionLifecycle), failures an error policy  *)
(* tolerates, containers, parallel branches, sub-workflows, single-node    *)
(* executions.                                                             *)
(***************************************************************************)
EXTENDS GraphLayout

CONSTANTS
  Nodes, Ports,
  NoNode,
  Workflows,          \* their graphs, with the layouts a load may compute
  MaxNodeIterations,
  LogMayFail,         \* whether a write of the path log can fail
  MaxParks,           \* how often a walk parks (a bound)
  MaxCrashes          \* crashes (a bound)

Edges == [source : Nodes, port : Ports, target : Nodes]
Layouts == [order : Seq(Nodes), back : Seq(Edges)]
Graphs == [edges : SUBSET Edges, triggers : SUBSET Nodes,
           disabled : SUBSET Nodes, layouts : SUBSET Layouts]

ASSUME WalkAssumption ==
  /\ NoNode \notin Nodes /\ Nodes \subseteq Nat /\ IsFiniteSet(Nodes)
  /\ Workflows \subseteq Graphs
  /\ \A w \in Workflows :
       IsFiniteSet(w.edges) /\ w.layouts = Loads(Nodes, w.edges)
  /\ MaxNodeIterations \in Nat /\ LogMayFail \in BOOLEAN
  /\ MaxParks \in Nat /\ MaxCrashes \in Nat

VARIABLES
  workflow, layout,
  status,     \* of the execution, and what its segment is about to do: "saved", a
              \* node has run and its path entry is due; "asking", a node is about
              \* to park; "turn", the waiting node handles the answer
  pointer, reachable, count, skipping,
  done,       \* the executed nodes, in memory as the four before are
  completed,  \* the nodes that have a completed row
  stored,     \* the output of the last one
  logged,     \* the nodes the path log has an entry for
  waiting,    \* the node whose row waits, or handles its answer
  parks, crashes,
  owed, looped, torn, forgot  \* history

graph == <<workflow, layout>>
memory == <<pointer, reachable, count, skipping, done>>
rows == <<completed, stored, logged, waiting>>
bounds == <<parks, crashes>>
history == <<owed, looped, torn, forgot>>
vars == <<graph, status, memory, rows, bounds, history>>

\* What a node may return; a port that no edge leaves is not told from a closed one.
Outputs(n) == SUBSET {e.port : e \in {f \in workflow.edges : f.source = n}}

Zero == [n \in Nodes |-> 0]
Back(l) == {l.back[i] : i \in DOMAIN l.back}
IndexOf(l, n) == CHOOSE i \in DOMAIN l.order : l.order[i] = n
Here == layout.order[pointer]
Enabled == Nodes \ workflow.disabled
After(l, n) == {l.order[i] : i \in IndexOf(l, n) + 1..Len(l.order)}

\* What rehydrateContext takes for executed: a completed row and a path entry.
Executed == completed \cap logged

seedInitialReachability(w, l) ==
  IF w.triggers # {} THEN w.triggers
  ELSE Nodes \ {e.target : e \in w.edges \ Back(l)}

\* propagateReachability: the targets of n's edges whose port an output opens.
Targets(n, output) ==
  {e.target : e \in {f \in workflow.edges : f.source = n /\ f.port \in output}}

\* The positions of the back edges of n that its output activates.
ActiveBack(n, output) ==
  {i \in DOMAIN layout.back : layout.back[i].source = n
                              /\ layout.back[i].port \in output}

\* findActivatedBackEdge: the first of them.
findActivatedBackEdge(n, output) ==
  layout.back[CHOOSE i \in ActiveBack(n, output) :
                \A j \in ActiveBack(n, output) : i <= j].target

-----------------------------------------------------------------------------
Init ==
  /\ workflow \in Workflows /\ layout \in workflow.layouts
  /\ status = "running"
  /\ pointer = 1 /\ count = Zero /\ skipping = FALSE /\ done = {}
  /\ reachable = seedInitialReachability(workflow, layout)
  /\ completed = {} /\ stored = [n \in Nodes |-> {}] /\ logged = {} /\ waiting = NoNode
  /\ parks = MaxParks /\ crashes = MaxCrashes
  /\ owed = reachable \cap Enabled
  /\ looped = FALSE /\ torn = FALSE /\ forgot = FALSE

\* A plausible slip: completed nodes run again in a re-drive.
AtAnyNode ==
  /\ status = "running" /\ pointer <= Len(layout.order)
  /\ Here \in reachable

\* The pointer is on a node that the loop does not pass over.
AtNode ==
  /\ status = "running" /\ pointer <= Len(layout.order)
  /\ Here \in reachable
  /\ ~(skipping /\ Here \in done)

PassOver ==
  /\ status = "running" /\ pointer <= Len(layout.order) /\ ~AtNode
  /\ pointer' = pointer + 1
  /\ UNCHANGED <<graph, status, reachable, count, skipping, done, rows, bounds, history>>

\* A plausible slip: only the node at the pointer keeps its count.
CountedAfresh == [Zero EXCEPT ![Here] = 1]

Counted == [count EXCEPT ![Here] = @ + 1]
\* A limit of 0 is none.
WithinLimit == MaxNodeIterations = 0 \/ count[Here] < MaxNodeIterations

ExceedLimit ==
  /\ AtNode /\ ~WithinLimit
  /\ status' = "failed" /\ count' = Counted
  /\ UNCHANGED <<graph, pointer, reachable, skipping, done, rows, bounds, history>>

handleDisabledNode ==
  /\ AtNode /\ WithinLimit /\ Here \in workflow.disabled
  /\ count' = Counted /\ pointer' = pointer + 1 /\ done' = done \cup {Here}
  /\ UNCHANGED <<graph, status, reachable, skipping, rows, bounds, history>>

Runs == AtNode /\ WithinLimit /\ Here \notin workflow.disabled

\* A plausible slip: the turn back leaves the node that turned reachable.
MoveOnShort(n, at, output) ==
  LET reached == reachable \cup Targets(n, output)
  IN IF ActiveBack(n, output) = {}
     THEN pointer' = at + 1 /\ reachable' = reached
     ELSE LET target == findActivatedBackEdge(n, output)
              first == IndexOf(layout, target)
          IN /\ pointer' = first
             /\ reachable' = (reached \ {layout.order[i] : i \in first..at - 1})
                               \cup {target}

\* After a node: reachability spreads, the first active back edge turns back.
MoveOn(n, at, output) ==
  LET reached == reachable \cup Targets(n, output)
  IN IF ActiveBack(n, output) = {}
     THEN pointer' = at + 1 /\ reachable' = reached
     ELSE LET target == findActivatedBackEdge(n, output)
              first == IndexOf(layout, target)
          IN /\ pointer' = first
             /\ reachable' = (reached \ {layout.order[i] : i \in first..at})
                               \cup {target}

\* What the walk does not follow as it should: a second active back edge, and
\* any back edge of a re-drive, which passes over the nodes it has completed.
Misses(n, output) ==
  \/ Cardinality(ActiveBack(n, output)) > 1
  \/ skipping /\ ActiveBack(n, output) # {}

\* The row of n is saved as completed.
Completes(n, output) ==
  /\ completed' = completed \cup {n} /\ stored' = [stored EXCEPT ![n] = output]
  /\ done' = done \cup {n}
  /\ owed' = (owed \ {n}) \cup (Targets(n, output) \cap Enabled)
  /\ looped' = (looped \/ ActiveBack(n, output) # {})
  /\ torn' = (torn \/ Misses(n, output))

\* The path entry of n is written, unless the write fails.
Logs(n) == logged' = logged \cup {n} \/ (LogMayFail /\ UNCHANGED logged)

\* A node runs through.  Its row is saved; its path entry is the next step.
executeNode ==
  /\ Runs /\ count' = Counted
  /\ \E output \in Outputs(Here) : Completes(Here, output)
  /\ status' = "saved"
  /\ UNCHANGED <<graph, pointer, reachable, skipping, logged, waiting, bounds, forgot>>

appendExecutionPath ==
  /\ status = "saved" /\ status' = "running"
  /\ Logs(Here) /\ MoveOn(Here, pointer, stored[Here])
  /\ UNCHANGED <<graph, count, skipping, done, completed, stored, waiting,
                 bounds, history>>

\* The node fails and its policy stops the execution.
NodeFails ==
  /\ Runs
  /\ status' = "failed" /\ count' = Counted
  /\ UNCHANGED <<graph, pointer, reachable, skipping, done, rows, bounds, history>>

\* A node that asks the user has its path entry before it is answered.
NodeAsks ==
  /\ Runs /\ parks > 0
  /\ status' = "asking" /\ count' = Counted /\ done' = done \cup {Here}
  /\ Logs(Here)
  /\ UNCHANGED <<graph, pointer, reachable, skipping, completed, stored, waiting,
                 bounds, history>>

\* The end of a segment frees its memory.
Release ==
  /\ pointer' = 1 /\ reachable' = {} /\ count' = Zero /\ skipping' = FALSE
  /\ done' = {}

dispatchParkEntry ==
  /\ status = "asking" /\ status' = "waiting" /\ waiting' = Here
  /\ parks' = parks - 1
  /\ Release
  /\ UNCHANGED <<graph, completed, stored, logged, crashes, history>>

Complete ==
  /\ status = "running" /\ pointer > Len(layout.order)
  /\ status' = "completed"
  /\ UNCHANGED <<graph, memory, rows, bounds, history>>

\* The answer comes: context and graph are built again, the node's turn starts.
resumeFromCheckpoint ==
  /\ status = "waiting" /\ status' = "turn"
  /\ pointer' = IndexOf(layout, waiting) /\ done' = Executed
  /\ reachable' = seedInitialReachability(workflow, layout)
                    \cup Executed \cup {waiting}
  /\ torn' = (torn \/ owed # {waiting}
                   \/ completed \cap After(layout, waiting) # {})
  /\ UNCHANGED <<graph, count, skipping, rows, bounds, owed, looped, forgot>>

\* A turn of a conversation ends with the next question.
TurnParksAgain ==
  /\ status = "turn" /\ parks > 0 /\ parks' = parks - 1
  /\ status' = "waiting"
  /\ Release
  /\ UNCHANGED <<graph, rows, crashes, history>>

\* A plausible slip: the node still counts as waiting after its answer.
KeepsWaiting ==
  /\ status = "turn" /\ status' = "running"
  /\ \E output \in Outputs(waiting) :
       Completes(waiting, output) /\ MoveOn(waiting, pointer, output)
  /\ UNCHANGED <<graph, count, skipping, logged, waiting, bounds, forgot>>

driveResumeAwaited ==
  /\ status = "turn" /\ status' = "running"
  /\ \E output \in Outputs(waiting) :
       Completes(waiting, output) /\ MoveOn(waiting, pointer, output)
  /\ waiting' = NoNode
  /\ UNCHANGED <<graph, count, skipping, logged, bounds, forgot>>

TurnFails ==
  /\ status = "turn" /\ status' = "failed"
  /\ UNCHANGED <<graph, memory, rows, bounds, history>>

Crash ==
  /\ status \in {"running", "saved", "asking", "turn"}
  /\ crashes > 0 /\ crashes' = crashes - 1
  /\ status' = "crashed" /\ waiting' = NoNode
  /\ Release
  /\ UNCHANGED <<graph, completed, stored, logged, parks, history>>

\* Case B.  It forgets a completed row that has no path entry.
driveStuckRedrive ==
  /\ status = "crashed" /\ status' = "running"
  /\ reachable' = seedInitialReachability(workflow, layout) \cup Executed
                    \cup UNION {Targets(n, stored[n]) : n \in Executed}
  /\ skipping' = TRUE /\ done' = Executed
  /\ torn' = (torn \/ looped) /\ forgot' = (forgot \/ Executed # completed)
  /\ UNCHANGED <<graph, pointer, count, rows, bounds, owed, looped>>

\* The redeliveries are used up, or the context cannot be built again.
RedriveFails ==
  /\ status = "crashed" /\ status' = "failed"
  /\ UNCHANGED <<graph, memory, rows, bounds, history>>

Segment ==
  \/ PassOver \/ ExceedLimit \/ handleDisabledNode \/ NodeFails
  \/ executeNode \/ appendExecutionPath \/ NodeAsks \/ dispatchParkEntry
  \/ Complete
  \/ TurnParksAgain \/ driveResumeAwaited \/ TurnFails

Recovery == driveStuckRedrive \/ RedriveFails

Next == Segment \/ Recovery \/ resumeFromCheckpoint \/ Crash

Spec == Init /\ [][Next]_vars

\* The walk is still in the hands of its run job: it has not parked.
Unparked == parks = MaxParks

\* A worker that does not crash goes on with its segment, and a crash of the
\* first segment is noticed, since the queue delivers the run job again.  Nobody
\* has to answer a question, and nothing follows up the crash of a segment that
\* an answer resumed: its job, delivered again, is discarded
\* (continuation-execution.processor.ts), and only a boot looks for such a row.
FairSpec == Spec /\ WF_vars(Segment) /\ WF_vars(Unparked /\ Recovery)

-----------------------------------------------------------------------------
TypeOK ==
  /\ workflow \in Graphs /\ layout \in workflow.layouts
  /\ status \in {"running", "saved", "asking", "waiting", "turn", "crashed",
                 "completed", "failed"}
  /\ pointer \in Nat \ {0} /\ reachable \subseteq Nodes
  /\ count \in [Nodes -> Nat] /\ skipping \in BOOLEAN
  /\ done \subseteq Nodes
  /\ completed \subseteq Nodes /\ stored \in [Nodes -> SUBSET Ports]
  /\ logged \subseteq Nodes
  /\ waiting \in Nodes \cup {NoNode} /\ parks \in Nat /\ crashes \in Nat
  /\ owed \subseteq Nodes
  /\ looped \in BOOLEAN /\ torn \in BOOLEAN /\ forgot \in BOOLEAN
  /\ waiting # NoNode => status \in {"waiting", "turn", "failed"}

\* Every node has one place; an edge goes forward, unless it is a back edge.
LayoutRight(w, l) ==
  /\ \A n \in Nodes : \E i \in DOMAIN l.order : l.order[i] = n
  /\ \A i, j \in DOMAIN l.order : l.order[i] = l.order[j] => i = j
  /\ Back(l) \subseteq w.edges
  /\ \A e \in w.edges :
       IF e \in Back(l) THEN IndexOf(l, e.target) <= IndexOf(l, e.source)
       ELSE IndexOf(l, e.source) < IndexOf(l, e.target)

\* The nodes the edges E lead to from n: what every set has that has n and that
\* no edge leaves.
ReachedBy(E, n) ==
  {m \in Nodes : \A C \in SUBSET Nodes : n \in C /\ Closed(E, C) => m \in C}

\* The layout of a load: topological once the back edges are taken away, each
\* of which closes a cycle, and for a graph without cycles always the same one,
\* whatever order its rows came in (identifyBackEdges, topologicalSort): every
\* segment of a walk loads and lays out the graph anew.
LayoutSound ==
  /\ LayoutRight(workflow, layout)
  /\ \A e \in Back(layout) : e.source \in ReachedBy(workflow.edges, e.target)
  /\ layout.back = <<>> => Cardinality(workflow.layouts) = 1

\* The nodes the walk still runs, if nothing more becomes reachable.
Due ==
  {n \in reachable \cap Enabled :
     /\ \E i \in DOMAIN layout.order : i >= pointer /\ layout.order[i] = n
     /\ ~(skipping /\ n \in done)}

\* A walk runs exactly the nodes that were activated and have not run since,
\* through loops, parks, crashes and re-drives.  Exempt is a walk that is torn:
\* resumed beside another owed node or before a node it already ran, re-driven
\* around a loop, or sent back by two back edges at once; and one whose re-drive
\* forgot a completed row, for a crash or a failed write kept it from the path log
\* (runNodeDispatchLoop, resumeFromCheckpoint, driveStuckRedrive).
RunsWhatIsOwed == status = "running" /\ ~torn /\ ~forgot => Due = owed

\* A walk that has not looped loses no node that an edge has activated; after
\* an answer in particular it goes on as usual (resumeFromCheckpoint).
ResumeGoesOn == status = "running" /\ ~looped => owed \subseteq Due

\* As long as a walk is neither torn nor sent back, a node whose completion is on
\* record, in its row and in the path log, never runs again, whatever parks and
\* crashes come between and whatever a re-drive forgot of other nodes
\* (skipExecutedNodes, the pointer a resume starts from).  A node with the row
\* alone does run again: finding_rerun.
RunsOnce ==
  [][~looped /\ ~torn /\ status = "running"
       /\ status' \in {"saved", "asking", "failed"} => Here \notin Executed]_vars

\* Every segment ends: the walk completes, fails or parks, also around a loop
\* nothing leaves (MAX_NODE_ITERATIONS).  A crash of the first segment is followed
\* up; one of a resumed segment may leave the walk as it is.
SegmentEnds ==
  status \in {"running", "saved", "asking", "turn"} \/ (status = "crashed" /\ Unparked)
    ~> \/ status \in {"completed", "failed", "waiting"}
       \/ status = "crashed" /\ ~Unparked
=============================================================================
