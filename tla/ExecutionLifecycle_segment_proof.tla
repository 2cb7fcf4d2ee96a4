------------------- MODULE ExecutionLifecycle_segment_proof -------------------
(***************************************************************************)
(* One segment at a time, rows that move on, one announced end: what       *)
(* ExecutionLifecycle promises of an execution whose workers do not die    *)
(* and whose start does not grow stale (CrashFree), and what of it is left *)
(* when workers die, but the run job alone starts segments (Unanswered).   *)
(* Stops, lost jobs and failing handlers are as many as they like.         *)
(***************************************************************************)
EXTENDS ExecutionLifecycle_proof

\* No worker dies and the recovery scan never finds a running execution old: each
\* of the two can give an execution a second driver.
CrashFree == Budget["crash"] = 0 /\ Budget["age"] = 0

Early == {"read", "timeout", "admit"}
Redriving == {"redrive", "orphans", "rehydrate", "reclaim"}

InSegment(w) == pc[w] \in Driving \cup Closing
RunQueued(j) == jobs[j].kind = "run" /\ jobs[j].state = "waiting"

\* The run job has not led to an admission yet.
Unstarted == (\E w \in Workers : pc[w] \in Early) \/ \E j \in JobIds : RunQueued(j)

Calm ==
  /\ budget["crash"] = 0 /\ budget["age"] = 0 /\ started = "fresh"
  /\ budget["stop"] <= Budget["stop"]
  /\ \A j \in JobIds : jobs[j].state # "dead"
  /\ \A w \in Workers : pc[w] \notin Redriving

\* One run job, in the queue or with a worker, until admission ...
StartOnce ==
  /\ \A v, w \in Workers : pc[v] \in Early /\ pc[w] \in Early => v = w
  /\ \A i, j \in JobIds : RunQueued(i) /\ RunQueued(j) => i = j
  /\ \A w \in Workers, j \in JobIds : ~(pc[w] \in Early /\ RunQueued(j))
  /\ Unstarted => exec \in {"pending", "cancelled"} /\ \A w \in Workers : ~InSegment(w)

\* ... and one segment from then on, during which the execution runs or has ended.
Alone == \A v, w \in Workers : InSegment(v) /\ InSegment(w) => v = w
SegmentRuns ==
  \A w \in Workers :
    /\ Drives(w) => exec \in Terminal \cup {"running"}
    /\ pc[w] \in Closing => exec \in Terminal

Segments == Calm /\ StartOnce /\ Alone /\ SegmentRuns /\ WaitingPaired

\* The chain is walked forward, a row for each node: none of them lies before the
\* pointer of the segment, and the one of its node is in its hands.
UniqueNode == \A q, r \in Rows : rowNode[q] = rowNode[r] /\ rowNode[q] # 0 => q = r
Foremost(r) == r \in Rows /\ \A q \in Rows : rowNode[q] <= rowNode[r]

AtNode == {"handler", "append", "appendPark", "park", "turn", "aiTurn"}
Front(w) ==
  /\ pc[w] \in {"boundary", "create"} => \A r \in Rows : rowNode[r] < loc[w].ptr
  /\ pc[w] \in AtNode \cup {"load"} => Foremost(loc[w].row)
  /\ pc[w] \in AtNode => rowNode[loc[w].row] = loc[w].ptr
  /\ pc[w] \in (AtNode \ {"append"}) \cup {"load", "markNode"} =>
       rowStatus[loc[w].row] = "running"

Chain ==
  /\ UniqueNode
  /\ exec = "pending" => \A r \in Rows : rowNode[r] = 0
  /\ \A r \in Rows : WaitingRow(r) => Foremost(r)
  /\ \A w \in Workers : Front(w)

\* One worker announces, once, and nobody drives by then.
Told ==
  /\ \A v, w \in Workers : pc[v] \in Announcing /\ pc[w] \in Announcing => v = w
  /\ (\E w \in Workers : pc[w] \in Announcing) => announced = <<>>
  /\ announced # <<>> \/ (\E w \in Workers : pc[w] \in Announcing) =>
       exec \in Terminal /\ \A v \in Workers : ~Drives(v)
  /\ AnnouncedOnce

\* A row left running is in the hands of the worker that will close it.
Holding ==
  {"handler", "appendPark", "park", "load", "turn", "aiTurn", "markNode",
   "unresumable", "announceUnresumable", "failNode"}
Held(r) == \E w \in Workers : pc[w] \in Holding /\ loc[w].row = r

Tidy ==
  Unstopped =>
    /\ stopper = "idle"
    /\ exec \in Terminal => announced # <<>> \/ \E w \in Workers : pc[w] \in Announcing
    /\ \A r \in Rows : rowStatus[r] = "running" => Held(r)
-------------------------------------------------------------------------------
LEMMA InitSegments == CrashFree /\ Init => Segments
<1>. SUFFICES ASSUME CrashFree, Init PROVE Segments
  OBVIOUS
<1>. USE DEF Init
<1>1. Calm
  BY BudgetAssumption DEF Calm, CrashFree, Redriving, Queued, Free, EnvEvents
<1>2. StartOnce
  BY DEF StartOnce, Unstarted, RunQueued, Early, InSegment, Driving, Closing, Queued, Free
<1>3. Alone /\ SegmentRuns
  BY DEF Alone, SegmentRuns, InSegment, Drives, Driving, Closing
<1>4. WaitingPaired
  BY DEF WaitingPaired, WaitingRow
<1>. QED
  BY <1>1, <1>2, <1>3, <1>4 DEF Segments

LEMMA StepSegments == Typed /\ Segments /\ [Next]_vars => Segments'
<1> SUFFICES ASSUME Typed, Segments, [Next]_vars PROVE Segments'
  OBVIOUS
<1> USE TerminalStatuses DEF Segments, Calm, StartOnce, Unstarted, RunQueued, Early,
      Redriving, Closing, InSegment, Drives, Driving, Alone, SegmentRuns, WaitingPaired,
      WaitingRow
<1>0. /\ pc \in [Workers -> Label] /\ loc \in [Workers -> Local] /\ jobs \in [JobIds -> Job]
      /\ rowStatus \in [Rows -> NodeStatus] /\ budget \in [EnvEvents -> Nat] /\ exec \in Status
      /\ Budget \in [EnvEvents -> Nat]
  BY BudgetAssumption DEF Typed, TypeOK
<1>1. CASE Submit
  BY <1>0, <1>1 DEF Submit, Spend, Enqueue, Queued, db, EnvEvents
<1>2. CASE StopRead
  BY <1>0, <1>2 DEF StopRead, Spend, db, EnvEvents
<1>3. CASE StopActive
  <2>1. WaitingPaired'
    BY <1>0, <1>3 DEF StopActive, rows
  <2>0. jobs' = jobs /\ pc' = pc /\ (exec' = exec \/ exec' = "cancelled")
    BY <1>3 DEF StopActive
  <2>2. StartOnce' /\ Alone' /\ SegmentRuns'
    BY <2>0 DEF Terminal
  <2>3. Calm'
    BY <1>0, <1>3 DEF StopActive, clock
  <2>. QED
    BY <2>1, <2>2, <2>3
<1>4. CASE StopWaiting
  BY <1>0, <1>4 DEF StopWaiting, Enqueue, db, Queued
<1>5. CASE QueueWaitPasses
  BY <1>0, <1>5 DEF QueueWaitPasses, rows, env
<1>6. CASE StartedAges
  BY <1>0, <1>6 DEF StartedAges, Spend
<1>7. CASE LoseJob
  BY <1>0, <1>7 DEF LoseJob, Spend, Free, db, EnvEvents
<1>8. ASSUME NEW w \in Workers, NEW j \in JobIds, PickJob(w, j) PROVE Segments'
  BY <1>0, <1>8 DEF PickJob, Goto, db, env, Fresh
<1>9. ASSUME NEW w \in Workers, NEW j \in JobIds, StalledExhausted(w, j) PROVE Segments'
  BY <1>9 DEF StalledExhausted
<1>10. ASSUME NEW w \in Workers, ReadExecution(w) PROVE Segments'
  BY <1>0, <1>10 DEF ReadExecution, Goto, db, env
<1>11. ASSUME NEW w \in Workers, QueueWaitTimeout(w) PROVE Segments'
  BY <1>0, <1>11 DEF QueueWaitTimeout, GuardedStatus, Say, rows, clock, env, Goto
<1>12. ASSUME NEW w \in Workers, Admit(w) PROVE Segments'
  BY <1>0, <1>12 DEF Admit, Goto, rows, env
<1>13. ASSUME NEW w \in Workers, Defer(w) PROVE Segments'
  BY <1>0, <1>13 DEF Defer, Goto, Enqueue, db, env, Queued
<1>14. ASSUME NEW w \in Workers, Redrive(w) PROVE Segments'
  BY <1>14 DEF Redrive
<1>15. ASSUME NEW w \in Workers, FailOrphans(w) PROVE Segments'
  BY <1>15 DEF FailOrphans
<1>16. ASSUME NEW w \in Workers, Rehydrate(w) PROVE Segments'
  BY <1>16 DEF Rehydrate
<1>17. ASSUME NEW w \in Workers, RehydrationFails(w) PROVE Segments'
  BY <1>0, <1>17 DEF RehydrationFails, Goto, db, env
<1>18. ASSUME NEW w \in Workers, LimitExceeded(w) PROVE Segments'
  BY <1>0, <1>18 DEF LimitExceeded, Goto, db, env
<1>19. ASSUME NEW w \in Workers, Boundary(w) PROVE Segments'
  BY <1>0, <1>19 DEF Boundary, Goto, Advance, db, env
<1>20. ASSUME NEW w \in Workers, Complete(w) PROVE Segments'
  BY <1>0, <1>20 DEF Complete, GuardedStatus, Say, rows, clock, env, NonTerminal,
       Goto, nonTerminalStatuses
<1>21. ASSUME NEW w \in Workers, FinalizeFailed(w) PROVE Segments'
  BY <1>0, <1>21 DEF FinalizeFailed, GuardedStatus, Say, rows, clock, env,
       NonTerminal, Goto, nonTerminalStatuses
<1>22. ASSUME NEW w \in Workers, FinalizeCancelled(w) PROVE Segments'
  BY <1>0, <1>22 DEF FinalizeCancelled, GuardedStatus, Say, rows, clock, env,
       NonTerminal, Goto, nonTerminalStatuses
<1>23. ASSUME NEW w \in Workers, CreateRow(w) PROVE Segments'
  BY <1>0, <1>23 DEF CreateRow, Goto, SetRow, clock, env
<1>24. ASSUME NEW w \in Workers, HandlerCompletes(w) PROVE Segments'
  BY <1>0, <1>24 DEF HandlerCompletes, Goto, SaveRow, SetRow, clock, env
<1>25. ASSUME NEW w \in Workers, HandlerBlocks(w) PROVE Segments'
  BY <1>0, <1>25 DEF HandlerBlocks, Goto, SaveRow, SetRow, clock, env
<1>26. ASSUME NEW w \in Workers, HandlerFails(w) PROVE Segments'
  BY <1>0, <1>26 DEF HandlerFails, Goto, SaveRow, Advance, SetRow, clock, env
<1>27. ASSUME NEW w \in Workers, AppendPath(w) PROVE Segments'
  BY <1>0, <1>27 DEF AppendPath, Goto, Advance, rows, clock, env
<1>28. ASSUME NEW w \in Workers, Park(w) PROVE Segments'
  BY <1>0, <1>28 DEF Park, WaitTogether, Refused, IsLatest, clock, env, NonTerminal,
       Goto, SetRow, nonTerminalStatuses
<1>29. ASSUME NEW w \in Workers, MarkNodeCancelled(w) PROVE Segments'
  BY <1>0, <1>29 DEF MarkNodeCancelled, Goto, SetRow, clock, env
<1>30. ASSUME NEW w \in Workers, Claim(w) PROVE Segments'
  <2>0. loc[w].row \in Rows
    BY <1>30 DEF Claim, Typed, Placed, PlacedAt, OnRow, Addressed
  <2>1. CASE rowStatus[loc[w].row] = "waiting_for_input" /\ exec = "waiting_for_input"
    <3>1. \A v \in Workers : ~InSegment(v)
      BY <2>1 DEF Status
    <3>2. \A r \in Rows : ~WaitingRow(r)'
      BY <1>0, <1>30, <2>0, <2>1 DEF Claim, SetRow
    <3>3. exec' = "running" /\ \A v \in Workers \ {w} : pc'[v] = pc[v]
      BY <1>0, <1>30, <2>1 DEF Claim, Goto
    <3>4. pc'[w] = "load" /\ jobs' = jobs
      BY <1>0, <1>30, <2>1 DEF Claim, Goto
    <3>5. Alone' /\ SegmentRuns' /\ WaitingPaired'
      BY <3>1, <3>2, <3>3, <3>4
    <3>6. StartOnce'
      BY <2>1, <3>3, <3>4
    <3>7. Calm'
      BY <1>0, <1>30, <3>3, <3>4 DEF Claim, clock, env
    <3>. QED
      BY <3>5, <3>6, <3>7
  <2>2. CASE ~(rowStatus[loc[w].row] = "waiting_for_input" /\ exec = "waiting_for_input")
    <3>1. exec' = exec /\ rowStatus' = rowStatus /\ Goto(w, "ack")
      BY <1>30, <2>0, <2>2 DEF Claim
    <3>. QED
      BY <1>0, <1>30, <3>1 DEF Claim, Goto, clock, env
  <2>. QED
    BY <2>1, <2>2
<1>31. ASSUME NEW w \in Workers, LoadResume(w) PROVE Segments'
  BY <1>0, <1>31 DEF LoadResume, Goto, db, env
<1>32. ASSUME NEW w \in Workers, ReclaimRunning(w) PROVE Segments'
  BY <1>32 DEF ReclaimRunning
<1>33. ASSUME NEW w \in Workers, FormTurn(w) PROVE Segments'
  BY <1>0, <1>33 DEF FormTurn, Goto, SetRow, Advance, IsLatest, clock, env
<1>34. ASSUME NEW w \in Workers, AiTurnStarts(w) PROVE Segments'
  BY <1>0, <1>34 DEF AiTurnStarts, Goto, db, env, KindOf
<1>35. ASSUME NEW w \in Workers, AiTurnEnds(w) PROVE Segments'
  <2>0. loc[w].row \in Rows /\ InSegment(w) /\ exec \in Terminal \cup {"running"}
    BY <1>35 DEF AiTurnEnds, Typed, Placed, PlacedAt, OnRow, Addressed
  <2>1. Calm' /\ Alone' /\ StartOnce'
    BY <1>0, <1>35, <2>0 DEF AiTurnEnds, WaitTogether, Refused, Goto, clock, env
  <2>2. SegmentRuns'
    BY <1>0, <1>35, <2>0 DEF AiTurnEnds, WaitTogether, Refused, Goto
  <2>3. \A r \in Rows : rowStatus[r] # "waiting_for_input"
    BY <2>0
  <2>4. WaitingPaired'
    BY <1>0, <1>35, <2>0, <2>3 DEF AiTurnEnds, WaitTogether, Refused, SetRow
  <2>. QED
    BY <2>1, <2>2, <2>4
<1>36. ASSUME NEW w \in Workers, MarkExecutionCancelled(w) PROVE Segments'
  <2>0. exec \in Terminal \cup {"running"} /\ InSegment(w)
    BY <1>36 DEF MarkExecutionCancelled
  <2>1. exec \in Terminal \cup {"running"} /\ InSegment(w) /\ exec' \in Terminal
    BY <2>0, <1>36 DEF MarkExecutionCancelled, GuardedStatus, Terminal
  <2>2. WaitingPaired'
    BY <1>0, <1>36, <2>1 DEF MarkExecutionCancelled, GuardedStatus, rows
  <2>3. pc'[w] \in Closing /\ \A v \in Workers \ {w} : pc'[v] = pc[v]
    BY <1>0, <1>36 DEF MarkExecutionCancelled, GuardedStatus, Goto
  <2>4. Alone' /\ SegmentRuns' /\ StartOnce'
    BY <1>36, <2>1, <2>3 DEF MarkExecutionCancelled
  <2>5. Calm'
    BY <1>0, <1>36, <2>3 DEF MarkExecutionCancelled, clock, env
  <2>. QED
    BY <2>2, <2>4, <2>5
<1>37. ASSUME NEW w \in Workers, MarkNodeFailed(w) PROVE Segments'
  BY <1>0, <1>37 DEF MarkNodeFailed, Goto, SetRow, clock, env
<1>38. ASSUME NEW w \in Workers, CancelParked(w) PROVE Segments'
  BY <1>0, <1>38 DEF CancelParked, GuardedStatus, Say, clock, env, Goto
<1>39. ASSUME NEW w \in Workers, Announce(w) PROVE Segments'
  BY <1>0, <1>39 DEF Announce, Goto, db, env
<1>40. ASSUME NEW w \in Workers, Ack(w) PROVE Segments'
  BY <1>0, <1>40 DEF Ack, Goto, Free, db, env, Blank, Fresh
<1>41. ASSUME NEW w \in Workers, RecoverStuckRunning(w) PROVE Segments'
  BY <1>41 DEF RecoverStuckRunning
<1>42. ASSUME NEW w \in Workers, RecoverOrphanPending(w) PROVE Segments'
  BY <1>0, <1>42 DEF RecoverOrphanPending, Goto, Say, rows, clock, env
<1>43. ASSUME NEW w \in Workers, Crash(w) PROVE Segments'
  <2>1. ~Spend("crash")
    BY DEF Spend
  <2>. QED
    BY <2>1, <1>43 DEF Crash
<1>44. CASE UNCHANGED vars
  BY <1>44 DEF vars, db, rows, clock, env
<1>. QED
  BY <1>1, <1>2, <1>3, <1>4, <1>5, <1>6, <1>7, <1>8, <1>9, <1>10, <1>11, <1>12, <1>13,
     <1>14, <1>15, <1>16, <1>17, <1>18, <1>19, <1>20, <1>21, <1>22, <1>23, <1>24,
     <1>25, <1>26, <1>27, <1>28, <1>29, <1>30, <1>31, <1>32, <1>33, <1>34, <1>35,
     <1>36, <1>37, <1>38, <1>39, <1>40, <1>41, <1>42, <1>43, <1>44
  DEF Next, Environment, Work, Recovery

\* Of the run job and the resume jobs, those of a double click included, one drives the
\* execution at a time: admission takes one run job, and the claim of a waiting row
\* finds nobody driving.
THEOREM OneSegmentAtATime ==
  ASSUME CrashFree PROVE Spec => []OneSegment
<1>1. Segments => OneSegment
  BY DEF Segments, Alone, InSegment, Drives, OneSegment
<1>2. Init => Segments
  BY InitSegments
<1>. QED
  BY <1>1, <1>2, InitTyped, StepTyped, StepSegments, PTL DEF Spec

\* The execution waits exactly while one row of it waits, so that an input always
\* finds the one row it is for: parks, claims and cancels write the two together.
THEOREM WaitingRowsPaired ==
  ASSUME CrashFree PROVE Spec => []WaitingPaired
<1>1. Segments => WaitingPaired
  BY DEF Segments
<1>2. Init => Segments
  BY InitSegments
<1>. QED
  BY <1>1, <1>2, InitTyped, StepTyped, StepSegments, PTL DEF Spec
-------------------------------------------------------------------------------
LEMMA InitChain == Init => Chain
  BY DEF Init, Chain, UniqueNode, Front, AtNode, WaitingRow

LEMMA StepChain == Typed /\ Segments /\ Chain /\ [Next]_vars => Chain'
<1> SUFFICES ASSUME Typed, Segments, Chain, [Next]_vars PROVE Chain'
  OBVIOUS
<1> USE DEF Chain, UniqueNode, Foremost, AtNode, Front, WaitingRow, Drives, Driving, OnRow,
      Addressed, Terminal, Local
<1>0. /\ pc \in [Workers -> Label] /\ loc \in [Workers -> Local]
      /\ rowNode \in [Rows -> Nodes \cup {0}] /\ rowStatus \in [Rows -> NodeStatus]
      /\ Nodes \subseteq Nat /\ \A w \in Workers : loc[w].ptr \in Nat
      /\ \A w \in Workers : Drives(w) => exec \in Terminal \cup {"running"}
      /\ exec \in {"running", "pending"} \cup Terminal => \A r \in Rows : ~WaitingRow(r)
      /\ \A v, w \in Workers : Drives(v) /\ Drives(w) => v = w
      /\ \A w \in Workers : pc[w] \in OnRow => Addressed(loc[w].row)
  BY ChainAssumption DEF Typed, TypeOK, Segments, Alone, SegmentRuns, InSegment,
       WaitingPaired, Placed, PlacedAt, Nodes
<1>1. CASE Submit
  BY <1>0, <1>1 DEF Submit, Enqueue, Spend, db, Queued
<1>2. CASE StopRead
  BY <1>0, <1>2 DEF StopRead, Spend, db
<1>3. CASE StopActive
  BY <1>0, <1>3 DEF StopActive, rows, clock
<1>4. CASE StopWaiting
  BY <1>0, <1>4 DEF StopWaiting, Enqueue, db, Queued
<1>5. CASE QueueWaitPasses
  BY <1>0, <1>5 DEF QueueWaitPasses, rows, env
<1>6. CASE StartedAges
  BY <1>0, <1>6 DEF StartedAges, Spend, rows
<1>7. CASE LoseJob
  BY <1>0, <1>7 DEF LoseJob, Free, Spend, db
<1>8. ASSUME NEW w \in Workers, NEW j \in JobIds, PickJob(w, j) PROVE Chain'
  BY <1>0, <1>8 DEF PickJob, Goto, db, env, Fresh
<1>9. ASSUME NEW w \in Workers, NEW j \in JobIds, StalledExhausted(w, j) PROVE Chain'
  BY <1>9 DEF StalledExhausted, Segments, Calm, Redriving
<1>10. ASSUME NEW w \in Workers, ReadExecution(w) PROVE Chain'
  BY <1>0, <1>10 DEF ReadExecution, Goto, db, env
<1>11. ASSUME NEW w \in Workers, QueueWaitTimeout(w) PROVE Chain'
  BY <1>0, <1>11 DEF QueueWaitTimeout, GuardedStatus, Say, rows, clock, env, Goto
<1>12. ASSUME NEW w \in Workers, Admit(w) PROVE Chain'
  BY <1>0, <1>12 DEF Admit, Goto, rows, env
<1>13. ASSUME NEW w \in Workers, Defer(w) PROVE Chain'
  BY <1>0, <1>13 DEF Defer, Goto, Enqueue, db, env, Queued
<1>14. ASSUME NEW w \in Workers, Redrive(w) PROVE Chain'
  BY <1>14 DEF Redrive, Segments, Calm, Redriving
<1>15. ASSUME NEW w \in Workers, FailOrphans(w) PROVE Chain'
  BY <1>15 DEF FailOrphans, Segments, Calm, Redriving
<1>16. ASSUME NEW w \in Workers, Rehydrate(w) PROVE Chain'
  BY <1>16 DEF Rehydrate, Segments, Calm, Redriving
<1>17. ASSUME NEW w \in Workers, RehydrationFails(w) PROVE Chain'
  BY <1>0, <1>17 DEF RehydrationFails, Goto, db, env
<1>18. ASSUME NEW w \in Workers, LimitExceeded(w) PROVE Chain'
  BY <1>0, <1>18 DEF LimitExceeded, Goto, db, env
<1>19. ASSUME NEW w \in Workers, Boundary(w) PROVE Chain'
  BY <1>0, <1>19 DEF Boundary, Goto, Advance, db, env
<1>20. ASSUME NEW w \in Workers, Complete(w) PROVE Chain'
  BY <1>0, <1>20 DEF Complete, GuardedStatus, Say, rows, clock, env, NonTerminal,
       Goto, nonTerminalStatuses
<1>21. ASSUME NEW w \in Workers, FinalizeFailed(w) PROVE Chain'
  BY <1>0, <1>21 DEF FinalizeFailed, GuardedStatus, Say, rows, clock, env,
       NonTerminal, Goto, nonTerminalStatuses
<1>22. ASSUME NEW w \in Workers, FinalizeCancelled(w) PROVE Chain'
  BY <1>0, <1>22 DEF FinalizeCancelled, GuardedStatus, Say, rows, clock, env,
       NonTerminal, Goto, nonTerminalStatuses
<1>23. ASSUME NEW w \in Workers, CreateRow(w) PROVE Chain'
  BY <1>0, <1>23 DEF CreateRow, Goto, SetRow, clock, env
<1>24. ASSUME NEW w \in Workers, HandlerCompletes(w) PROVE Chain'
  BY <1>0, <1>24 DEF HandlerCompletes, Goto, SaveRow, SetRow, clock, env
<1>25. ASSUME NEW w \in Workers, HandlerBlocks(w) PROVE Chain'
  BY <1>0, <1>25 DEF HandlerBlocks, Goto, SaveRow, SetRow, clock, env
<1>26. ASSUME NEW w \in Workers, HandlerFails(w) PROVE Chain'
  <2>0. loc[w].row \in Rows /\ pc[w] = "handler" /\ exec' = exec /\ rowNode' = rowNode
    BY <1>0, <1>26 DEF HandlerFails, SaveRow
  <2>1. PICK s \in {"failed", "skipped", "completed"} :
          rowStatus' = [rowStatus EXCEPT ![loc[w].row] = s]
    BY <1>26 DEF HandlerFails, SaveRow, SetRow
  <2>2. \/ Goto(w, "finalizeFailed") /\ loc' = loc
        \/ Goto(w, "boundary") /\ Advance(w)
    BY <1>26 DEF HandlerFails
  <2>3. \A v \in Workers \ {w} : pc'[v] = pc[v] /\ loc'[v] = loc[v]
    BY <1>0, <2>2 DEF Goto, Advance
  <2>4. \A v \in Workers \ {w} : Front(v)'
    BY <1>0, <2>0, <2>1, <2>3
  <2>5. Front(w)'
    <3>1. CASE Goto(w, "finalizeFailed")
      BY <1>0, <3>1 DEF Goto
    <3>2. CASE Goto(w, "boundary") /\ Advance(w)
      BY <1>0, <2>0, <3>2 DEF Goto, Advance
    <3>. QED
      BY <2>2, <3>1, <3>2
  <2>. QED
    BY <1>0, <2>0, <2>1, <2>4, <2>5
<1>27. ASSUME NEW w \in Workers, AppendPath(w) PROVE Chain'
  BY <1>0, <1>27 DEF AppendPath, Goto, Advance, rows, clock, env
<1>28. ASSUME NEW w \in Workers, Park(w) PROVE Chain'
  BY <1>0, <1>28 DEF Park, WaitTogether, Refused, IsLatest, clock, env, NonTerminal,
       Goto, SetRow, nonTerminalStatuses
<1>29. ASSUME NEW w \in Workers, MarkNodeCancelled(w) PROVE Chain'
  BY <1>0, <1>29 DEF MarkNodeCancelled, Goto, SetRow, clock, env
<1>30. ASSUME NEW w \in Workers, Claim(w) PROVE Chain'
  BY <1>0, <1>30 DEF Claim, Goto, SetRow, clock, env
<1>31. ASSUME NEW w \in Workers, LoadResume(w) PROVE Chain'
  BY <1>0, <1>31 DEF LoadResume, Goto, db, env
<1>32. ASSUME NEW w \in Workers, ReclaimRunning(w) PROVE Chain'
  BY <1>32 DEF ReclaimRunning, Segments, Calm, Redriving
<1>33. ASSUME NEW w \in Workers, FormTurn(w) PROVE Chain'
  BY <1>0, <1>33 DEF FormTurn, Goto, SetRow, Advance, IsLatest, clock, env
<1>34. ASSUME NEW w \in Workers, AiTurnStarts(w) PROVE Chain'
  BY <1>0, <1>34 DEF AiTurnStarts, Goto, db, env, KindOf
<1>35. ASSUME NEW w \in Workers, AiTurnEnds(w) PROVE Chain'
  <2>0. /\ loc[w].row \in Rows /\ pc[w] = "aiTurn" /\ rowNode' = rowNode
        /\ Foremost(loc[w].row) /\ rowNode[loc[w].row] = loc[w].ptr
    BY <1>0, <1>35 DEF AiTurnEnds
  <2>1. CASE NonTerminal /\ WaitTogether(w, loc[w].row)
    BY <1>0, <2>0, <2>1 DEF WaitTogether, SetRow, Goto
  <2>2. CASE /\ SetRow(loc[w].row, "completed") /\ Goto(w, "boundary")
             /\ Advance(w) /\ exec' = exec
    BY <1>0, <2>0, <2>2 DEF SetRow, Goto, Advance
  <2>3. CASE /\ SetRow(loc[w].row, "failed") /\ Goto(w, "finalizeFailed")
             /\ exec' = exec /\ loc' = loc
    BY <1>0, <2>0, <2>3 DEF SetRow, Goto
  <2>4. CASE Refused(w, loc[w].row)
    BY <1>0, <2>0, <2>4 DEF Refused, Goto
  <2>. QED
    BY <1>35, <2>1, <2>2, <2>3, <2>4 DEF AiTurnEnds
<1>36. ASSUME NEW w \in Workers, MarkExecutionCancelled(w) PROVE Chain'
  BY <1>0, <1>36 DEF MarkExecutionCancelled, GuardedStatus, Say, rows, clock, env,
       Goto
<1>37. ASSUME NEW w \in Workers, MarkNodeFailed(w) PROVE Chain'
  <2>1. InSegment(w) /\ \A v \in Workers : Drives(v) => InSegment(v) /\ v # w
    BY <1>37 DEF MarkNodeFailed, InSegment, Closing
  <2>2. \A v \in Workers : ~Drives(v)
    BY <2>1 DEF Segments, Alone
  <2>3. rowNode' = rowNode /\ exec' = exec /\ exec \in Terminal
    BY <1>37 DEF MarkNodeFailed, Segments, SegmentRuns, Closing
  <2>4. \A v \in Workers : pc'[v] \in Driving \cup {"markNode"} => Drives(v)
    BY <1>0, <1>37 DEF MarkNodeFailed, Goto
  <2>5. \A v \in Workers : Front(v)'
    BY <2>2, <2>4
  <2>6. \A r \in Rows : ~WaitingRow(r)'
    BY <1>0, <2>3, <1>37 DEF MarkNodeFailed, SetRow
  <2>. QED
    BY <2>3, <2>5, <2>6
<1>38. ASSUME NEW w \in Workers, CancelParked(w) PROVE Chain'
  BY <1>0, <1>38 DEF CancelParked, GuardedStatus, Say, clock, env, Goto
<1>39. ASSUME NEW w \in Workers, Announce(w) PROVE Chain'
  BY <1>0, <1>39 DEF Announce, Goto, db, env
<1>40. ASSUME NEW w \in Workers, Ack(w) PROVE Chain'
  BY <1>0, <1>40 DEF Ack, Goto, Free, db, env, Blank, Fresh
<1>41. ASSUME NEW w \in Workers, RecoverStuckRunning(w) PROVE Chain'
  BY <1>41 DEF RecoverStuckRunning, Segments, Calm, Redriving
<1>42. ASSUME NEW w \in Workers, RecoverOrphanPending(w) PROVE Chain'
  BY <1>0, <1>42 DEF RecoverOrphanPending, Goto, Say, rows, clock, env
<1>43. ASSUME NEW w \in Workers, Crash(w) PROVE Chain'
  <2>1. ~Spend("crash")
    BY DEF Spend, Segments, Calm
  <2>. QED
    BY <2>1, <1>43 DEF Crash
<1>44. CASE UNCHANGED vars
  BY <1>44 DEF vars, db, rows, clock, env
<1>. QED
  BY <1>1, <1>2, <1>3, <1>4, <1>5, <1>6, <1>7, <1>8, <1>9, <1>10, <1>11, <1>12, <1>13,
     <1>14, <1>15, <1>16, <1>17, <1>18, <1>19, <1>20, <1>21, <1>22, <1>23, <1>24,
     <1>25, <1>26, <1>27, <1>28, <1>29, <1>30, <1>31, <1>32, <1>33, <1>34, <1>35,
     <1>36, <1>37, <1>38, <1>39, <1>40, <1>41, <1>42, <1>43, <1>44
  DEF Next, Environment, Work, Recovery

-------------------------------------------------------------------------------
\* What the steps of a segment need: it is the only one, finds the execution running
\* or ended, and is over before its job is given up as dead.
Orderly ==
  /\ OneSegment /\ SegmentRuns /\ WaitingPaired /\ started = "fresh"
  /\ \A j \in JobIds :
       jobs[j].kind = "run" /\ jobs[j].state = "dead" => \A w \in Workers : ~Drives(w)

LEMMA SegmentsOrderly == Segments => Orderly
  BY DEF Segments, Orderly, Calm, Alone, OneSegment, InSegment, Drives

\* Only these actions write a row; only the first inserts one.
RowWriter(w) ==
  \/ CreateRow(w) \/ HandlerCompletes(w) \/ HandlerBlocks(w) \/ HandlerFails(w)
  \/ Park(w) \/ MarkNodeCancelled(w) \/ Claim(w) \/ FormTurn(w) \/ AiTurnEnds(w)
  \/ MarkNodeFailed(w) \/ CancelParked(w) \/ FailOrphans(w)
  \/ \E j \in JobIds : StalledExhausted(w, j)

LEMMA RowWriters ==
  ASSUME [Next]_vars
  PROVE  /\ rowStatus' = rowStatus \/ \E w \in Workers : RowWriter(w)
         /\ rowNode' = rowNode \/ \E w \in Workers : CreateRow(w)
<1>. DEFINE Goal == /\ rowStatus' = rowStatus \/ \E w \in Workers : RowWriter(w)
                    /\ rowNode' = rowNode \/ \E w \in Workers : CreateRow(w)
<1>1. ASSUME Environment PROVE Goal
  BY <1>1 DEF Environment, Submit, StopRead, StopActive, StopWaiting, QueueWaitPasses,
       StartedAges, LoseJob, Crash, db, rows
<1>2. ASSUME NEW w \in Workers, Recovery(w) PROVE Goal
  BY <1>2 DEF Recovery, RecoverStuckRunning, RecoverOrphanPending, rows
<1>3. ASSUME NEW w \in Workers, Work(w) PROVE Goal
  <2>1. ASSUME NEW j \in JobIds, PickJob(w, j) PROVE Goal
    BY <2>1 DEF PickJob, db
  <2>2. CASE ReadExecution(w) \/ QueueWaitTimeout(w) \/ Admit(w) \/ Defer(w)
    BY <2>2 DEF ReadExecution, QueueWaitTimeout, Admit, Defer, db, rows
  <2>3. CASE Redrive(w) \/ Rehydrate(w) \/ RehydrationFails(w)
    BY <2>3 DEF Redrive, Rehydrate, RehydrationFails, db
  <2>4. CASE LimitExceeded(w) \/ Boundary(w) \/ Complete(w)
             \/ FinalizeFailed(w) \/ FinalizeCancelled(w) \/ AppendPath(w)
    BY <2>4 DEF LimitExceeded, Boundary, Complete, FinalizeFailed, FinalizeCancelled,
         AppendPath, db, rows
  <2>5. CASE LoadResume(w) \/ ReclaimRunning(w) \/ AiTurnStarts(w)
             \/ MarkExecutionCancelled(w) \/ Announce(w) \/ Ack(w)
    BY <2>5 DEF LoadResume, ReclaimRunning, AiTurnStarts, MarkExecutionCancelled, Announce,
         Ack, db, rows
  <2>6. CASE RowWriter(w)
    <3>1. rowNode' = rowNode \/ CreateRow(w)
      BY <2>6 DEF RowWriter, HandlerCompletes, HandlerBlocks, HandlerFails, SaveRow, Park,
           MarkNodeCancelled, Claim, FormTurn, AiTurnEnds, MarkNodeFailed, CancelParked,
           FailOrphans, StalledExhausted
    <3>. QED
      BY <2>6, <3>1
  <2>. QED
    BY <1>3, <2>1, <2>2, <2>3, <2>4, <2>5, <2>6 DEF Work, RowWriter
<1>4. CASE UNCHANGED vars
  BY <1>4 DEF vars, db
<1>. QED
  BY <1>1, <1>2, <1>3, <1>4 DEF Next

Onward(r) ==
  /\ rowStatus[r] \in {"completed", "failed", "cancelled", "skipped"}
       => rowStatus'[r] = rowStatus[r]
  /\ WaitingRow(r) => rowStatus'[r] \in {"waiting_for_input", "running", "cancelled"}

\* A worker that will write its row finds it running, and a lookup of the newest row
\* of its node gives it that row.
RowInHand(w) ==
  /\ pc[w] \in {"handler", "park", "markNode", "turn", "aiTurn"} =>
       rowStatus[loc[w].row] = "running"
  /\ pc[w] \in {"park", "turn"} =>
       \A r \in Rows : IsLatest(r, loc[w].ptr) => r = loc[w].row

LEMMA ChainInHand ==
  ASSUME Typed, Chain, NEW w \in Workers
  PROVE  RowInHand(w)
<1>1. ASSUME pc[w] \in {"park", "turn"}, NEW r \in Rows, IsLatest(r, loc[w].ptr)
      PROVE  r = loc[w].row
  <2>1. /\ loc[w].row \in Rows /\ rowNode[loc[w].row] = loc[w].ptr
        /\ loc[w].ptr # 0
    BY <1>1 DEF Chain, Front, AtNode, Foremost, Typed, Placed, PlacedAt, OnNode, Nodes
  <2>. QED
    BY <1>1, <2>1 DEF IsLatest, Chain, UniqueNode
<1>2. pc[w] \in {"handler", "park", "markNode", "turn", "aiTurn"} =>
        rowStatus[loc[w].row] = "running"
  BY DEF Chain, Front, AtNode
<1>. QED
  BY <1>1, <1>2 DEF RowInHand

LEMMA StepOnward ==
  ASSUME Typed, Orderly, \A w \in Workers : RowInHand(w), [Next]_vars
  PROVE  \A r \in Rows : Onward(r)
<1>. USE DEF Onward, WaitingRow, SetRow
<1>0. /\ rowStatus \in [Rows -> NodeStatus] /\ exec \in Status
      /\ \A w \in Workers : /\ pc[w] \in OnRow => loc[w].row \in Rows
                            /\ Drives(w) => exec \in Terminal \cup {"running"}
                            /\ pc[w] \in Closing => exec \in Terminal
                            /\ RowInHand(w)
      /\ exec # "waiting_for_input" => \A r \in Rows : ~WaitingRow(r)
  BY DEF Typed, TypeOK, Placed, PlacedAt, Addressed, Orderly, SegmentRuns, WaitingPaired
<1>1. CASE rowStatus' = rowStatus
  BY <1>1 DEF NodeStatus
<1>2. ASSUME NEW w \in Workers, RowWriter(w) PROVE \A r \in Rows : Onward(r)
  <2>. USE <1>0 DEF OnRow, Drives, Driving, Terminal, RowInHand
  <2>1. CASE CreateRow(w)
    BY <2>1 DEF CreateRow
  <2>2. CASE HandlerCompletes(w) \/ HandlerBlocks(w) \/ HandlerFails(w)
    <3>1. pc[w] = "handler" /\ \E s \in NodeStatus : SetRow(loc[w].row, s)
      BY <2>2 DEF HandlerCompletes, HandlerBlocks, HandlerFails, SaveRow, NodeStatus
    <3>. QED
      BY <3>1
  <2>3. CASE Park(w) \/ FormTurn(w)
    <3>1. pc[w] \in {"park", "turn"}
      BY <2>3 DEF Park, FormTurn
    <3>2. \A r \in Rows : IsLatest(r, loc[w].ptr) => r = loc[w].row
      BY <3>1
    <3>3. rowStatus' = rowStatus \/ \E s \in NodeStatus : SetRow(loc[w].row, s)
      BY <2>3, <3>2 DEF Park, FormTurn, WaitTogether, Refused, NodeStatus
    <3>. QED
      BY <3>1, <3>3
  <2>4. CASE MarkNodeCancelled(w)
    BY <2>4 DEF MarkNodeCancelled
  <2>5. CASE Claim(w)
    BY <2>5 DEF Claim
  <2>6. CASE AiTurnEnds(w)
    BY <2>6 DEF AiTurnEnds, WaitTogether, Refused
  <2>7. CASE MarkNodeFailed(w)
    BY <2>7 DEF MarkNodeFailed, Closing
  <2>8. CASE CancelParked(w)
    BY <2>8 DEF CancelParked
  <2>9. CASE FailOrphans(w) \/ \E j \in JobIds : StalledExhausted(w, j)
    BY <2>9 DEF FailOrphans, StalledExhausted
  <2>. QED
    BY <1>2, <2>1, <2>2, <2>3, <2>4, <2>5, <2>6, <2>7, <2>8, <2>9 DEF RowWriter
<1>. QED
  BY <1>1, <1>2, RowWriters

\* The pieces a behaviour without crashes is made of.
Walk == Typed /\ Segments /\ Chain

LEMMA WalkAlways ==
  ASSUME CrashFree PROVE Spec => []Walk
<1>1. Init => Walk
  BY InitTyped, InitSegments, InitChain DEF Walk
<1>2. Walk /\ [Next]_vars => Walk'
  BY StepTyped, StepSegments, StepChain DEF Walk
<1>. QED
  BY <1>1, <1>2, PTL DEF Spec

\* A worker saves the row entity it created without looking at the row.  That undoes
\* nothing: the row is the one of its segment, which no other worker and no cancel job
\* can have closed.
THEOREM RowsOnlyMoveOn ==
  ASSUME CrashFree PROVE Spec => RowsMoveOn
<1>1. Walk /\ [Next]_vars =>
        [\A r \in Rows :
           /\ rowStatus[r] \in {"completed", "failed", "cancelled", "skipped"}
                => rowStatus'[r] = rowStatus[r]
           /\ WaitingRow(r) => rowStatus'[r] \in {"waiting_for_input", "running", "cancelled"}
        ]_vars
  BY StepOnward, SegmentsOrderly, ChainInHand DEF Walk, Onward
<1>. QED
  BY <1>1, WalkAlways, PTL DEF Spec, RowsMoveOn

\* A resumed segment starts behind the node that waited, and what lies behind it was
\* never started: the dispatch loop needs no list of the nodes that completed.
THEOREM NoNodeRerun ==
  ASSUME CrashFree PROVE Spec => NoCompletedRerun
<1>1. ASSUME Walk, [Next]_vars, NEW n \in Nodes, HasCompletedRow(n),
             NEW r \in Rows, rowStatus[r] = "absent", rowNode'[r] = n
      PROVE FALSE
  <2>1. rowNode[r] = 0 /\ n # 0 /\ rowNode \in [Rows -> Nodes \cup {0}]
    BY <1>1 DEF Walk, Typed, TypeOK, RowsInserted, Nodes
  <2>2. PICK w \in Workers : CreateRow(w)
    BY <1>1, <2>1, RowWriters DEF Walk
  <2>3. n = loc[w].ptr
    BY <1>1, <2>1, <2>2 DEF CreateRow
  <2>4. PICK q \in Rows : rowNode[q] = n
    BY <1>1 DEF HasCompletedRow
  <2>5. rowNode[q] < loc[w].ptr
    BY <1>1, <2>2 DEF CreateRow, Walk, Chain, Front
  <2>. QED
    BY <2>3, <2>4, <2>5, ChainAssumption DEF Nodes
<1>2. Walk /\ [Next]_vars =>
        [\A n \in Nodes : HasCompletedRow(n) =>
           ~ \E r \in Rows : rowStatus[r] = "absent" /\ rowNode'[r] = n]_vars
  BY <1>1
<1>. QED
  BY <1>2, WalkAlways, PTL DEF Spec, NoCompletedRerun
-------------------------------------------------------------------------------
\* The writers of the execution's status, each with the statuses it may find.
Moved ==
  \/ exec' = exec
  \/ exec = "pending" /\ exec' \in {"running", "cancelled"}
  \/ exec = "running" /\ exec' \in Terminal \cup {"waiting_for_input"}
  \/ exec = "waiting_for_input" /\ exec' \in {"running", "cancelled"}

LEMMA StepMoved ==
  ASSUME Typed, Orderly, [Next]_vars PROVE Moved
<1>. USE DEF Moved, Terminal
<1>0. /\ exec \in Status
      /\ \A w \in Workers : Drives(w) => exec \in Terminal \cup {"running"}
      /\ exec \in Terminal => exec' = exec
      /\ exec # "waiting_for_input" => \A r \in Rows : ~WaitingRow(r)
      /\ \A w \in Workers : pc[w] \in OnRow => loc[w].row \in Rows
  BY StepTerminalIsFinal DEF Typed, TypeOK, Orderly, SegmentRuns, WaitingPaired, Placed,
       PlacedAt, Addressed
<1>1. ASSUME Environment PROVE Moved
  BY <1>1 DEF Environment, Submit, StopRead, StopActive, StopWaiting, QueueWaitPasses,
       StartedAges, LoseJob, Crash, db
<1>2. ASSUME NEW w \in Workers, Recovery(w) PROVE Moved
  BY <1>2 DEF Recovery, RecoverStuckRunning, RecoverOrphanPending
<1>3. ASSUME NEW w \in Workers, Work(w) PROVE Moved
  <2>. USE <1>0 DEF Drives, Driving, Status
  <2>1. ASSUME NEW j \in JobIds, PickJob(w, j) \/ StalledExhausted(w, j) PROVE Moved
    BY <2>1 DEF PickJob, StalledExhausted, db
  <2>2. CASE ReadExecution(w) \/ QueueWaitTimeout(w) \/ Admit(w) \/ Defer(w)
    BY <2>2 DEF ReadExecution, QueueWaitTimeout, Admit, Defer, GuardedStatus, db
  <2>3. CASE Redrive(w) \/ FailOrphans(w) \/ Rehydrate(w) \/ RehydrationFails(w)
    BY <2>3 DEF Redrive, FailOrphans, Rehydrate, RehydrationFails, db
  <2>4. CASE LimitExceeded(w) \/ Boundary(w) \/ Complete(w)
             \/ FinalizeFailed(w) \/ FinalizeCancelled(w)
    BY <2>4 DEF LimitExceeded, Boundary, Complete, FinalizeFailed, FinalizeCancelled,
         GuardedStatus, db
  <2>5. CASE CreateRow(w) \/ HandlerCompletes(w) \/ HandlerBlocks(w) \/ HandlerFails(w)
             \/ AppendPath(w)
    BY <2>5 DEF CreateRow, HandlerCompletes, HandlerBlocks, HandlerFails, SaveRow,
         AppendPath
  <2>6. CASE Park(w) \/ MarkNodeCancelled(w)
    BY <2>6 DEF Park, WaitTogether, Refused, MarkNodeCancelled
  <2>7. CASE Claim(w) \/ LoadResume(w) \/ ReclaimRunning(w) \/ FormTurn(w)
             \/ AiTurnStarts(w) \/ AiTurnEnds(w)
    BY <2>7 DEF Claim, LoadResume, ReclaimRunning, FormTurn, AiTurnStarts, AiTurnEnds,
         WaitTogether, Refused, GuardedStatus, OnRow, WaitingRow, db
  <2>8. CASE MarkExecutionCancelled(w) \/ MarkNodeFailed(w) \/ CancelParked(w)
             \/ Announce(w) \/ Ack(w)
    BY <2>8 DEF MarkExecutionCancelled, MarkNodeFailed, CancelParked, Announce, Ack,
         GuardedStatus, db
  <2>. QED
    BY <1>3, <2>1, <2>2, <2>3, <2>4, <2>5, <2>6, <2>7, <2>8 DEF Work
<1>4. CASE UNCHANGED vars
  BY <1>4 DEF vars, db
<1>. QED
  BY <1>1, <1>2, <1>3, <1>4 DEF Next

LEMMA MovedIsMove ==
  ASSUME Typed, Moved PROVE [StatusMachine!Next]_exec
<1>. SUFFICES ASSUME exec' # exec PROVE StatusMachine!Next
  OBVIOUS
<1>1. exec \in Status
  BY DEF Typed, TypeOK
<1>2. exec' \in StatusMachine!ALLOWED_TRANSITIONS[exec] /\ exec' \in StatusMachine!Status
  BY <1>1 DEF Moved, Status, Terminal, StatusMachine!ALLOWED_TRANSITIONS, StatusMachine!Status
<1>. QED
  BY <1>2 DEF StatusMachine!Next, StatusMachine!Move, StatusMachine!canTransition

\* The status of the execution follows the transition table, though most writers look
\* only whether it has ended: a writer drives the segment, and so finds it running, or
\* looks for the one status it starts from.
THEOREM StatusMachineImplemented ==
  ASSUME CrashFree PROVE Spec => ImplementsStatusMachine
<1>1. Init => StatusMachine!Init
  BY DEF Init, StatusMachine!Init
<1>2. Walk /\ [Next]_vars => [StatusMachine!Next]_exec
  BY MovedIsMove, StepMoved, SegmentsOrderly DEF Walk
<1>. QED
  BY <1>1, <1>2, WalkAlways, PTL DEF Spec, ImplementsStatusMachine, StatusMachine!Spec
-------------------------------------------------------------------------------
\* A worker that wrote an end goes to announce it; one whose write was refused, or who
\* writes no end, does not and drives no more.
Begins(w) ==
  /\ pc'[w] \in Announcing /\ exec' \in Terminal
  /\ exec \notin Terminal \/ Drives(w)
  /\ \A v \in Workers : Drives(v) => v = w
StandsBack(w) == pc'[w] \notin Announcing \cup Driving /\ exec' = exec

LEMMA WriterTold ==
  ASSUME Told, NEW w \in Workers, announced' = announced,
         \A v \in Workers \ {w} : pc'[v] = pc[v], Begins(w) \/ StandsBack(w)
  PROVE  Told'
<1>. USE DEF Told, AnnouncedOnce, Drives, Driving, Announcing
<1>1. CASE Begins(w)
  <2>1. announced = <<>> /\ \A v \in Workers : pc[v] \notin Announcing
    BY <1>1 DEF Begins
  <2>2. \A v \in Workers : ~Drives(v)'
    BY <1>1 DEF Begins
  <2>. QED
    BY <1>1, <2>1, <2>2 DEF Begins
<1>2. CASE StandsBack(w)
  BY <1>2 DEF StandsBack
<1>. QED
  BY <1>1, <1>2

LEMMA StepTold == Typed /\ Orderly /\ Told /\ [Next]_vars => Told'
<1> SUFFICES ASSUME Typed, Orderly, Told, [Next]_vars PROVE Told'
  OBVIOUS
<1> USE DEF Told, AnnouncedOnce, Announcing, Drives, Driving
<1>0. /\ pc \in [Workers -> Label] /\ loc \in [Workers -> Local]
      /\ announced \in Seq(Terminal) /\ exec \in Status
      /\ \A w \in Workers : Drives(w) => exec \in Terminal \cup {"running"}
      /\ \A v, w \in Workers : Drives(v) /\ Drives(w) => v = w
      /\ exec \in Terminal => exec' = exec
  BY StepTerminalIsFinal DEF Typed, TypeOK, Orderly, OneSegment, SegmentRuns
<1>1. CASE Submit
  BY <1>0, <1>1 DEF Submit, Enqueue, Spend, db, Queued
<1>2. CASE StopRead
  BY <1>0, <1>2 DEF StopRead, Spend, db
<1>3. CASE StopActive
  BY <1>0, <1>3 DEF StopActive, rows, clock
<1>4. CASE StopWaiting
  BY <1>0, <1>4 DEF StopWaiting, Enqueue, db, Queued
<1>5. CASE QueueWaitPasses
  BY <1>0, <1>5 DEF QueueWaitPasses, rows, env
<1>6. CASE StartedAges
  BY <1>0, <1>6 DEF StartedAges, Spend, rows
<1>7. CASE LoseJob
  BY <1>0, <1>7 DEF LoseJob, Free, Spend, db
<1>8. ASSUME NEW w \in Workers, NEW j \in JobIds, PickJob(w, j) PROVE Told'
  BY <1>0, <1>8 DEF PickJob, Goto, db, env, Fresh
<1>9. ASSUME NEW w \in Workers, NEW j \in JobIds, StalledExhausted(w, j) PROVE Told'
  <2>1. CASE exec = "running"
    <3>1. announced' = announced /\ \A v \in Workers \ {w} : pc'[v] = pc[v]
      BY <1>0, <1>9, <2>1 DEF StalledExhausted, Goto
    <3>2. Begins(w)
      BY <1>0, <1>9, <2>1 DEF StalledExhausted, Goto, Begins, Terminal, Orderly
    <3>. QED
      BY <3>1, <3>2, WriterTold
  <2>2. CASE exec # "running"
    BY <1>0, <1>9, <2>2 DEF StalledExhausted
  <2>. QED
    BY <2>1, <2>2
<1>10. ASSUME NEW w \in Workers, ReadExecution(w) PROVE Told'
  BY <1>0, <1>10 DEF ReadExecution, Goto, db, env
<1>11. ASSUME NEW w \in Workers, QueueWaitTimeout(w) PROVE Told'
  <2>1. announced' = announced /\ \A v \in Workers \ {w} : pc'[v] = pc[v]
    BY <1>0, <1>11 DEF QueueWaitTimeout, GuardedStatus, Goto
  <2>2. Begins(w) \/ StandsBack(w)
    BY <1>0, <1>11 DEF QueueWaitTimeout, GuardedStatus, Goto, Begins, StandsBack, Terminal, Status
  <2>. QED
    BY <2>1, <2>2, WriterTold
<1>12. ASSUME NEW w \in Workers, Admit(w) PROVE Told'
  BY <1>0, <1>12 DEF Admit, Goto, rows, env
<1>13. ASSUME NEW w \in Workers, Defer(w) PROVE Told'
  BY <1>0, <1>13 DEF Defer, Goto, Enqueue, db, env, Queued
<1>14. ASSUME NEW w \in Workers, Redrive(w) PROVE Told'
  BY <1>0, <1>14 DEF Redrive, Goto, Terminal, db, env
<1>15. ASSUME NEW w \in Workers, FailOrphans(w) PROVE Told'
  BY <1>0, <1>15 DEF FailOrphans, Goto, clock, env
<1>16. ASSUME NEW w \in Workers, Rehydrate(w) PROVE Told'
  BY <1>0, <1>16 DEF Rehydrate, Goto, db, env
<1>17. ASSUME NEW w \in Workers, RehydrationFails(w) PROVE Told'
  BY <1>0, <1>17 DEF RehydrationFails, Goto, db, env
<1>18. ASSUME NEW w \in Workers, LimitExceeded(w) PROVE Told'
  BY <1>0, <1>18 DEF LimitExceeded, Goto, db, env
<1>19. ASSUME NEW w \in Workers, Boundary(w) PROVE Told'
  BY <1>0, <1>19 DEF Boundary, Goto, Advance, db, env
<1>20. ASSUME NEW w \in Workers, Complete(w) PROVE Told'
  <2>1. announced' = announced /\ \A v \in Workers \ {w} : pc'[v] = pc[v]
    BY <1>0, <1>20 DEF Complete, GuardedStatus, Goto
  <2>2. Begins(w) \/ StandsBack(w)
    BY <1>0, <1>20 DEF Complete, GuardedStatus, Goto, Begins, StandsBack, Terminal,
         Status, NonTerminal, nonTerminalStatuses
  <2>. QED
    BY <2>1, <2>2, WriterTold
<1>21. ASSUME NEW w \in Workers, FinalizeFailed(w) PROVE Told'
  <2>1. announced' = announced /\ \A v \in Workers \ {w} : pc'[v] = pc[v]
    BY <1>0, <1>21 DEF FinalizeFailed, GuardedStatus, Goto
  <2>2. Begins(w) \/ StandsBack(w)
    BY <1>0, <1>21 DEF FinalizeFailed, GuardedStatus, Goto, Begins, StandsBack, Terminal,
         Status, NonTerminal, nonTerminalStatuses
  <2>. QED
    BY <2>1, <2>2, WriterTold
<1>22. ASSUME NEW w \in Workers, FinalizeCancelled(w) PROVE Told'
  <2>1. announced' = announced /\ \A v \in Workers \ {w} : pc'[v] = pc[v]
    BY <1>0, <1>22 DEF FinalizeCancelled, GuardedStatus, Goto
  <2>2. Begins(w) \/ StandsBack(w)
    BY <1>0, <1>22 DEF FinalizeCancelled, GuardedStatus, Goto, Begins, StandsBack, Terminal,
         Status, NonTerminal, nonTerminalStatuses
  <2>. QED
    BY <2>1, <2>2, WriterTold
<1>23. ASSUME NEW w \in Workers, CreateRow(w) PROVE Told'
  BY <1>0, <1>23 DEF CreateRow, Goto, SetRow, clock, env
<1>24. ASSUME NEW w \in Workers, HandlerCompletes(w) PROVE Told'
  BY <1>0, <1>24 DEF HandlerCompletes, Goto, SaveRow, SetRow, clock, env
<1>25. ASSUME NEW w \in Workers, HandlerBlocks(w) PROVE Told'
  BY <1>0, <1>25 DEF HandlerBlocks, Goto, SaveRow, SetRow, clock, env
<1>26. ASSUME NEW w \in Workers, HandlerFails(w) PROVE Told'
  BY <1>0, <1>26 DEF HandlerFails, Goto, SaveRow, Advance, SetRow, clock, env
<1>27. ASSUME NEW w \in Workers, AppendPath(w) PROVE Told'
  BY <1>0, <1>27 DEF AppendPath, Goto, Advance, rows, clock, env
<1>28. ASSUME NEW w \in Workers, Park(w) PROVE Told'
  BY <1>0, <1>28 DEF Park, WaitTogether, Refused, IsLatest, clock, env, NonTerminal,
       Goto, SetRow, nonTerminalStatuses
<1>29. ASSUME NEW w \in Workers, MarkNodeCancelled(w) PROVE Told'
  BY <1>0, <1>29 DEF MarkNodeCancelled, Goto, SetRow, clock, env
<1>30. ASSUME NEW w \in Workers, Claim(w) PROVE Told'
  <2>1. CASE Goto(w, "load") /\ exec \notin Terminal
    BY <1>0, <1>30, <2>1 DEF Claim, Goto, Terminal
  <2>2. CASE Goto(w, "ack") /\ exec' = exec
    BY <1>0, <1>30, <2>2 DEF Claim, Goto
  <2>. QED
    BY <1>30, <2>1, <2>2 DEF Claim, Terminal
<1>31. ASSUME NEW w \in Workers, LoadResume(w) PROVE Told'
  BY <1>0, <1>31 DEF LoadResume, Goto, db, env
<1>32. ASSUME NEW w \in Workers, ReclaimRunning(w) PROVE Told'
  BY <1>0, <1>32 DEF ReclaimRunning, GuardedStatus, Goto, Terminal, NonTerminal,
       nonTerminalStatuses
<1>33. ASSUME NEW w \in Workers, FormTurn(w) PROVE Told'
  BY <1>0, <1>33 DEF FormTurn, Goto, SetRow, Advance, IsLatest, clock, env
<1>34. ASSUME NEW w \in Workers, AiTurnStarts(w) PROVE Told'
  BY <1>0, <1>34 DEF AiTurnStarts, Goto, db, env, KindOf
<1>35. ASSUME NEW w \in Workers, AiTurnEnds(w) PROVE Told'
  BY <1>0, <1>35 DEF AiTurnEnds, Goto, SetRow, Advance, WaitTogether, Refused, clock,
       env, NonTerminal, KindOf, nonTerminalStatuses
<1>36. ASSUME NEW w \in Workers, MarkExecutionCancelled(w) PROVE Told'
  <2>1. announced' = announced /\ \A v \in Workers \ {w} : pc'[v] = pc[v]
    BY <1>0, <1>36 DEF MarkExecutionCancelled, GuardedStatus, Goto
  <2>2. Begins(w) \/ StandsBack(w)
    BY <1>0, <1>36 DEF MarkExecutionCancelled, GuardedStatus, Goto, Begins, StandsBack, Terminal, Status
  <2>. QED
    BY <2>1, <2>2, WriterTold
<1>37. ASSUME NEW w \in Workers, MarkNodeFailed(w) PROVE Told'
  BY <1>0, <1>37 DEF MarkNodeFailed, Goto, SetRow, clock, env
<1>38. ASSUME NEW w \in Workers, CancelParked(w) PROVE Told'
  <2>1. announced' = announced /\ \A v \in Workers \ {w} : pc'[v] = pc[v]
    BY <1>0, <1>38 DEF CancelParked, GuardedStatus, Goto
  <2>2. Begins(w) \/ StandsBack(w)
    BY <1>0, <1>38 DEF CancelParked, GuardedStatus, Goto, Begins, StandsBack, Terminal, Status
  <2>. QED
    BY <2>1, <2>2, WriterTold
<1>39. ASSUME NEW w \in Workers, Announce(w) PROVE Told'
  BY <1>0, <1>39 DEF Announce, Goto, db, env
<1>40. ASSUME NEW w \in Workers, Ack(w) PROVE Told'
  BY <1>0, <1>40 DEF Ack, Goto, Free, db, env, Blank, Fresh
<1>41. ASSUME NEW w \in Workers, RecoverStuckRunning(w) PROVE Told'
  BY <1>41 DEF RecoverStuckRunning, Orderly
<1>42. ASSUME NEW w \in Workers, RecoverOrphanPending(w) PROVE Told'
  <2>1. announced' = announced /\ \A v \in Workers \ {w} : pc'[v] = pc[v]
    BY <1>0, <1>42 DEF RecoverOrphanPending, GuardedStatus, Goto
  <2>2. Begins(w) \/ StandsBack(w)
    BY <1>0, <1>42 DEF RecoverOrphanPending, GuardedStatus, Goto, Begins, StandsBack, Terminal, Status
  <2>. QED
    BY <2>1, <2>2, WriterTold
<1>43. ASSUME NEW w \in Workers, Crash(w) PROVE Told'
  BY <1>0, <1>43 DEF Crash, Goto, db
<1>44. CASE UNCHANGED vars
  BY <1>44 DEF vars, db, rows, clock, env
<1>. QED
  BY <1>1, <1>2, <1>3, <1>4, <1>5, <1>6, <1>7, <1>8, <1>9, <1>10, <1>11, <1>12, <1>13,
     <1>14, <1>15, <1>16, <1>17, <1>18, <1>19, <1>20, <1>21, <1>22, <1>23, <1>24,
     <1>25, <1>26, <1>27, <1>28, <1>29, <1>30, <1>31, <1>32, <1>33, <1>34, <1>35,
     <1>36, <1>37, <1>38, <1>39, <1>40, <1>41, <1>42, <1>43, <1>44
  DEF Next, Environment, Work, Recovery

\* A client is told of one end, once: two writers may both mean to end an execution, but
\* only the one whose write is applied announces, and by then nobody else drives.
THEOREM EndAnnouncedOnce ==
  ASSUME CrashFree PROVE Spec => []AnnouncedOnce
<1>1. Init => Told
  BY DEF Init, Told, AnnouncedOnce, Announcing
<1>2. Walk /\ Told /\ [Next]_vars => Told'
  BY StepTold, SegmentsOrderly DEF Walk
<1>3. Told => AnnouncedOnce
  BY DEF Told
<1>. QED
  BY <1>1, <1>2, <1>3, WalkAlways, PTL DEF Spec
-------------------------------------------------------------------------------
LEMMA WorkKeepsEnv ==
  ASSUME NEW w \in Workers, Work(w) PROVE UNCHANGED env
<1>1. ASSUME NEW j \in JobIds, PickJob(w, j) \/ StalledExhausted(w, j) PROVE UNCHANGED env
  BY <1>1 DEF PickJob, StalledExhausted
<1>2. CASE ReadExecution(w) \/ QueueWaitTimeout(w) \/ Admit(w) \/ Defer(w)
           \/ Redrive(w) \/ FailOrphans(w) \/ Rehydrate(w) \/ RehydrationFails(w)
  BY <1>2 DEF ReadExecution, QueueWaitTimeout, Admit, Defer, Redrive, FailOrphans,
       Rehydrate, RehydrationFails
<1>3. CASE LimitExceeded(w) \/ Boundary(w) \/ Complete(w)
           \/ FinalizeFailed(w) \/ FinalizeCancelled(w) \/ CreateRow(w)
  BY <1>3 DEF LimitExceeded, Boundary, Complete, FinalizeFailed, FinalizeCancelled,
       CreateRow
<1>4. CASE HandlerCompletes(w) \/ HandlerBlocks(w) \/ HandlerFails(w)
           \/ AppendPath(w) \/ Park(w) \/ MarkNodeCancelled(w)
  BY <1>4 DEF HandlerCompletes, HandlerBlocks, HandlerFails, SaveRow, AppendPath, Park,
       MarkNodeCancelled
<1>5. CASE Claim(w) \/ LoadResume(w) \/ ReclaimRunning(w) \/ FormTurn(w)
           \/ AiTurnStarts(w) \/ AiTurnEnds(w)
  BY <1>5 DEF Claim, LoadResume, ReclaimRunning, FormTurn, AiTurnStarts, AiTurnEnds
<1>6. CASE MarkExecutionCancelled(w) \/ MarkNodeFailed(w) \/ CancelParked(w)
           \/ Announce(w) \/ Ack(w)
  BY <1>6 DEF MarkExecutionCancelled, MarkNodeFailed, CancelParked, Announce, Ack
<1>. QED
  BY <1>1, <1>2, <1>3, <1>4, <1>5, <1>6 DEF Work

-------------------------------------------------------------------------------
\* The stop request is the one event that leaves an end to others to announce.
LEMMA StillUnstopped ==
  ASSUME Typed, Segments, Tidy, [Next]_vars, Unstopped'
  PROVE  Unstopped /\ stopper = "idle" /\ stopper' = "idle"
<1>0. /\ budget["stop"] \in Nat /\ Budget["stop"] \in Nat
      /\ budget["stop"] <= Budget["stop"]
      /\ budget \in [EnvEvents -> Nat]
  BY BudgetAssumption DEF Typed, TypeOK, Segments, Calm, EnvEvents
<1>1. budget'["stop"] <= budget["stop"]
  <2>1. budget' = budget \/ \E e \in EnvEvents : Spend(e)
    <3>1. CASE Environment
      BY <3>1 DEF Environment, Submit, StopRead, StopActive, StopWaiting, QueueWaitPasses,
           StartedAges, LoseJob, Crash, env, EnvEvents
    <3>2. ASSUME NEW w \in Workers, Recovery(w) PROVE budget' = budget
      BY <3>2 DEF Recovery, RecoverStuckRunning, RecoverOrphanPending, env
    <3>3. ASSUME NEW w \in Workers, Work(w) PROVE budget' = budget
      BY <3>3, WorkKeepsEnv DEF env
    <3>4. CASE UNCHANGED vars
      BY <3>4 DEF vars, env
    <3>. QED
      BY <3>1, <3>2, <3>3, <3>4 DEF Next
  <2>2. ASSUME NEW e \in EnvEvents, Spend(e) PROVE budget'["stop"] <= budget["stop"]
    BY <1>0, <2>2 DEF Spend, EnvEvents
  <2>. QED
    BY <1>0, <2>1, <2>2
<1>2. Unstopped /\ budget'["stop"] = budget["stop"]
  BY <1>0, <1>1 DEF Unstopped
<1>3. stopper = "idle"
  BY <1>2 DEF Tidy
<1>4. stopper' = stopper
  <2>1. CASE Environment
    <3>1. ~StopRead
      BY <1>0, <1>2 DEF StopRead, Spend, EnvEvents
    <3>. QED
      BY <1>3, <2>1, <3>1 DEF Environment, Submit, StopActive, StopWaiting,
           QueueWaitPasses, StartedAges, LoseJob, Crash, env
  <2>2. ASSUME NEW w \in Workers, Recovery(w) PROVE stopper' = stopper
    BY <2>2 DEF Recovery, RecoverStuckRunning, RecoverOrphanPending, env
  <2>3. ASSUME NEW w \in Workers, Work(w) PROVE stopper' = stopper
    BY <2>3, WorkKeepsEnv DEF env
  <2>4. CASE UNCHANGED vars
    BY <2>4 DEF vars, env
  <2>. QED
    BY <2>1, <2>2, <2>3, <2>4 DEF Next
<1>. QED
  BY <1>2, <1>3, <1>4

LEMMA StepTidy == Walk /\ Told /\ Tidy /\ [Next]_vars => Tidy'
<1>. DEFINE EndTold == exec \in Terminal =>
                         announced # <<>> \/ \E w \in Workers : pc[w] \in Announcing
            RunningHeld == \A r \in Rows : rowStatus[r] = "running" => Held(r)
<1> SUFFICES ASSUME Walk, Told, Tidy, [Next]_vars, Unstopped' PROVE EndTold' /\ RunningHeld'
  BY StillUnstopped DEF Tidy, Walk
<1> USE DEF Held, Holding, Announcing, Drives, Driving, OnRow
<1>0. /\ pc \in [Workers -> Label] /\ loc \in [Workers -> Local]
      /\ rowStatus \in [Rows -> NodeStatus] /\ exec \in Status /\ announced \in Seq(Terminal)
      /\ stopper = "idle"
      /\ EndTold /\ RunningHeld
      /\ \A w \in Workers : pc[w] \notin Redriving
      /\ \A w \in Workers : Drives(w) => exec = "running" /\ exec \notin Terminal
      /\ \A v, w \in Workers : InSegment(v) /\ InSegment(w) => v = w
      /\ \A w \in Workers : pc[w] \in OnRow => loc[w].row \in Rows
      /\ \A w \in Workers : Front(w)
      /\ exec \in Terminal => exec' = exec
  BY StillUnstopped, StepTerminalIsFinal DEF Walk, Typed, TypeOK, Segments, Calm, Alone,
       SegmentRuns, Told, Tidy, Terminal, Placed, PlacedAt, Addressed, Chain
<1>1. CASE Submit
  BY <1>0, <1>1 DEF Submit, Enqueue, Spend, db, Queued
<1>2. CASE StopRead
  BY <1>0, StillUnstopped, <1>2 DEF StopRead, Walk
<1>3. CASE StopActive
  BY <1>0, <1>3 DEF StopActive
<1>4. CASE StopWaiting
  BY <1>0, <1>4 DEF StopWaiting
<1>5. CASE QueueWaitPasses
  BY <1>0, <1>5 DEF QueueWaitPasses, rows, env
<1>6. CASE StartedAges
  BY <1>0, <1>6 DEF StartedAges, Spend, rows
<1>7. CASE LoseJob
  BY <1>0, <1>7 DEF LoseJob, Free, Spend, db
<1>8. ASSUME NEW w \in Workers, NEW j \in JobIds, PickJob(w, j) PROVE EndTold' /\ RunningHeld'
  BY <1>0, <1>8 DEF PickJob, Goto, db, env, Fresh
<1>9. ASSUME NEW w \in Workers, NEW j \in JobIds, StalledExhausted(w, j)
      PROVE  EndTold' /\ RunningHeld'
  BY <1>9 DEF StalledExhausted, Walk, Segments, Calm
<1>10. ASSUME NEW w \in Workers, ReadExecution(w) PROVE EndTold' /\ RunningHeld'
  BY <1>0, <1>10 DEF ReadExecution, Goto, db, env
<1>11. ASSUME NEW w \in Workers, QueueWaitTimeout(w) PROVE EndTold' /\ RunningHeld'
  BY <1>0, <1>11 DEF QueueWaitTimeout, GuardedStatus, Say, rows, clock, env, Goto
<1>12. ASSUME NEW w \in Workers, Admit(w) PROVE EndTold' /\ RunningHeld'
  BY <1>0, <1>12 DEF Admit, Goto, rows, Terminal
<1>13. ASSUME NEW w \in Workers, Defer(w) PROVE EndTold' /\ RunningHeld'
  BY <1>0, <1>13 DEF Defer, Goto, Enqueue, db, env, Queued
<1>14. ASSUME NEW w \in Workers, Redrive(w) PROVE EndTold' /\ RunningHeld'
  BY <1>0, <1>14 DEF Redrive, Redriving
<1>15. ASSUME NEW w \in Workers, FailOrphans(w) PROVE EndTold' /\ RunningHeld'
  BY <1>0, <1>15 DEF FailOrphans, Redriving
<1>16. ASSUME NEW w \in Workers, Rehydrate(w) PROVE EndTold' /\ RunningHeld'
  BY <1>0, <1>16 DEF Rehydrate, Redriving
<1>17. ASSUME NEW w \in Workers, RehydrationFails(w) PROVE EndTold' /\ RunningHeld'
  BY <1>0, <1>17 DEF RehydrationFails, Goto, db, env
<1>18. ASSUME NEW w \in Workers, LimitExceeded(w) PROVE EndTold' /\ RunningHeld'
  BY <1>0, <1>18 DEF LimitExceeded, Goto, db, env
<1>19. ASSUME NEW w \in Workers, Boundary(w) PROVE EndTold' /\ RunningHeld'
  BY <1>0, <1>19 DEF Boundary, Goto, Advance, db, env
<1>20. ASSUME NEW w \in Workers, Complete(w) PROVE EndTold' /\ RunningHeld'
  BY <1>0, <1>20 DEF Complete, GuardedStatus, Say, rows, clock, env, NonTerminal,
       Goto, nonTerminalStatuses
<1>21. ASSUME NEW w \in Workers, FinalizeFailed(w) PROVE EndTold' /\ RunningHeld'
  BY <1>0, <1>21 DEF FinalizeFailed, GuardedStatus, Say, rows, clock, env,
       NonTerminal, Goto, nonTerminalStatuses
<1>22. ASSUME NEW w \in Workers, FinalizeCancelled(w) PROVE EndTold' /\ RunningHeld'
  BY <1>0, <1>22 DEF FinalizeCancelled, GuardedStatus, Say, rows, clock, env,
       NonTerminal, Goto, nonTerminalStatuses
<1>23. ASSUME NEW w \in Workers, CreateRow(w) PROVE EndTold' /\ RunningHeld'
  BY <1>0, <1>23 DEF CreateRow, Goto, SetRow, clock, env
<1>24. ASSUME NEW w \in Workers, HandlerCompletes(w) PROVE EndTold' /\ RunningHeld'
  BY <1>0, <1>24 DEF HandlerCompletes, Goto, SaveRow, SetRow, clock, env
<1>25. ASSUME NEW w \in Workers, HandlerBlocks(w) PROVE EndTold' /\ RunningHeld'
  BY <1>0, <1>25 DEF HandlerBlocks, Goto, SaveRow, SetRow, clock, env
<1>26. ASSUME NEW w \in Workers, HandlerFails(w) PROVE EndTold' /\ RunningHeld'
  BY <1>0, <1>26 DEF HandlerFails, Goto, SaveRow, Advance, SetRow, clock, env
<1>27. ASSUME NEW w \in Workers, AppendPath(w) PROVE EndTold' /\ RunningHeld'
  BY <1>0, <1>27 DEF AppendPath, Goto, Advance, rows, clock, env
<1>28. ASSUME NEW w \in Workers, Park(w) PROVE EndTold' /\ RunningHeld'
  <2>0. pc[w] = "park" /\ announced' = announced /\ exec \notin Terminal
    BY <1>0, <1>28 DEF Park
  <2>1. NonTerminal
    BY <1>0, <2>0 DEF NonTerminal, nonTerminalStatuses
  <2>2. loc[w].row \in Rows /\ WaitTogether(w, loc[w].row)
    BY <2>0, <2>1, <1>28, ChainInHand DEF Park, Walk, RowInHand
  <2>. QED
    BY <1>0, <2>0, <2>2 DEF WaitTogether, SetRow, Goto, Terminal
<1>29. ASSUME NEW w \in Workers, MarkNodeCancelled(w) PROVE EndTold' /\ RunningHeld'
  BY <1>0, <1>29 DEF MarkNodeCancelled, Goto, SetRow, clock, env
<1>30. ASSUME NEW w \in Workers, Claim(w) PROVE EndTold' /\ RunningHeld'
  <2>0. loc[w].row \in Rows /\ pc[w] = "claim" /\ loc' = loc /\ announced' = announced
    BY <1>0, <1>30 DEF Claim
  <2>1. CASE SetRow(loc[w].row, "running") /\ exec' = "running" /\ Goto(w, "load")
    BY <1>0, <2>0, <2>1 DEF SetRow, Goto, Terminal
  <2>2. CASE Goto(w, "ack") /\ exec' = exec /\ rowStatus' = rowStatus
    BY <1>0, <2>0, <2>2 DEF Goto
  <2>. QED
    BY <1>30, <2>1, <2>2 DEF Claim
<1>31. ASSUME NEW w \in Workers, LoadResume(w) PROVE EndTold' /\ RunningHeld'
  <2>1. exec = "running" /\ rowStatus[loc[w].row] = "running"
    BY <1>0, <1>31 DEF LoadResume, Front
  <2>2. loc' = [loc EXCEPT ![w].ptr = rowNode[loc[w].row]] /\ Goto(w, "turn")
    BY <2>1, <1>31 DEF LoadResume
  <2>. QED
    BY <1>0, <2>2, <1>31 DEF LoadResume, Goto, Local, db
<1>32. ASSUME NEW w \in Workers, ReclaimRunning(w) PROVE EndTold' /\ RunningHeld'
  BY <1>0, <1>32 DEF ReclaimRunning, Redriving
<1>33. ASSUME NEW w \in Workers, FormTurn(w) PROVE EndTold' /\ RunningHeld'
  <2>0. pc[w] = "turn" /\ announced' = announced /\ exec' = exec
    BY <1>33 DEF FormTurn
  <2>1. loc[w].row \in Rows /\ SetRow(loc[w].row, "completed")
    BY <2>0, <1>33, ChainInHand DEF FormTurn, Walk, RowInHand
  <2>. QED
    BY <1>0, <2>0, <2>1, <1>33 DEF FormTurn, SetRow, Goto, Advance, Local
<1>34. ASSUME NEW w \in Workers, AiTurnStarts(w) PROVE EndTold' /\ RunningHeld'
  BY <1>0, <1>34 DEF AiTurnStarts, Goto, db, env, KindOf
<1>35. ASSUME NEW w \in Workers, AiTurnEnds(w) PROVE EndTold' /\ RunningHeld'
  <2>0. /\ pc[w] = "aiTurn" /\ announced' = announced /\ exec \notin Terminal
        /\ loc[w].row \in Rows
    BY <1>0, <1>35 DEF AiTurnEnds
  <2>1. NonTerminal
    BY <1>0, <2>0 DEF NonTerminal, nonTerminalStatuses
  <2>2. /\ exec' \notin Terminal
        /\ \E s \in {"waiting_for_input", "completed", "failed"} : SetRow(loc[w].row, s)
        /\ \A v \in Workers \ {w} : pc'[v] = pc[v] /\ loc'[v] = loc[v]
    BY <1>0, <2>0, <2>1, <1>35 DEF AiTurnEnds, WaitTogether, Goto, Advance, Terminal
  <2>. QED
    BY <1>0, <2>0, <2>2 DEF SetRow
<1>36. ASSUME NEW w \in Workers, MarkExecutionCancelled(w) PROVE EndTold' /\ RunningHeld'
  BY <1>0, <1>36 DEF MarkExecutionCancelled, GuardedStatus, Say, rows, clock, env,
       Goto
<1>37. ASSUME NEW w \in Workers, MarkNodeFailed(w) PROVE EndTold' /\ RunningHeld'
  <2>0. /\ pc[w] = "failNode" /\ announced' = announced /\ exec' = exec /\ loc' = loc
        /\ Goto(w, "ack")
    BY <1>37 DEF MarkNodeFailed
  <2>1. EndTold'
    BY <1>0, <2>0 DEF Goto
  <2>2. ASSUME NEW r \in Rows, rowStatus'[r] = "running" PROVE Held(r)'
    <3>1. rowStatus[r] = "running" /\ loc[w].row # r
      <4>1. r # 0
        BY ChainAssumption DEF Rows
      <4>2. SetRow(loc[w].row, "failed") \/ rowStatus' = rowStatus
        BY <1>37 DEF MarkNodeFailed
      <4>3. rowStatus[r] = "running"
        BY <1>0, <2>2, <4>2 DEF SetRow
      <4>4. loc[w].row = r => SetRow(loc[w].row, "failed")
        BY <4>1, <4>3, <1>37 DEF MarkNodeFailed
      <4>. QED
        BY <1>0, <2>2, <4>3, <4>4 DEF SetRow
    <3>. QED
      BY <1>0, <2>0, <3>1 DEF Goto
  <2>. QED
    BY <2>1, <2>2
<1>38. ASSUME NEW w \in Workers, CancelParked(w) PROVE EndTold' /\ RunningHeld'
  BY <1>0, <1>38 DEF CancelParked, GuardedStatus, Say, clock, env, Goto
<1>39. ASSUME NEW w \in Workers, Announce(w) PROVE EndTold' /\ RunningHeld'
  BY <1>0, <1>39 DEF Announce, Goto, db, env
<1>40. ASSUME NEW w \in Workers, Ack(w) PROVE EndTold' /\ RunningHeld'
  BY <1>0, <1>40 DEF Ack, Goto, Free, db, env, Blank, Fresh
<1>41. ASSUME NEW w \in Workers, RecoverStuckRunning(w) PROVE EndTold' /\ RunningHeld'
  BY <1>41 DEF RecoverStuckRunning, Walk, Segments, Calm
<1>42. ASSUME NEW w \in Workers, RecoverOrphanPending(w) PROVE EndTold' /\ RunningHeld'
  BY <1>0, <1>42 DEF RecoverOrphanPending, Goto, Say, rows, clock, env
<1>43. ASSUME NEW w \in Workers, Crash(w) PROVE EndTold' /\ RunningHeld'
  <2>1. ~Spend("crash")
    BY DEF Spend, Walk, Segments, Calm
  <2>. QED
    BY <2>1, <1>43 DEF Crash
<1>44. CASE UNCHANGED vars
  BY <1>0, <1>44 DEF vars, db
<1>. QED
  BY <1>1, <1>2, <1>3, <1>4, <1>5, <1>6, <1>7, <1>8, <1>9, <1>10, <1>11, <1>12, <1>13,
     <1>14, <1>15, <1>16, <1>17, <1>18, <1>19, <1>20, <1>21, <1>22, <1>23, <1>24,
     <1>25, <1>26, <1>27, <1>28, <1>29, <1>30, <1>31, <1>32, <1>33, <1>34, <1>35,
     <1>36, <1>37, <1>38, <1>39, <1>40, <1>41, <1>42, <1>43, <1>44
  DEF Next, Environment, Work, Recovery

\* Whatever fails, an execution that nobody stopped is announced once it is quiet, and
\* leaves no row open: the paths that end a segment close its row and announce the end
\* they wrote.  Jobs may be lost, inputs refused, log entries missing.
THEOREM TidyUntilStopped ==
  ASSUME CrashFree PROVE Spec => []TidyUnlessStopped
<1>1. Init => Told /\ Tidy
  BY DEF Init, Told, AnnouncedOnce, Announcing, Tidy, Terminal
<1>2. Walk /\ Told /\ Tidy /\ [Next]_vars => Told' /\ Tidy'
  BY StepTold, StepTidy, SegmentsOrderly DEF Walk
<1>3. Walk /\ Told /\ Tidy => TidyUnlessStopped
  <2>. SUFFICES ASSUME Walk, Tidy, Unstopped, Quiet, exec \in Terminal
                PROVE  /\ announced # <<>>
                       /\ \A r \in Rows : rowStatus[r] \notin {"running", "waiting_for_input"}
    BY DEF TidyUnlessStopped, AnnouncedWhenQuiet, ClosedWhenQuiet
  <2>1. announced # <<>>
    BY DEF Tidy, Quiet, Announcing
  <2>2. \A r \in Rows : rowStatus[r] # "running"
    BY DEF Tidy, Quiet, Held, Holding
  <2>3. \A r \in Rows : rowStatus[r] # "waiting_for_input"
    BY DEF Walk, Segments, WaitingPaired, WaitingRow, Terminal
  <2>. QED
    BY <2>1, <2>2, <2>3
<1>. QED
  BY <1>1, <1>2, <1>3, WalkAlways, PTL DEF Spec
-------------------------------------------------------------------------------
(* Re-driven executions: workers die as often as they like, the user may stop the      *)
(* execution, but nobody submits to it (Unanswered).                                   *)

AtRow(w) ==
  /\ pc[w] \in {"handler", "appendPark", "park", "markNode"} =>
       loc[w].row \in Rows /\ rowStatus[loc[w].row] = "running"
  /\ pc[w] \in {"handler", "appendPark", "park"} =>
       /\ rowNode[loc[w].row] = loc[w].ptr
       /\ \A q \in Rows : q > loc[w].row => rowStatus[q] = "absent"

\* Rows are inserted in order: the one a worker created is the newest, whatever rows
\* of its node an earlier worker left.
RowsInOrder ==
  /\ \A q, r \in Rows : q < r /\ rowStatus[r] # "absent" => rowStatus[q] # "absent"
  /\ WaitingPaired
  /\ \A w \in Workers : AtRow(w)

LEMMA RedrivenAlone ==
  ASSUME Typed, Redriven, NEW v \in Workers, NEW w \in Workers,
         pc[v] \in Underway, pc[w] \in Underway \cup Closing
  PROVE  v = w
<1>. USE NoJobAssumption DEF Redriven, InHand, OneRunJob, Works, RunLive, Live
<1>1. /\ loc[v].job \in JobIds /\ RunLive(loc[v].job)
      /\ loc[w].job \in JobIds /\ RunLive(loc[w].job)
  BY DEF Typed, TypeOK, Local
<1>2. loc[v].job = loc[w].job
  BY <1>1
<1>. QED
  BY <1>1, <1>2

LEMMA RedrivenOrderly ==
  ASSUME Typed, Redriven, RowsInOrder
  PROVE  Orderly
<1>1. ASSUME NEW w \in Workers, Drives(w) PROVE pc[w] \in Underway
  BY <1>1 DEF Drives, Driving, Underway, Redriven, NoInputs, ForInputs
<1>2. OneSegment
  BY <1>1, RedrivenAlone DEF OneSegment
<1>3. SegmentRuns
  BY <1>1 DEF SegmentRuns, Redriven, Stage
<1>4. ASSUME NEW j \in JobIds, jobs[j].kind = "run", jobs[j].state = "dead",
             NEW w \in Workers, Drives(w)
      PROVE  FALSE
  <2>1. loc[w].job \in JobIds /\ RunLive(loc[w].job) /\ jobs[loc[w].job].state = "active"
    BY <1>1, <1>4, NoJobAssumption
       DEF Typed, TypeOK, Local, Redriven, InHand, Works, RunLive, Live
  <2>2. loc[w].job = j
    BY <1>1, <1>4, <2>1 DEF Redriven, OneRunJob, RunLive, Live
  <2>. QED
    BY <1>4, <2>1, <2>2
<1>. QED
  BY <1>2, <1>3, <1>4 DEF Orderly, RowsInOrder, Redriven, NoInputs

LEMMA AtRowInHand ==
  ASSUME Typed, Redriven, NEW w \in Workers, AtRow(w)
  PROVE  RowInHand(w)
<1>1. ASSUME pc[w] = "park", NEW r \in Rows, IsLatest(r, loc[w].ptr) PROVE r = loc[w].row
  <2>1. /\ loc[w].row \in Rows /\ rowNode[loc[w].row] = loc[w].ptr
        /\ loc[w].ptr # 0
    BY <1>1 DEF AtRow, Typed, Placed, PlacedAt, OnNode, Nodes
  <2>2. rowNode[r] # 0 /\ loc[w].row <= r
    BY <1>1, <2>1 DEF IsLatest
  <2>3. rowStatus[r] # "absent"
    BY <2>2 DEF Typed, RowsInserted
  <2>. QED
    BY <1>1, <2>1, <2>2, <2>3 DEF AtRow, Rows
<1>2. pc[w] \notin {"turn", "aiTurn"}
  BY DEF Redriven, NoInputs, ForInputs
<1>. QED
  BY <1>1, <1>2 DEF AtRow, RowInHand

LEMMA InitInOrder == Init => RowsInOrder
  BY DEF Init, RowsInOrder, WaitingPaired, WaitingRow, AtRow

LEMMA StepInOrder ==
  ASSUME Typed, Redriven, RowsInOrder, [Next]_vars PROVE RowsInOrder'
<1> USE DEF RowsInOrder, WaitingPaired, WaitingRow, AtRow, Terminal
<1>0. /\ pc \in [Workers -> Label] /\ loc \in [Workers -> Local] /\ exec \in Status
      /\ rowNode \in [Rows -> Nodes \cup {0}] /\ rowStatus \in [Rows -> NodeStatus]
      /\ Rows \subseteq Nat
      /\ \A v, w \in Workers :
           pc[v] \in Underway /\ pc[w] \in Underway \cup Closing => v = w
      /\ \A w \in Workers : /\ pc[w] \in Underway => exec \in Terminal \cup {"running"}
                            /\ pc[w] \in Closing => exec \in Terminal
                            /\ pc[w] \notin ForInputs
  BY RedrivenAlone, ChainAssumption DEF Typed, TypeOK, Redriven, Stage, NoInputs, Rows
<1> USE DEF Underway, Closing, ForInputs
<1>1. CASE Submit
  BY <1>0, <1>1 DEF Submit, Enqueue, Spend, db, Queued
<1>2. CASE StopRead
  BY <1>0, <1>2 DEF StopRead, Spend, db
<1>3. CASE StopActive
  BY <1>0, <1>3 DEF StopActive, rows, clock
<1>4. CASE StopWaiting
  BY <1>0, <1>4 DEF StopWaiting, Enqueue, db, Queued
<1>5. CASE QueueWaitPasses
  BY <1>0, <1>5 DEF QueueWaitPasses, rows, env
<1>6. CASE StartedAges
  BY <1>0, <1>6 DEF StartedAges, Spend, rows
<1>7. CASE LoseJob
  BY <1>0, <1>7 DEF LoseJob, Free, Spend, db
<1>8. ASSUME NEW w \in Workers, NEW j \in JobIds, PickJob(w, j) PROVE RowsInOrder'
  BY <1>0, <1>8 DEF PickJob, Goto, db, env, Fresh
<1>9. ASSUME NEW w \in Workers, NEW j \in JobIds, StalledExhausted(w, j) PROVE RowsInOrder'
  <2>1. CASE exec = "running"
    <3>1. \A v \in Workers : ~Drives(v)
      BY <1>9, RedrivenOrderly DEF StalledExhausted, Orderly
    <3>2. \A v \in Workers : ~Drives(v)'
      BY <1>0, <1>9, <2>1, <3>1 DEF StalledExhausted, Goto, Drives, Driving
    <3>3. /\ \A r \in Rows : rowStatus'[r] =
                IF rowStatus[r] = "running" THEN "failed" ELSE rowStatus[r]
          /\ exec' = "failed"
      BY <1>9, <2>1 DEF StalledExhausted
    <3>. QED
      BY <2>1, <3>2, <3>3 DEF Drives, Driving
  <2>2. CASE exec # "running"
    BY <1>9, <2>2 DEF StalledExhausted
  <2>. QED
    BY <2>1, <2>2
<1>10. ASSUME NEW w \in Workers, ReadExecution(w) PROVE RowsInOrder'
  BY <1>0, <1>10 DEF ReadExecution, Goto, db, env
<1>11. ASSUME NEW w \in Workers, QueueWaitTimeout(w) PROVE RowsInOrder'
  BY <1>0, <1>11 DEF QueueWaitTimeout, GuardedStatus, Say, rows, clock, env, Goto
<1>12. ASSUME NEW w \in Workers, Admit(w) PROVE RowsInOrder'
  BY <1>0, <1>12 DEF Admit, Goto, rows, env
<1>13. ASSUME NEW w \in Workers, Defer(w) PROVE RowsInOrder'
  BY <1>0, <1>13 DEF Defer, Goto, Enqueue, db, env, Queued
<1>14. ASSUME NEW w \in Workers, Redrive(w) PROVE RowsInOrder'
  BY <1>0, <1>14 DEF Redrive, Goto, SetRow, SaveRow, Advance, GuardedStatus, Say, rows, db, clock, env
<1>15. ASSUME NEW w \in Workers, FailOrphans(w) PROVE RowsInOrder'
  BY <1>0, <1>15 DEF FailOrphans, Goto, SetRow, SaveRow, Advance, GuardedStatus, Say, rows, db, clock, env
<1>16. ASSUME NEW w \in Workers, Rehydrate(w) PROVE RowsInOrder'
  BY <1>0, <1>16 DEF Rehydrate, Goto, SetRow, SaveRow, Advance, GuardedStatus, Say, rows, db, clock, env
<1>17. ASSUME NEW w \in Workers, RehydrationFails(w) PROVE RowsInOrder'
  BY <1>0, <1>17 DEF RehydrationFails, Goto, db, env
<1>18. ASSUME NEW w \in Workers, LimitExceeded(w) PROVE RowsInOrder'
  BY <1>0, <1>18 DEF LimitExceeded, Goto, db, env
<1>19. ASSUME NEW w \in Workers, Boundary(w) PROVE RowsInOrder'
  BY <1>0, <1>19 DEF Boundary, Goto, Advance, db, env
<1>20. ASSUME NEW w \in Workers, Complete(w) PROVE RowsInOrder'
  BY <1>0, <1>20 DEF Complete, GuardedStatus, Say, rows, clock, env, NonTerminal,
       Goto, nonTerminalStatuses
<1>21. ASSUME NEW w \in Workers, FinalizeFailed(w) PROVE RowsInOrder'
  BY <1>0, <1>21 DEF FinalizeFailed, GuardedStatus, Say, rows, clock, env,
       NonTerminal, Goto, nonTerminalStatuses
<1>22. ASSUME NEW w \in Workers, FinalizeCancelled(w) PROVE RowsInOrder'
  BY <1>0, <1>22 DEF FinalizeCancelled, GuardedStatus, Say, rows, clock, env,
       NonTerminal, Goto, nonTerminalStatuses
<1>23. ASSUME NEW w \in Workers, CreateRow(w) PROVE RowsInOrder'
  <2>1. PICK r \in Rows :
          /\ rowStatus[r] = "absent" /\ \A q \in 1..(r - 1) : rowStatus[q] # "absent"
          /\ rowNode' = [rowNode EXCEPT ![r] = loc[w].ptr]
          /\ SetRow(r, "running") /\ loc' = [loc EXCEPT ![w].row = r]
    BY <1>23 DEF CreateRow
  <2>2. /\ pc[w] = "create" /\ exec' = exec
        /\ \A v \in Workers : pc'[v] = IF v = w THEN "handler" ELSE pc[v]
    BY <1>0, <1>23 DEF CreateRow, Goto
  <2>3. /\ \A q \in Rows : rowStatus'[q] = IF q = r THEN "running" ELSE rowStatus[q]
        /\ rowNode'[r] = loc[w].ptr
    BY <1>0, <2>1 DEF SetRow
  <2>4. loc'[w].row = r /\ loc'[w].ptr = loc[w].ptr
    BY <1>0, <2>1 DEF Local
  <2>5. AtRow(w)'
    BY <1>0, <2>1, <2>2, <2>3, <2>4
  <2>6. \A v \in Workers \ {w} : AtRow(v)'
    BY <1>0, <2>2
  <2>7. WaitingPaired'
    BY <2>1, <2>2, <2>3
  <2>8. ASSUME NEW q \in Rows, NEW x \in Rows, q < x, rowStatus'[x] # "absent"
        PROVE  rowStatus'[q] # "absent"
    BY <1>0, <2>1, <2>3, <2>8 DEF Rows
  <2>. QED
    BY <2>5, <2>6, <2>7, <2>8
<1>24. ASSUME NEW w \in Workers, HandlerCompletes(w) PROVE RowsInOrder'
  BY <1>0, <1>24 DEF HandlerCompletes, Goto, SaveRow, SetRow, clock, env
<1>25. ASSUME NEW w \in Workers, HandlerBlocks(w) PROVE RowsInOrder'
  BY <1>0, <1>25 DEF HandlerBlocks, Goto, SaveRow, SetRow, clock, env
<1>26. ASSUME NEW w \in Workers, HandlerFails(w) PROVE RowsInOrder'
  BY <1>0, <1>26 DEF HandlerFails, Goto, SetRow, SaveRow, Advance, GuardedStatus, Say, rows, db, clock, env
<1>27. ASSUME NEW w \in Workers, AppendPath(w) PROVE RowsInOrder'
  BY <1>0, <1>27 DEF AppendPath, Goto, Advance, rows, clock, env
<1>28. ASSUME NEW w \in Workers, Park(w) PROVE RowsInOrder'
  <2>1. RowInHand(w) /\ pc[w] = "park"
    BY <1>28, AtRowInHand DEF Park
  <2>2. PICK r \in Rows :
          r = loc[w].row /\ IF NonTerminal THEN WaitTogether(w, r) ELSE Refused(w, r)
    BY <1>28, <2>1 DEF Park, RowInHand
  <2>3. PICK l \in {"ack", "markNode"} :
          \A v \in Workers : pc'[v] = IF v = w THEN l ELSE pc[v]
    BY <1>0, <2>2 DEF WaitTogether, Refused, Goto
  <2>4. \A v \in Workers \ {w} : pc[v] \notin Underway
    BY <1>0, <2>1
  <2>5. CASE NonTerminal
    <3>1. /\ exec' = "waiting_for_input" /\ Goto(w, "ack")
          /\ \A q \in Rows : rowStatus'[q] = IF q = r THEN "waiting_for_input" ELSE rowStatus[q]
      BY <1>0, <2>2, <2>5 DEF WaitTogether, SetRow
    <3>2. \A q \in Rows : rowStatus[q] # "waiting_for_input"
      BY <1>0, <2>1
    <3>3. l = "ack"
      BY <1>0, <2>3, <3>1 DEF Goto
    <3>4. \A v \in Workers : AtRow(v)'
      BY <2>3, <2>4, <3>3
    <3>5. rowStatus[r] # "absent"
      BY <2>1, <2>2
    <3>. QED
      BY <3>1, <3>2, <3>4, <3>5
  <2>6. CASE ~NonTerminal
    <3>1. /\ UNCHANGED <<exec, rowStatus>> /\ Goto(w, "markNode")
          /\ loc' = [loc EXCEPT ![w].row = r]
      BY <2>2, <2>6 DEF Refused
    <3>2. l = "markNode" /\ loc'[w].row = loc[w].row
      BY <1>0, <2>2, <2>3, <3>1 DEF Goto, Local
    <3>3. \A v \in Workers : AtRow(v)'
      BY <2>1, <2>2, <2>3, <2>4, <3>1, <3>2
    <3>. QED
      BY <3>1, <3>3
  <2>. QED
    BY <2>5, <2>6
<1>29. ASSUME NEW w \in Workers, MarkNodeCancelled(w) PROVE RowsInOrder'
  BY <1>0, <1>29 DEF MarkNodeCancelled, Goto, SetRow, clock, env
<1>30. ASSUME NEW w \in Workers, Claim(w) PROVE RowsInOrder'
  BY <1>0, <1>30 DEF Claim, Goto, SetRow, clock, env
<1>31. ASSUME NEW w \in Workers, LoadResume(w) PROVE RowsInOrder'
  BY <1>0, <1>31 DEF LoadResume, Goto, db, env
<1>32. ASSUME NEW w \in Workers, ReclaimRunning(w) PROVE RowsInOrder'
  BY <1>0, <1>32 DEF ReclaimRunning, Goto, SetRow, SaveRow, Advance, GuardedStatus, Say, rows, db, clock, env
<1>33. ASSUME NEW w \in Workers, FormTurn(w) PROVE RowsInOrder'
  BY <1>0, <1>33 DEF FormTurn, Goto, SetRow, Advance, IsLatest, clock, env
<1>34. ASSUME NEW w \in Workers, AiTurnStarts(w) PROVE RowsInOrder'
  BY <1>0, <1>34 DEF AiTurnStarts, Goto, db, env, KindOf
<1>35. ASSUME NEW w \in Workers, AiTurnEnds(w) PROVE RowsInOrder'
  BY <1>0, <1>35 DEF AiTurnEnds, Goto, SetRow, SaveRow, Advance, GuardedStatus, Say, rows, db, clock, env
<1>36. ASSUME NEW w \in Workers, MarkExecutionCancelled(w) PROVE RowsInOrder'
  BY <1>0, <1>36 DEF MarkExecutionCancelled, GuardedStatus, Say, rows, clock, env,
       Goto
<1>37. ASSUME NEW w \in Workers, MarkNodeFailed(w) PROVE RowsInOrder'
  BY <1>0, <1>37 DEF MarkNodeFailed, Goto, SetRow, SaveRow, Advance, GuardedStatus, Say, rows, db, clock, env
<1>38. ASSUME NEW w \in Workers, CancelParked(w) PROVE RowsInOrder'
  BY <1>0, <1>38 DEF CancelParked, GuardedStatus, Say, clock, env, Goto
<1>39. ASSUME NEW w \in Workers, Announce(w) PROVE RowsInOrder'
  BY <1>0, <1>39 DEF Announce, Goto, db, env
<1>40. ASSUME NEW w \in Workers, Ack(w) PROVE RowsInOrder'
  BY <1>0, <1>40 DEF Ack, Goto, Free, db, env, Blank, Fresh
<1>41. ASSUME NEW w \in Workers, RecoverStuckRunning(w) PROVE RowsInOrder'
  BY <1>0, <1>41 DEF RecoverStuckRunning, Goto, SetRow, SaveRow, Advance, GuardedStatus, Say, rows, db, clock, env
<1>42. ASSUME NEW w \in Workers, RecoverOrphanPending(w) PROVE RowsInOrder'
  BY <1>0, <1>42 DEF RecoverOrphanPending, Goto, Say, rows, clock, env
<1>43. ASSUME NEW w \in Workers, Crash(w) PROVE RowsInOrder'
  BY <1>0, <1>43 DEF Crash, Goto, SetRow, SaveRow, Advance, GuardedStatus, Say, rows, db, clock, env
<1>44. CASE UNCHANGED vars
  BY <1>44 DEF vars, db, rows, clock, env
<1>. QED
  BY <1>1, <1>2, <1>3, <1>4, <1>5, <1>6, <1>7, <1>8, <1>9, <1>10, <1>11, <1>12, <1>13,
     <1>14, <1>15, <1>16, <1>17, <1>18, <1>19, <1>20, <1>21, <1>22, <1>23, <1>24,
     <1>25, <1>26, <1>27, <1>28, <1>29, <1>30, <1>31, <1>32, <1>33, <1>34, <1>35,
     <1>36, <1>37, <1>38, <1>39, <1>40, <1>41, <1>42, <1>43, <1>44
  DEF Next, Environment, Work, Recovery

\* The pieces a behaviour without inputs is made of.
RedrivenWalk == Typed /\ Redriven /\ RowsInOrder

LEMMA RedrivenAlways ==
  ASSUME Unanswered PROVE Spec => []RedrivenWalk
<1>1. Init => RedrivenWalk
  BY InitTyped, InitRedriven, InitInOrder DEF RedrivenWalk
<1>2. RedrivenWalk /\ [Next]_vars => RedrivenWalk'
  BY StepTyped, StepRedriven, StepInOrder DEF RedrivenWalk
<1>. QED
  BY <1>1, <1>2, PTL DEF Spec

LEMMA RedrivenStep ==
  RedrivenWalk => Orderly /\ \A w \in Workers : RowInHand(w)
BY RedrivenOrderly, AtRowInHand DEF RedrivenWalk, RowsInOrder

\* However often workers die, a redelivered run job never drives next to the segment it
\* was delivered for: the queue hands it out again when its worker is gone, and gives
\* the execution no other run job before it has ended.
THEOREM RedriveIsAlone ==
  ASSUME Unanswered PROVE Spec => []OneSegment
<1>1. RedrivenWalk => OneSegment
  BY RedrivenStep DEF Orderly
<1>. QED
  BY <1>1, RedrivenAlways, PTL

\* A crash leaves no execution waiting without its row, and no row waiting without its
\* execution: the park writes both at once, and a re-drive parks a row of its own.
THEOREM RedriveKeepsPairs ==
  ASSUME Unanswered PROVE Spec => []WaitingPaired
<1>1. RedrivenWalk => WaitingPaired
  BY DEF RedrivenWalk, RowsInOrder
<1>. QED
  BY <1>1, RedrivenAlways, PTL

\* A re-drive runs nodes again, but in rows of its own: those the dead worker closed stay
\* closed, and those it left running are failed and not taken up again (failOrphans).
THEOREM RedriveMovesRowsOn ==
  ASSUME Unanswered PROVE Spec => RowsMoveOn
<1>1. RedrivenWalk /\ [Next]_vars =>
        [\A r \in Rows :
           /\ rowStatus[r] \in {"completed", "failed", "cancelled", "skipped"}
                => rowStatus'[r] = rowStatus[r]
           /\ WaitingRow(r) => rowStatus'[r] \in {"waiting_for_input", "running", "cancelled"}
        ]_vars
  BY StepOnward, RedrivenStep DEF RedrivenWalk, Onward
<1>. QED
  BY <1>1, RedrivenAlways, PTL DEF Spec, RowsMoveOn

\* Neither a crash nor the giving up of a job moves an execution off the table: a job is
\* given up as dead when nobody drives for it, and finds the execution running or ended.
THEOREM RedriveFollowsTable ==
  ASSUME Unanswered PROVE Spec => ImplementsStatusMachine
<1>1. Init => StatusMachine!Init
  BY DEF Init, StatusMachine!Init
<1>2. RedrivenWalk /\ [Next]_vars => [StatusMachine!Next]_exec
  BY MovedIsMove, StepMoved, RedrivenStep DEF RedrivenWalk
<1>. QED
  BY <1>1, <1>2, RedrivenAlways, PTL DEF Spec, ImplementsStatusMachine, StatusMachine!Spec

\* A worker that dies after it wrote an end may never announce it, but none is announced
\* twice: whoever takes its job up again finds the execution ended and stands back.
THEOREM RedriveAnnouncesOnce ==
  ASSUME Unanswered PROVE Spec => []AnnouncedOnce
<1>1. Init => Told
  BY DEF Init, Told, AnnouncedOnce, Announcing
<1>2. RedrivenWalk /\ Told /\ [Next]_vars => Told'
  BY StepTold, RedrivenStep DEF RedrivenWalk
<1>3. Told => AnnouncedOnce
  BY DEF Told
<1>. QED
  BY <1>1, <1>2, <1>3, RedrivenAlways, PTL DEF Spec
===============================================================================
