----------------------- MODULE ExecutionLifecycle_proof -----------------------
(***************************************************************************)
(* Safety of ExecutionLifecycle, for any number of workers, jobs, nodes    *)
(* and rows, and for any number of crashes, losses, inputs and stops; at   *)
(* the end, how a run job is taken up again after crashes (Redriven).      *)
(***************************************************************************)
EXTENDS ExecutionLifecycle, TLAPS

\* A row has a node exactly when it was inserted.
RowsInserted == \A r \in Rows : rowStatus[r] = "absent" <=> rowNode[r] = 0

Addressed(r) == r \in Rows /\ rowNode[r] # 0

\* An input is addressed to a row; nothing waits in the queues that is not a job.
JobsAddressed ==
  \A j \in JobIds :
    /\ jobs[j].kind \in {"message", "end"} => Addressed(jobs[j].row)
    /\ jobs[j].state \in {"waiting", "active"} => jobs[j].kind # "none"

\* What a worker must remember at each label.
OnNode == {"create", "handler", "append", "appendPark", "park", "reclaim", "turn", "aiTurn"}
OnRow == {"handler", "claim", "load", "reclaim", "turn", "aiTurn", "markNode"}
Announcing == {"announce", "announceUnresumable"}
PlacedAt(w) ==
  /\ pc[w] \in OnNode => loc[w].ptr \in Nodes
  /\ pc[w] \in OnRow => Addressed(loc[w].row)
  /\ pc[w] \in Announcing => loc[w].say \in Terminal
Placed == \A w \in Workers : PlacedAt(w)

Typed == TypeOK /\ RowsInserted /\ JobsAddressed /\ Placed

USE DEF Nodes, Rows

LEMMA InitTyped == Init => Typed
<1> SUFFICES ASSUME Init PROVE Typed
  OBVIOUS
<1> USE ChainAssumption, NoJobAssumption, BudgetAssumption DEF Init
<1>1. jobs \in [JobIds -> Job] /\ JobsAddressed
  <2>1. Free \in Job /\ Queued("run", 0) \in Job
    BY DEF Job, JobKind, Free, Queued
  <2>2. jobs \in [JobIds -> Job]
    BY <2>1
  <2>3. \A j \in JobIds : jobs[j].kind = "run" \/ jobs[j] = Free
    BY DEF Queued
  <2> QED
    BY <2>2, <2>3 DEF JobsAddressed, Free
<1>2. loc \in [Workers -> Local]
  BY DEF Local, Blank, Fresh, Terminal
<1>3. pc \in [Workers -> Label]
  BY DEF Label
<1>4. rowNode \in [Rows -> Nodes \cup {0}] /\ rowStatus \in [Rows -> NodeStatus]
  BY DEF NodeStatus
<1>5. announced \in Seq(Terminal)
  OBVIOUS
<1>6. TypeOK
  BY <1>1, <1>2, <1>3, <1>4, <1>5 DEF TypeOK, Status
<1>7. RowsInserted
  BY DEF RowsInserted
<1>8. Placed
  BY DEF Placed, PlacedAt, OnNode, OnRow, Announcing
<1> QED
  BY <1>1, <1>6, <1>7, <1>8 DEF Typed

\* A worker's memory stays well formed under each way the actions update it.
LEMMA LocalUpdates ==
  ASSUME loc \in [Workers -> Local], NEW w \in Workers
  PROVE  /\ \A x \in Local : [loc EXCEPT ![w] = x] \in [Workers -> Local]
         /\ \A e \in Terminal : Say(w, e) => loc' \in [Workers -> Local]
         /\ \A r \in Rows \cup {0} : [loc EXCEPT ![w].row = r] \in [Workers -> Local]
         /\ \A n \in 1..(N + 1) : [loc EXCEPT ![w].ptr = n] \in [Workers -> Local]
         /\ \A S \in SUBSET Nodes : [loc EXCEPT ![w].done = S] \in [Workers -> Local]
         /\ loc[w].ptr \in Nodes /\ Advance(w) => loc' \in [Workers -> Local]
<1>. USE DEF Local
<1>1. \A x \in Local : [loc EXCEPT ![w] = x] \in [Workers -> Local]
  OBVIOUS
<1>2. ASSUME NEW e \in Terminal PROVE [loc[w] EXCEPT !.say = e] \in Local
  OBVIOUS
<1>3. ASSUME NEW r \in Rows \cup {0} PROVE [loc[w] EXCEPT !.row = r] \in Local
  OBVIOUS
<1>4. ASSUME NEW n \in 1..(N + 1) PROVE [loc[w] EXCEPT !.ptr = n] \in Local
  OBVIOUS
<1>5. ASSUME NEW S \in SUBSET Nodes PROVE [loc[w] EXCEPT !.done = S] \in Local
  OBVIOUS
<1>. HIDE DEF Local
<1>6. \A e \in Terminal : Say(w, e) => loc' \in [Workers -> Local]
  BY <1>1, <1>2 DEF Say
<1>7. \A r \in Rows \cup {0} : [loc EXCEPT ![w].row = r] \in [Workers -> Local]
  BY <1>1, <1>3
<1>8. \A n \in 1..(N + 1) : [loc EXCEPT ![w].ptr = n] \in [Workers -> Local]
  BY <1>1, <1>4
<1>9. \A S \in SUBSET Nodes : [loc EXCEPT ![w].done = S] \in [Workers -> Local]
  BY <1>1, <1>5
<1>10. loc[w].ptr \in Nodes /\ Advance(w) => loc' \in [Workers -> Local]
  <2>1. loc[w].ptr \in Nodes => loc[w].ptr + 1 \in 1..(N + 1)
    BY ChainAssumption
  <2>. QED
    BY <1>8, <2>1 DEF Advance
<1>. QED
  BY <1>1, <1>6, <1>7, <1>8, <1>9, <1>10

LEMMA GotoTyped ==
  ASSUME TypeOK, NEW w \in Workers
  PROVE  \A l \in Label : Goto(w, l) => pc' \in [Workers -> Label]
<1>1. pc \in [Workers -> Label]
  BY DEF TypeOK
<1>. QED
  BY <1>1 DEF Goto

\* The same for the jobs of the queues ...
LEMMA JobUpdates ==
  ASSUME jobs \in [JobIds -> Job], NEW j \in JobIds
  PROVE  /\ \A x \in Job : [jobs EXCEPT ![j] = x] \in [JobIds -> Job]
         /\ Free \in Job
         /\ \A k \in JobKind, r \in Rows \cup {0} :
              Queued(k, r) \in Job /\ (Enqueue(j, k, r) => jobs' \in [JobIds -> Job])
         /\ \A s \in {"free", "waiting", "active", "dead"} :
              /\ [jobs EXCEPT ![j].state = s] \in [JobIds -> Job]
              /\ [jobs[j] EXCEPT !.stalls = 1, !.state = s] \in Job
              /\ [jobs[j] EXCEPT !.state = s] \in Job
<1>. USE DEF Job
<1>1. \A x \in Job : [jobs EXCEPT ![j] = x] \in [JobIds -> Job]
  OBVIOUS
<1>2. Free \in Job /\ \A k \in JobKind, r \in Rows \cup {0} : Queued(k, r) \in Job
  BY DEF Free, Queued, JobKind
<1>3. ASSUME NEW s \in {"free", "waiting", "active", "dead"}
      PROVE  /\ [jobs[j] EXCEPT !.stalls = 1, !.state = s] \in Job
             /\ [jobs[j] EXCEPT !.state = s] \in Job
  <2>1. \A x \in Job : [x EXCEPT !.state = s] \in Job
    OBVIOUS
  <2>2. [jobs[j] EXCEPT !.stalls = 1] \in Job
    OBVIOUS
  <2>. QED
    BY <2>1, <2>2
<1>. HIDE DEF Job
<1>4. \A s \in {"free", "waiting", "active", "dead"} :
        [jobs EXCEPT ![j].state = s] \in [JobIds -> Job]
  BY <1>1, <1>3
<1>5. \A k \in JobKind, r \in Rows \cup {0} : Enqueue(j, k, r) => jobs' \in [JobIds -> Job]
  BY <1>1, <1>2 DEF Enqueue
<1>. QED
  BY <1>1, <1>2, <1>3, <1>4, <1>5

\* ... and for the budget of the environment.
LEMMA BudgetUpdates ==
  ASSUME budget \in [EnvEvents -> Nat], NEW e \in EnvEvents, Spend(e)
  PROVE  budget' \in [EnvEvents -> Nat]
<1>1. budget[e] - 1 \in Nat
  BY DEF Spend
<1>. QED
  BY <1>1 DEF Spend
-------------------------------------------------------------------------------
\* Every action keeps the state typed; the last substeps of each are what the worker
\* that takes it must remember at its next label, and what the others remember.
LEMMA StepTyped == Typed /\ [Next]_vars => Typed'
<1> SUFFICES ASSUME Typed, [Next]_vars PROVE Typed'
  OBVIOUS
<1> USE ChainAssumption, NoJobAssumption, BudgetAssumption DEF Typed
<1>1. CASE Submit
  <2>1. TypeOK'
    <3>1. budget' \in [EnvEvents -> Nat]
      BY <1>1, BudgetUpdates DEF Submit, TypeOK, EnvEvents
    <3>2. PICK r \in Rows, k \in {"message", "end"}, j \in JobIds : Enqueue(j, k, r)
      BY <1>1 DEF Submit
    <3>3. jobs' \in [JobIds -> Job]
      <4>1. k \in JobKind /\ r \in Rows \cup {0}
        BY DEF JobKind
      <4>2. jobs \in [JobIds -> Job]
        BY DEF TypeOK
      <4>. QED
        BY <3>2, <4>1, <4>2, JobUpdates
    <3>. QED
      BY <1>1, <3>1, <3>3 DEF Submit, db, TypeOK
  <2>2. RowsInserted' /\ JobsAddressed'
    BY <1>1 DEF Submit, Spend, Enqueue, Queued, db, TypeOK, RowsInserted,
         JobsAddressed, Addressed
  <2>3. Placed'
    BY <1>1 DEF Submit, Spend, Enqueue, Queued, db, Placed, PlacedAt, Addressed
  <2> QED
    BY <2>1, <2>2, <2>3 DEF Typed
<1>2. CASE StopRead
  <2>1. TypeOK'
    <3>1. budget' \in [EnvEvents -> Nat]
      BY <1>2, BudgetUpdates DEF StopRead, TypeOK, EnvEvents
    <3>. QED
      BY <1>2, <3>1 DEF StopRead, db, TypeOK
  <2>2. RowsInserted' /\ JobsAddressed'
    BY <1>2 DEF StopRead, Spend, db, TypeOK, RowsInserted, JobsAddressed, Addressed
  <2>3. Placed'
    BY <1>2 DEF StopRead, Spend, db, Placed, PlacedAt, Addressed
  <2> QED
    BY <2>1, <2>2, <2>3 DEF Typed
<1>3. CASE StopActive
  <2>1. TypeOK'
    BY <1>3 DEF StopActive, clock, rows, TypeOK, Status, Terminal
  <2>2. RowsInserted' /\ JobsAddressed'
    BY <1>3 DEF StopActive, clock, rows, TypeOK, RowsInserted, JobsAddressed,
         Addressed
  <2>3. Placed'
    BY <1>3 DEF StopActive, clock, rows, Placed, PlacedAt, Addressed
  <2> QED
    BY <2>1, <2>2, <2>3 DEF Typed
<1>4. CASE StopWaiting
  <2>1. TypeOK'
    BY <1>4 DEF StopWaiting, Enqueue, Queued, db, TypeOK, Status, Job, JobKind
  <2>2. RowsInserted' /\ JobsAddressed'
    BY <1>4 DEF StopWaiting, Enqueue, Queued, db, TypeOK, RowsInserted,
         JobsAddressed, Addressed
  <2>3. Placed'
    BY <1>4 DEF StopWaiting, Enqueue, Queued, db, Placed, PlacedAt, Addressed
  <2> QED
    BY <2>1, <2>2, <2>3 DEF Typed
<1>5. CASE QueueWaitPasses
  <2>1. TypeOK'
    BY <1>5 DEF QueueWaitPasses, rows, env, TypeOK, Status, Terminal
  <2>2. RowsInserted' /\ JobsAddressed'
    BY <1>5 DEF QueueWaitPasses, rows, env, TypeOK, RowsInserted, JobsAddressed,
         Addressed
  <2>3. Placed'
    BY <1>5 DEF QueueWaitPasses, rows, env, Placed, PlacedAt, Addressed
  <2> QED
    BY <2>1, <2>2, <2>3 DEF Typed
<1>6. CASE StartedAges
  <2>1. TypeOK'
    <3>1. budget' \in [EnvEvents -> Nat]
      BY <1>6, BudgetUpdates DEF StartedAges, TypeOK, EnvEvents
    <3>. QED
      BY <1>6, <3>1 DEF StartedAges, rows, TypeOK
  <2>2. RowsInserted' /\ JobsAddressed'
    BY <1>6 DEF StartedAges, Spend, rows, TypeOK, RowsInserted, JobsAddressed,
         Addressed
  <2>3. Placed'
    BY <1>6 DEF StartedAges, Spend, rows, Placed, PlacedAt, Addressed
  <2> QED
    BY <2>1, <2>2, <2>3 DEF Typed
<1>7. CASE LoseJob
  <2>1. TypeOK'
    <3>1. budget' \in [EnvEvents -> Nat]
      BY <1>7, BudgetUpdates DEF LoseJob, TypeOK, EnvEvents
    <3>2. jobs' \in [JobIds -> Job]
      BY <1>7, JobUpdates DEF LoseJob, TypeOK
    <3>. QED
      BY <1>7, <3>1, <3>2 DEF LoseJob, db, TypeOK
  <2>2. RowsInserted' /\ JobsAddressed'
    BY <1>7 DEF LoseJob, Spend, Free, db, TypeOK, RowsInserted, JobsAddressed,
         Addressed
  <2>3. Placed'
    BY <1>7 DEF LoseJob, Spend, Free, db, Placed, PlacedAt, Addressed
  <2> QED
    BY <2>1, <2>2, <2>3 DEF Typed
<1>8. ASSUME NEW w \in Workers, NEW j \in JobIds, PickJob(w, j)
      PROVE  Typed'
  <2>0. Fresh(j, jobs[j].row) \in Local
    BY <1>8 DEF Fresh, Local, Job, TypeOK
  <2>1. loc' \in [Workers -> Local]
    BY <1>8, LocalUpdates, <2>0 DEF PickJob, TypeOK, Terminal
  <2>2. pc' \in [Workers -> Label]
    BY <1>8, GotoTyped DEF PickJob, Label
  <2>3. TypeOK'
    <3>1. jobs' \in [JobIds -> Job]
      BY <1>8, JobUpdates DEF PickJob, TypeOK
    <3>. QED
      BY <1>8, <2>1, <2>2, <3>1 DEF PickJob, db, env, TypeOK
  <2>4. RowsInserted' /\ JobsAddressed'
    BY <1>8 DEF PickJob, db, TypeOK, RowsInserted, JobsAddressed, Addressed, Job
  <2>5. PlacedAt(w)'
    <3>1. loc'[w].row = jobs[j].row
      BY <1>8 DEF PickJob, TypeOK, Fresh
    <3>2. pc'[w] \in {"read", "cancel", "claim"}
      BY <1>8 DEF PickJob, Goto, TypeOK
    <3>3. pc'[w] = "claim" => jobs[j].kind \in {"message", "end"}
      <4>1. jobs[j].kind \in JobKind /\ jobs[j].kind # "none"
        BY <1>8 DEF PickJob, TypeOK, Job, JobsAddressed
      <4>. QED
        BY <1>8, <4>1 DEF PickJob, Goto, TypeOK, JobKind
    <3>4. pc'[w] = "claim" => Addressed(loc[w].row)'
      BY <1>8, <3>1, <3>3 DEF PickJob, db, JobsAddressed, Addressed
    <3>. QED
      BY <3>2, <3>4 DEF PlacedAt, OnNode, OnRow, Announcing
  <2>6. \A v \in Workers \ {w} : PlacedAt(v)'
    BY <1>8 DEF PickJob, Goto, db, TypeOK, Placed, PlacedAt, Addressed
  <2> QED
    BY <2>3, <2>4, <2>5, <2>6 DEF Typed, Placed
<1>9. ASSUME NEW w \in Workers, NEW j \in JobIds, StalledExhausted(w, j)
      PROVE  Typed'
  <2>1. loc' \in [Workers -> Local]
    BY <1>9, LocalUpdates DEF StalledExhausted, TypeOK, Terminal
  <2>2. pc' \in [Workers -> Label]
    <3>1. (\E l \in Label : Goto(w, l)) \/ pc' = pc
      BY <1>9 DEF StalledExhausted, Label
    <3>. QED
      BY <3>1, GotoTyped DEF TypeOK
  <2>3. TypeOK'
    BY <1>9, <2>1, <2>2 DEF StalledExhausted, Free, clock, env, TypeOK, Status,
         NodeStatus, Job, JobKind, Placed, PlacedAt, Addressed, OnNode, OnRow, Terminal
  <2>4. RowsInserted' /\ JobsAddressed'
    BY <1>9 DEF StalledExhausted, Free, TypeOK, RowsInserted, JobsAddressed,
         Addressed, Placed, PlacedAt, OnNode, OnRow, Job
  <2>5. PlacedAt(w)'
    BY <1>9, <2>4 DEF StalledExhausted, Free, Say, Goto, TypeOK, Local, Blank,
         Placed, PlacedAt, Addressed, OnNode, OnRow, Announcing, Terminal, RowsInserted,
         JobsAddressed
  <2>6. \A v \in Workers \ {w} : PlacedAt(v)'
    BY <1>9 DEF StalledExhausted, Say, Goto, TypeOK, Placed, PlacedAt, Addressed,
         RowsInserted
  <2> QED
    BY <2>3, <2>4, <2>5, <2>6 DEF Typed, Placed
<1>10. ASSUME NEW w \in Workers, ReadExecution(w)
      PROVE  Typed'
  <2>1. loc' = loc
    BY <1>10 DEF ReadExecution, Goto, db, env
  <2>2. pc' \in [Workers -> Label]
    BY <1>10, GotoTyped DEF ReadExecution, Label
  <2>3. TypeOK'
    BY <1>10, <2>1, <2>2 DEF ReadExecution, db, env, TypeOK, Status, Terminal
  <2>4. RowsInserted' /\ JobsAddressed'
    BY <1>10 DEF ReadExecution, db, TypeOK, RowsInserted, JobsAddressed, Addressed
  <2>5. PlacedAt(w)'
    BY <1>10, <2>4 DEF ReadExecution, Goto, db, TypeOK, Local, Blank, Placed,
         PlacedAt, Addressed, OnNode, OnRow, Announcing, Terminal, RowsInserted
  <2>6. \A v \in Workers \ {w} : PlacedAt(v)'
    BY <1>10 DEF ReadExecution, Goto, db, TypeOK, Placed, PlacedAt, Addressed
  <2> QED
    BY <2>3, <2>4, <2>5, <2>6 DEF Typed, Placed
<1>11. ASSUME NEW w \in Workers, QueueWaitTimeout(w)
      PROVE  Typed'
  <2>1. loc' \in [Workers -> Local]
    BY <1>11, LocalUpdates DEF QueueWaitTimeout, TypeOK, Terminal
  <2>2. pc' \in [Workers -> Label]
    BY <1>11, GotoTyped DEF QueueWaitTimeout, GuardedStatus, Label
  <2>3. TypeOK'
    BY <1>11, <2>1, <2>2 DEF QueueWaitTimeout, GuardedStatus, clock, rows, env,
         TypeOK, Status, Terminal
  <2>4. RowsInserted' /\ JobsAddressed'
    BY <1>11 DEF QueueWaitTimeout, GuardedStatus, rows, TypeOK, RowsInserted,
         JobsAddressed, Addressed
  <2>5. PlacedAt(w)'
    BY <1>11, <2>4 DEF QueueWaitTimeout, GuardedStatus, Goto, Say, rows, TypeOK,
         Local, Blank, Placed, PlacedAt, Addressed, OnNode, OnRow, Announcing, Terminal,
         RowsInserted
  <2>6. \A v \in Workers \ {w} : PlacedAt(v)'
    BY <1>11 DEF QueueWaitTimeout, GuardedStatus, Goto, Say, rows, TypeOK, Placed,
         PlacedAt, Addressed
  <2> QED
    BY <2>3, <2>4, <2>5, <2>6 DEF Typed, Placed
<1>12. ASSUME NEW w \in Workers, Admit(w)
      PROVE  Typed'
  <2>1. loc' = loc
    BY <1>12 DEF Admit, Goto, rows, env
  <2>2. pc' \in [Workers -> Label]
    BY <1>12, GotoTyped DEF Admit, Label
  <2>3. TypeOK'
    BY <1>12, <2>1, <2>2 DEF Admit, rows, env, TypeOK, Status, Terminal
  <2>4. RowsInserted' /\ JobsAddressed'
    BY <1>12 DEF Admit, rows, TypeOK, RowsInserted, JobsAddressed, Addressed
  <2>5. PlacedAt(w)'
    BY <1>12, <2>4 DEF Admit, Goto, rows, TypeOK, Local, Blank, Placed, PlacedAt,
         Addressed, OnNode, OnRow, Announcing, Terminal, RowsInserted
  <2>6. \A v \in Workers \ {w} : PlacedAt(v)'
    BY <1>12 DEF Admit, Goto, rows, TypeOK, Placed, PlacedAt, Addressed
  <2> QED
    BY <2>3, <2>4, <2>5, <2>6 DEF Typed, Placed
<1>13. ASSUME NEW w \in Workers, Defer(w)
      PROVE  Typed'
  <2>1. loc' = loc
    BY <1>13 DEF Defer, Enqueue, Queued, Goto, db, env
  <2>2. pc' \in [Workers -> Label]
    BY <1>13, GotoTyped DEF Defer, Label
  <2>3. TypeOK'
    BY <1>13, <2>1, <2>2 DEF Defer, Enqueue, Queued, db, env, TypeOK, Status, Job,
         JobKind, Terminal
  <2>4. RowsInserted' /\ JobsAddressed'
    BY <1>13 DEF Defer, Enqueue, Queued, db, TypeOK, RowsInserted, JobsAddressed,
         Addressed, Job
  <2>5. PlacedAt(w)'
    BY <1>13, <2>4 DEF Defer, Enqueue, Queued, Goto, db, TypeOK, Local, Blank,
         Placed, PlacedAt, Addressed, OnNode, OnRow, Announcing, Terminal, RowsInserted
  <2>6. \A v \in Workers \ {w} : PlacedAt(v)'
    BY <1>13 DEF Defer, Goto, db, TypeOK, Placed, PlacedAt, Addressed
  <2> QED
    BY <2>3, <2>4, <2>5, <2>6 DEF Typed, Placed
<1>14. ASSUME NEW w \in Workers, Redrive(w)
      PROVE  Typed'
  <2>1. loc' = loc
    BY <1>14 DEF Redrive, Goto, db, env
  <2>2. pc' \in [Workers -> Label]
    BY <1>14, GotoTyped DEF Redrive, Label
  <2>3. TypeOK'
    BY <1>14, <2>1, <2>2 DEF Redrive, db, env, TypeOK, Status, Terminal
  <2>4. RowsInserted' /\ JobsAddressed'
    BY <1>14 DEF Redrive, db, TypeOK, RowsInserted, JobsAddressed, Addressed
  <2>5. PlacedAt(w)'
    BY <1>14, <2>4 DEF Redrive, Goto, db, TypeOK, Local, Blank, Placed, PlacedAt,
         Addressed, OnNode, OnRow, Announcing, Terminal, RowsInserted
  <2>6. \A v \in Workers \ {w} : PlacedAt(v)'
    BY <1>14 DEF Redrive, Goto, db, TypeOK, Placed, PlacedAt, Addressed
  <2> QED
    BY <2>3, <2>4, <2>5, <2>6 DEF Typed, Placed
<1>15. ASSUME NEW w \in Workers, FailOrphans(w)
      PROVE  Typed'
  <2>1. loc' = loc
    BY <1>15 DEF FailOrphans, Goto, clock, env
  <2>2. pc' \in [Workers -> Label]
    BY <1>15, GotoTyped DEF FailOrphans, Label
  <2>3. TypeOK'
    BY <1>15, <2>1, <2>2 DEF FailOrphans, clock, env, TypeOK, Status, NodeStatus,
         Placed, PlacedAt, Addressed, OnNode, OnRow, Terminal
  <2>4. RowsInserted' /\ JobsAddressed'
    BY <1>15 DEF FailOrphans, TypeOK, RowsInserted, JobsAddressed, Addressed,
         Placed, PlacedAt, OnNode, OnRow
  <2>5. PlacedAt(w)'
    BY <1>15, <2>4 DEF FailOrphans, Goto, TypeOK, Local, Blank, Placed, PlacedAt,
         Addressed, OnNode, OnRow, Announcing, Terminal, RowsInserted
  <2>6. \A v \in Workers \ {w} : PlacedAt(v)'
    BY <1>15 DEF FailOrphans, Goto, TypeOK, Placed, PlacedAt, Addressed,
         RowsInserted
  <2> QED
    BY <2>3, <2>4, <2>5, <2>6 DEF Typed, Placed
<1>16. ASSUME NEW w \in Workers, Rehydrate(w)
      PROVE  Typed'
  <2>1. loc' \in [Workers -> Local]
    BY <1>16, LocalUpdates DEF Rehydrate, TypeOK, Terminal
  <2>2. pc' \in [Workers -> Label]
    BY <1>16, GotoTyped DEF Rehydrate, Label
  <2>3. TypeOK'
    BY <1>16, <2>1, <2>2 DEF Rehydrate, db, env, TypeOK, Status
  <2>4. RowsInserted' /\ JobsAddressed'
    BY <1>16 DEF Rehydrate, db, TypeOK, RowsInserted, JobsAddressed, Addressed
  <2>5. PlacedAt(w)'
    BY <1>16, <2>4 DEF Rehydrate, Goto, db, TypeOK, Local, Blank, Placed, PlacedAt,
         Addressed, OnNode, OnRow, Announcing, Terminal, RowsInserted
  <2>6. \A v \in Workers \ {w} : PlacedAt(v)'
    BY <1>16 DEF Rehydrate, Goto, db, TypeOK, Placed, PlacedAt, Addressed
  <2> QED
    BY <2>3, <2>4, <2>5, <2>6 DEF Typed, Placed
<1>17. ASSUME NEW w \in Workers, RehydrationFails(w)
      PROVE  Typed'
  <2>1. loc' = loc
    BY <1>17 DEF RehydrationFails, Goto, db, env
  <2>2. pc' \in [Workers -> Label]
    BY <1>17, GotoTyped DEF RehydrationFails, Label
  <2>3. TypeOK'
    BY <1>17, <2>1, <2>2 DEF RehydrationFails, db, env, TypeOK, Status
  <2>4. RowsInserted' /\ JobsAddressed'
    BY <1>17 DEF RehydrationFails, db, TypeOK, RowsInserted, JobsAddressed,
         Addressed
  <2>5. PlacedAt(w)'
    BY <1>17, <2>4 DEF RehydrationFails, Goto, db, TypeOK, Local, Blank, Placed,
         PlacedAt, Addressed, OnNode, OnRow, Announcing, Terminal, RowsInserted
  <2>6. \A v \in Workers \ {w} : PlacedAt(v)'
    BY <1>17 DEF RehydrationFails, Goto, db, TypeOK, Placed, PlacedAt, Addressed
  <2> QED
    BY <2>3, <2>4, <2>5, <2>6 DEF Typed, Placed
<1>18. ASSUME NEW w \in Workers, LimitExceeded(w)
      PROVE  Typed'
  <2>1. loc' = loc
    BY <1>18 DEF LimitExceeded, Goto, db, env
  <2>2. pc' \in [Workers -> Label]
    BY <1>18, GotoTyped DEF LimitExceeded, Label
  <2>3. TypeOK'
    BY <1>18, <2>1, <2>2 DEF LimitExceeded, db, env, TypeOK, Status
  <2>4. RowsInserted' /\ JobsAddressed'
    BY <1>18 DEF LimitExceeded, db, TypeOK, RowsInserted, JobsAddressed, Addressed
  <2>5. PlacedAt(w)'
    BY <1>18, <2>4 DEF LimitExceeded, Goto, db, TypeOK, Local, Blank, Placed,
         PlacedAt, Addressed, OnNode, OnRow, Announcing, Terminal, RowsInserted
  <2>6. \A v \in Workers \ {w} : PlacedAt(v)'
    BY <1>18 DEF LimitExceeded, Goto, db, TypeOK, Placed, PlacedAt, Addressed
  <2> QED
    BY <2>3, <2>4, <2>5, <2>6 DEF Typed, Placed
<1>19. ASSUME NEW w \in Workers, Boundary(w)
      PROVE  Typed'
  <2>0. Advance(w) => loc[w].ptr \in Nodes
    BY <1>19 DEF Boundary, SaveRow, Placed, PlacedAt, OnNode
  <2>1. loc' \in [Workers -> Local]
    BY <1>19, LocalUpdates, <2>0 DEF Boundary, TypeOK, Terminal
  <2>2. pc' \in [Workers -> Label]
    <3>1. (\E l \in Label : Goto(w, l)) \/ pc' = pc
      BY <1>19 DEF Boundary, Label
    <3>. QED
      BY <3>1, GotoTyped DEF TypeOK
  <2>3. TypeOK'
    BY <1>19, <2>1, <2>2 DEF Boundary, db, env, TypeOK, Status, Terminal
  <2>4. RowsInserted' /\ JobsAddressed'
    BY <1>19 DEF Boundary, db, TypeOK, RowsInserted, JobsAddressed, Addressed
  <2>5. PlacedAt(w)'
    BY <1>19, <2>4 DEF Boundary, Goto, Advance, db, TypeOK, Local, Blank, Placed,
         PlacedAt, Addressed, OnNode, OnRow, Announcing, Terminal, RowsInserted
  <2>6. \A v \in Workers \ {w} : PlacedAt(v)'
    BY <1>19 DEF Boundary, Goto, Advance, db, TypeOK, Placed, PlacedAt, Addressed
  <2> QED
    BY <2>3, <2>4, <2>5, <2>6 DEF Typed, Placed
<1>20. ASSUME NEW w \in Workers, Complete(w)
      PROVE  Typed'
  <2>1. loc' \in [Workers -> Local]
    BY <1>20, LocalUpdates DEF Complete, TypeOK, Terminal
  <2>2. pc' \in [Workers -> Label]
    BY <1>20, GotoTyped DEF Complete, GuardedStatus, Label
  <2>3. TypeOK'
    BY <1>20, <2>1, <2>2 DEF Complete, GuardedStatus, clock, rows, env, TypeOK,
         Status
  <2>4. RowsInserted' /\ JobsAddressed'
    BY <1>20 DEF Complete, GuardedStatus, rows, TypeOK, RowsInserted, JobsAddressed,
         Addressed
  <2>5. PlacedAt(w)'
    BY <1>20, <2>4 DEF Complete, GuardedStatus, Goto, Say, rows, TypeOK, Local,
         Blank, Placed, PlacedAt, Addressed, OnNode, OnRow, Announcing, Terminal,
         RowsInserted
  <2>6. \A v \in Workers \ {w} : PlacedAt(v)'
    BY <1>20 DEF Complete, GuardedStatus, Goto, Say, rows, TypeOK, Placed, PlacedAt,
         Addressed
  <2> QED
    BY <2>3, <2>4, <2>5, <2>6 DEF Typed, Placed
<1>21. ASSUME NEW w \in Workers, FinalizeFailed(w)
      PROVE  Typed'
  <2>1. loc' \in [Workers -> Local]
    BY <1>21, LocalUpdates DEF FinalizeFailed, TypeOK, Terminal
  <2>2. pc' \in [Workers -> Label]
    BY <1>21, GotoTyped DEF FinalizeFailed, GuardedStatus, Label
  <2>3. TypeOK'
    BY <1>21, <2>1, <2>2 DEF FinalizeFailed, GuardedStatus, clock, rows, env,
         TypeOK, Status
  <2>4. RowsInserted' /\ JobsAddressed'
    BY <1>21 DEF FinalizeFailed, GuardedStatus, rows, TypeOK, RowsInserted,
         JobsAddressed, Addressed
  <2>5. PlacedAt(w)'
    BY <1>21, <2>4 DEF FinalizeFailed, GuardedStatus, Goto, Say, rows, TypeOK,
         Local, Blank, Placed, PlacedAt, Addressed, OnNode, OnRow, Announcing, Terminal,
         RowsInserted
  <2>6. \A v \in Workers \ {w} : PlacedAt(v)'
    BY <1>21 DEF FinalizeFailed, GuardedStatus, Goto, Say, rows, TypeOK, Placed,
         PlacedAt, Addressed
  <2> QED
    BY <2>3, <2>4, <2>5, <2>6 DEF Typed, Placed
<1>22. ASSUME NEW w \in Workers, FinalizeCancelled(w)
      PROVE  Typed'
  <2>1. loc' \in [Workers -> Local]
    BY <1>22, LocalUpdates DEF FinalizeCancelled, TypeOK, Terminal
  <2>2. pc' \in [Workers -> Label]
    BY <1>22, GotoTyped DEF FinalizeCancelled, GuardedStatus, Label
  <2>3. TypeOK'
    BY <1>22, <2>1, <2>2 DEF FinalizeCancelled, GuardedStatus, clock, rows, env,
         TypeOK, Status, Terminal
  <2>4. RowsInserted' /\ JobsAddressed'
    BY <1>22 DEF FinalizeCancelled, GuardedStatus, rows, TypeOK, RowsInserted,
         JobsAddressed, Addressed
  <2>5. PlacedAt(w)'
    BY <1>22, <2>4 DEF FinalizeCancelled, GuardedStatus, Goto, Say, rows, TypeOK,
         Local, Blank, Placed, PlacedAt, Addressed, OnNode, OnRow, Announcing, Terminal,
         RowsInserted
  <2>6. \A v \in Workers \ {w} : PlacedAt(v)'
    BY <1>22 DEF FinalizeCancelled, GuardedStatus, Goto, Say, rows, TypeOK, Placed,
         PlacedAt, Addressed
  <2> QED
    BY <2>3, <2>4, <2>5, <2>6 DEF Typed, Placed
<1>23. ASSUME NEW w \in Workers, CreateRow(w)
      PROVE  Typed'
  <2>1. loc' \in [Workers -> Local]
    BY <1>23, LocalUpdates DEF CreateRow, TypeOK, Terminal
  <2>2. pc' \in [Workers -> Label]
    BY <1>23, GotoTyped DEF CreateRow, Label
  <2>3. TypeOK'
    BY <1>23, <2>1, <2>2 DEF CreateRow, SetRow, clock, env, TypeOK, Status,
         NodeStatus, Placed, PlacedAt, Addressed, OnNode, OnRow, Terminal
  <2>4. RowsInserted' /\ JobsAddressed'
    BY <1>23 DEF CreateRow, SetRow, TypeOK, RowsInserted, JobsAddressed, Addressed,
         Placed, PlacedAt, OnNode, OnRow
  <2>5. PlacedAt(w)'
    BY <1>23, <2>4 DEF CreateRow, SetRow, Goto, TypeOK, Local, Blank, Placed,
         PlacedAt, Addressed, OnNode, OnRow, Announcing, Terminal, RowsInserted
  <2>6. \A v \in Workers \ {w} : PlacedAt(v)'
    BY <1>23 DEF CreateRow, SetRow, Goto, TypeOK, Placed, PlacedAt, Addressed,
         RowsInserted
  <2> QED
    BY <2>3, <2>4, <2>5, <2>6 DEF Typed, Placed
<1>24. ASSUME NEW w \in Workers, HandlerCompletes(w)
      PROVE  Typed'
  <2>1. loc' = loc
    BY <1>24 DEF HandlerCompletes, SaveRow, SetRow, clock, env, Goto
  <2>2. pc' \in [Workers -> Label]
    BY <1>24, GotoTyped DEF HandlerCompletes, Label
  <2>3. TypeOK'
    BY <1>24, <2>1, <2>2 DEF HandlerCompletes, SaveRow, SetRow, clock, env, TypeOK,
         Status, NodeStatus, Placed, PlacedAt, Addressed, OnNode, OnRow
  <2>4. RowsInserted' /\ JobsAddressed'
    BY <1>24 DEF HandlerCompletes, SaveRow, SetRow, TypeOK, RowsInserted,
         JobsAddressed, Addressed, Placed, PlacedAt, OnNode, OnRow
  <2>5. PlacedAt(w)'
    BY <1>24, <2>4 DEF HandlerCompletes, SaveRow, SetRow, Goto, TypeOK, Local,
         Blank, Placed, PlacedAt, Addressed, OnNode, OnRow, Announcing, Terminal,
         RowsInserted
  <2>6. \A v \in Workers \ {w} : PlacedAt(v)'
    BY <1>24 DEF HandlerCompletes, SaveRow, SetRow, Goto, TypeOK, Placed, PlacedAt,
         Addressed, RowsInserted
  <2> QED
    BY <2>3, <2>4, <2>5, <2>6 DEF Typed, Placed
<1>25. ASSUME NEW w \in Workers, HandlerBlocks(w)
      PROVE  Typed'
  <2>1. loc' = loc
    BY <1>25 DEF HandlerBlocks, SaveRow, SetRow, clock, env, Goto
  <2>2. pc' \in [Workers -> Label]
    BY <1>25, GotoTyped DEF HandlerBlocks, Label
  <2>3. TypeOK'
    BY <1>25, <2>1, <2>2 DEF HandlerBlocks, SaveRow, SetRow, clock, env, TypeOK,
         Status, NodeStatus, Placed, PlacedAt, Addressed, OnNode, OnRow
  <2>4. RowsInserted' /\ JobsAddressed'
    BY <1>25 DEF HandlerBlocks, SaveRow, SetRow, TypeOK, RowsInserted,
         JobsAddressed, Addressed, Placed, PlacedAt, OnNode, OnRow
  <2>5. PlacedAt(w)'
    BY <1>25, <2>4 DEF HandlerBlocks, SaveRow, SetRow, Goto, TypeOK, Local, Blank,
         Placed, PlacedAt, Addressed, OnNode, OnRow, Announcing, Terminal, RowsInserted
  <2>6. \A v \in Workers \ {w} : PlacedAt(v)'
    BY <1>25 DEF HandlerBlocks, SaveRow, SetRow, Goto, TypeOK, Placed, PlacedAt,
         Addressed, RowsInserted
  <2> QED
    BY <2>3, <2>4, <2>5, <2>6 DEF Typed, Placed
<1>26. ASSUME NEW w \in Workers, HandlerFails(w)
      PROVE  Typed'
  <2>0. Advance(w) => loc[w].ptr \in Nodes
    BY <1>26 DEF HandlerFails, SaveRow, Placed, PlacedAt, OnNode
  <2>1. loc' \in [Workers -> Local]
    BY <1>26, LocalUpdates, <2>0 DEF HandlerFails, SaveRow, TypeOK, Terminal
  <2>2. pc' \in [Workers -> Label]
    BY <1>26, GotoTyped DEF HandlerFails, Label
  <2>3. TypeOK'
    BY <1>26, <2>1, <2>2 DEF HandlerFails, SaveRow, SetRow, clock, env, TypeOK,
         Status, NodeStatus, Placed, PlacedAt, Addressed, OnNode, OnRow
  <2>4. RowsInserted' /\ JobsAddressed'
    BY <1>26 DEF HandlerFails, SaveRow, SetRow, TypeOK, RowsInserted, JobsAddressed,
         Addressed, Placed, PlacedAt, OnNode, OnRow
  <2>5. PlacedAt(w)'
    BY <1>26, <2>4 DEF HandlerFails, SaveRow, SetRow, Goto, Advance, TypeOK, Local,
         Blank, Placed, PlacedAt, Addressed, OnNode, OnRow, Announcing, Terminal,
         RowsInserted
  <2>6. \A v \in Workers \ {w} : PlacedAt(v)'
    BY <1>26 DEF HandlerFails, SaveRow, SetRow, Goto, Advance, TypeOK, Placed,
         PlacedAt, Addressed, RowsInserted
  <2> QED
    BY <2>3, <2>4, <2>5, <2>6 DEF Typed, Placed
<1>27. ASSUME NEW w \in Workers, AppendPath(w)
      PROVE  Typed'
  <2>0. Advance(w) => loc[w].ptr \in Nodes
    BY <1>27 DEF AppendPath, SaveRow, Placed, PlacedAt, OnNode
  <2>1. loc' \in [Workers -> Local]
    BY <1>27, LocalUpdates, <2>0 DEF AppendPath, TypeOK, Terminal
  <2>2. pc' \in [Workers -> Label]
    BY <1>27, GotoTyped DEF AppendPath, Label
  <2>3. TypeOK'
    <3>1. nodeLog' \subseteq Nodes
      <4>1. loc[w].ptr \in Nodes
        BY <1>27 DEF AppendPath, Placed, PlacedAt, OnNode
      <4>2. nodeLog \subseteq Nodes /\ nodeLog' \in {nodeLog, nodeLog \cup {loc[w].ptr}}
        BY <1>27 DEF AppendPath, TypeOK
      <4>. QED
        BY <4>1, <4>2
    <3>. QED
      BY <1>27, <2>1, <2>2, <3>1 DEF AppendPath, clock, rows, env, TypeOK
  <2>4. RowsInserted' /\ JobsAddressed'
    BY <1>27 DEF AppendPath, rows, TypeOK, RowsInserted, JobsAddressed, Addressed
  <2>5. PlacedAt(w)'
    BY <1>27, <2>4 DEF AppendPath, Goto, Advance, rows, TypeOK, Local, Blank,
         Placed, PlacedAt, Addressed, OnNode, OnRow, Announcing, Terminal, RowsInserted
  <2>6. \A v \in Workers \ {w} : PlacedAt(v)'
    BY <1>27 DEF AppendPath, Goto, Advance, rows, TypeOK, Placed, PlacedAt,
         Addressed
  <2> QED
    BY <2>3, <2>4, <2>5, <2>6 DEF Typed, Placed
<1>28. ASSUME NEW w \in Workers, Park(w)
      PROVE  Typed'
  <2>1. loc' \in [Workers -> Local]
    <3>1. PICK r \in Rows : IF NonTerminal THEN WaitTogether(w, r) ELSE Refused(w, r)
      BY <1>28 DEF Park
    <3>2. loc' = loc \/ loc' = [loc EXCEPT ![w].row = r]
      BY <3>1 DEF WaitTogether, Refused
    <3>3. loc \in [Workers -> Local] /\ r \in Rows \cup {0}
      BY DEF TypeOK
    <3>4. [loc EXCEPT ![w].row = r] \in [Workers -> Local]
      BY <3>3, LocalUpdates
    <3>. QED
      BY <3>2, <3>3, <3>4
  <2>2. pc' \in [Workers -> Label]
    BY <1>28, GotoTyped DEF Park, IsLatest, WaitTogether, SetRow, Refused, clock, env, Label
  <2>3. TypeOK'
    BY <1>28, <2>1, <2>2 DEF Park, WaitTogether, SetRow, Refused, clock, env,
         TypeOK, Status, NodeStatus, Placed, PlacedAt, Addressed, OnNode, OnRow
  <2>4. RowsInserted' /\ JobsAddressed'
    BY <1>28 DEF Park, IsLatest, WaitTogether, SetRow, Refused, TypeOK,
         RowsInserted, JobsAddressed, Addressed, Placed, PlacedAt, OnNode, OnRow
  <2>5. PlacedAt(w)'
    BY <1>28, <2>4 DEF Park, IsLatest, WaitTogether, SetRow, Goto, Refused, clock,
         env, TypeOK, Local, Fresh, Blank, Placed, PlacedAt, Addressed, OnNode, OnRow,
         Announcing, Terminal, RowsInserted
  <2>6. \A v \in Workers \ {w} : PlacedAt(v)'
    BY <1>28 DEF Park, IsLatest, WaitTogether, SetRow, Goto, Refused, TypeOK,
         Placed, PlacedAt, Addressed, RowsInserted
  <2> QED
    BY <2>3, <2>4, <2>5, <2>6 DEF Typed, Placed
<1>29. ASSUME NEW w \in Workers, MarkNodeCancelled(w)
      PROVE  Typed'
  <2>1. loc' = loc
    BY <1>29 DEF MarkNodeCancelled, SetRow, Goto, clock, env
  <2>2. pc' \in [Workers -> Label]
    BY <1>29, GotoTyped DEF MarkNodeCancelled, Label
  <2>3. TypeOK'
    BY <1>29, <2>1, <2>2 DEF MarkNodeCancelled, SetRow, clock, env, TypeOK, Status,
         NodeStatus, Placed, PlacedAt, Addressed, OnNode, OnRow, Terminal
  <2>4. RowsInserted' /\ JobsAddressed'
    BY <1>29 DEF MarkNodeCancelled, SetRow, TypeOK, RowsInserted, JobsAddressed,
         Addressed, Placed, PlacedAt, OnNode, OnRow
  <2>5. PlacedAt(w)'
    BY <1>29, <2>4 DEF MarkNodeCancelled, SetRow, Goto, TypeOK, Local, Blank,
         Placed, PlacedAt, Addressed, OnNode, OnRow, Announcing, Terminal, RowsInserted
  <2>6. \A v \in Workers \ {w} : PlacedAt(v)'
    BY <1>29 DEF MarkNodeCancelled, SetRow, Goto, TypeOK, Placed, PlacedAt,
         Addressed, RowsInserted
  <2> QED
    BY <2>3, <2>4, <2>5, <2>6 DEF Typed, Placed
<1>30. ASSUME NEW w \in Workers, Claim(w)
      PROVE  Typed'
  <2>1. loc' = loc
    BY <1>30 DEF Claim, SetRow, Goto, clock, env
  <2>2. pc' \in [Workers -> Label]
    BY <1>30, GotoTyped DEF Claim, Label
  <2>3. TypeOK'
    BY <1>30, <2>1, <2>2 DEF Claim, SetRow, clock, env, TypeOK, Status, NodeStatus,
         Placed, PlacedAt, Addressed, OnNode, OnRow, Terminal
  <2>4. RowsInserted' /\ JobsAddressed'
    BY <1>30 DEF Claim, SetRow, TypeOK, RowsInserted, JobsAddressed, Addressed,
         Placed, PlacedAt, OnNode, OnRow
  <2>5. PlacedAt(w)'
    BY <1>30, <2>4 DEF Claim, SetRow, Goto, TypeOK, Local, Blank, Placed, PlacedAt,
         Addressed, OnNode, OnRow, Announcing, Terminal, RowsInserted
  <2>6. \A v \in Workers \ {w} : PlacedAt(v)'
    BY <1>30 DEF Claim, SetRow, Goto, TypeOK, Placed, PlacedAt, Addressed,
         RowsInserted
  <2> QED
    BY <2>3, <2>4, <2>5, <2>6 DEF Typed, Placed
<1>31. ASSUME NEW w \in Workers, LoadResume(w)
      PROVE  Typed'
  <2>0. rowNode[loc[w].row] \in 1..(N + 1)
    BY <1>31 DEF LoadResume, TypeOK, Placed, PlacedAt, Addressed, OnRow
  <2>1. loc' \in [Workers -> Local]
    <3>1. \/ loc' = [loc EXCEPT ![w].ptr = rowNode[loc[w].row]]
          \/ loc' = [loc EXCEPT ![w].row = 0]
      BY <1>31 DEF LoadResume
    <3>2. loc \in [Workers -> Local] /\ 0 \in Rows \cup {0}
      BY DEF TypeOK
    <3>3. CASE loc' = [loc EXCEPT ![w].ptr = rowNode[loc[w].row]]
      BY <2>0, <3>2, <3>3, LocalUpdates
    <3>4. CASE loc' = [loc EXCEPT ![w].row = 0]
      BY <3>2, <3>4, LocalUpdates
    <3>. QED
      BY <3>1, <3>3, <3>4
  <2>2. pc' \in [Workers -> Label]
    <3>1. \E l \in {"turn", "reclaim", "unresumable"} : Goto(w, l)
      BY <1>31 DEF LoadResume
    <3>. QED
      BY <3>1 DEF Goto, TypeOK, Label
  <2>3. TypeOK'
    BY <1>31, <2>1, <2>2 DEF LoadResume, db, env, TypeOK, Status, Terminal
  <2>4. RowsInserted' /\ JobsAddressed'
    BY <1>31 DEF LoadResume, db, TypeOK, RowsInserted, JobsAddressed, Addressed
  <2>5. PlacedAt(w)'
    <3>1. CASE loc' = [loc EXCEPT ![w].ptr = rowNode[loc[w].row]]
               /\ pc'[w] \in {"turn", "reclaim"}
      <4>1. rowNode[loc[w].row] \in Nodes /\ Addressed(loc[w].row)
        BY <1>31 DEF LoadResume, TypeOK, Placed, PlacedAt, Addressed, OnRow
      <4>2. loc'[w].ptr = rowNode[loc[w].row] /\ loc'[w].row = loc[w].row
        BY <3>1 DEF TypeOK, Local
      <4>3. rowNode' = rowNode
        BY <1>31 DEF LoadResume, db
      <4> QED
        BY <3>1, <4>1, <4>2, <4>3 DEF PlacedAt, Addressed, Announcing
    <3>2. CASE pc'[w] = "unresumable"
      BY <3>2 DEF PlacedAt, OnNode, OnRow, Announcing
    <3> QED
      BY <1>31, <3>1, <3>2 DEF LoadResume, Goto, TypeOK
  <2>6. \A v \in Workers \ {w} : PlacedAt(v)'
    BY <1>31 DEF LoadResume, Goto, db, TypeOK, Placed, PlacedAt, Addressed
  <2> QED
    BY <2>3, <2>4, <2>5, <2>6 DEF Typed, Placed
<1>32. ASSUME NEW w \in Workers, ReclaimRunning(w)
      PROVE  Typed'
  <2>1. loc' = loc
    BY <1>32 DEF ReclaimRunning, GuardedStatus, Goto, clock, rows, env
  <2>2. pc' \in [Workers -> Label]
    BY <1>32, GotoTyped DEF ReclaimRunning, GuardedStatus, Label
  <2>3. TypeOK'
    BY <1>32, <2>1, <2>2 DEF ReclaimRunning, GuardedStatus, clock, rows, env,
         TypeOK, Status
  <2>4. RowsInserted' /\ JobsAddressed'
    BY <1>32 DEF ReclaimRunning, GuardedStatus, rows, TypeOK, RowsInserted,
         JobsAddressed, Addressed
  <2>5. PlacedAt(w)'
    BY <1>32, <2>4 DEF ReclaimRunning, GuardedStatus, Goto, rows, TypeOK, Local,
         Blank, Placed, PlacedAt, Addressed, OnNode, OnRow, Announcing, Terminal,
         RowsInserted
  <2>6. \A v \in Workers \ {w} : PlacedAt(v)'
    BY <1>32 DEF ReclaimRunning, GuardedStatus, Goto, rows, TypeOK, Placed,
         PlacedAt, Addressed
  <2> QED
    BY <2>3, <2>4, <2>5, <2>6 DEF Typed, Placed
<1>33. ASSUME NEW w \in Workers, FormTurn(w)
      PROVE  Typed'
  <2>0. Advance(w) => loc[w].ptr \in Nodes
    BY <1>33 DEF FormTurn, SaveRow, Placed, PlacedAt, OnNode
  <2>1. loc' \in [Workers -> Local]
    BY <1>33, LocalUpdates, <2>0 DEF FormTurn, TypeOK, Terminal
  <2>2. pc' \in [Workers -> Label]
    BY <1>33, GotoTyped DEF FormTurn, Label
  <2>3. TypeOK'
    BY <1>33, <2>1, <2>2 DEF FormTurn, SetRow, clock, env, TypeOK, Status,
         NodeStatus, Placed, PlacedAt, Addressed, OnNode, OnRow, Terminal
  <2>4. RowsInserted' /\ JobsAddressed'
    BY <1>33 DEF FormTurn, IsLatest, SetRow, TypeOK, RowsInserted, JobsAddressed,
         Addressed, Placed, PlacedAt, OnNode, OnRow
  <2>5. PlacedAt(w)'
    BY <1>33, <2>4 DEF FormTurn, SetRow, Advance, Goto, TypeOK, Local, Blank,
         Placed, PlacedAt, Addressed, OnNode, OnRow, Announcing, Terminal, RowsInserted
  <2>6. \A v \in Workers \ {w} : PlacedAt(v)'
    BY <1>33 DEF FormTurn, IsLatest, SetRow, Advance, Goto, TypeOK, Placed,
         PlacedAt, Addressed, RowsInserted
  <2> QED
    BY <2>3, <2>4, <2>5, <2>6 DEF Typed, Placed
<1>34. ASSUME NEW w \in Workers, AiTurnStarts(w)
      PROVE  Typed'
  <2>1. loc' = loc
    BY <1>34 DEF AiTurnStarts, Goto, KindOf, db, env
  <2>2. pc' \in [Workers -> Label]
    BY <1>34, GotoTyped DEF AiTurnStarts, Label
  <2>3. TypeOK'
    BY <1>34, <2>1, <2>2 DEF AiTurnStarts, db, env, TypeOK, Status, Terminal
  <2>4. RowsInserted' /\ JobsAddressed'
    BY <1>34 DEF AiTurnStarts, db, TypeOK, RowsInserted, JobsAddressed, Addressed
  <2>5. PlacedAt(w)'
    BY <1>34, <2>4 DEF AiTurnStarts, Goto, db, TypeOK, Local, Blank, Placed,
         PlacedAt, Addressed, OnNode, OnRow, Announcing, Terminal, RowsInserted
  <2>6. \A v \in Workers \ {w} : PlacedAt(v)'
    BY <1>34 DEF AiTurnStarts, Goto, db, TypeOK, Placed, PlacedAt, Addressed
  <2> QED
    BY <2>3, <2>4, <2>5, <2>6 DEF Typed, Placed
<1>35. ASSUME NEW w \in Workers, AiTurnEnds(w)
      PROVE  Typed'
  <2>1. loc' \in [Workers -> Local]
    <3>1. \/ loc' = loc
          \/ Advance(w)
          \/ loc' = [loc EXCEPT ![w].row = loc[w].row]
      BY <1>35 DEF AiTurnEnds, WaitTogether, Refused
    <3>2. loc[w].row \in Rows /\ loc[w].ptr \in Nodes
      BY <1>35 DEF AiTurnEnds, Placed, PlacedAt, Addressed, OnRow, OnNode
    <3>3. loc \in [Workers -> Local] /\ loc[w].row \in Rows \cup {0}
      BY <3>2 DEF TypeOK
    <3>4. CASE Advance(w)
      BY <3>2, <3>3, <3>4, LocalUpdates
    <3>5. CASE loc' = [loc EXCEPT ![w].row = loc[w].row]
      BY <3>3, <3>5, LocalUpdates
    <3>. QED
      BY <3>1, <3>3, <3>4, <3>5
  <2>2. pc' \in [Workers -> Label]
    <3>1. \E l \in {"ack", "boundary", "finalizeFailed", "markNode"} : Goto(w, l)
      BY <1>35 DEF AiTurnEnds, WaitTogether, Refused
    <3>. QED
      BY <3>1 DEF Goto, TypeOK, Label
  <2>3. TypeOK'
    BY <1>35, <2>1, <2>2 DEF AiTurnEnds, WaitTogether, SetRow, Refused, clock, env,
         TypeOK, Status, NodeStatus, Placed, PlacedAt, Addressed, OnNode, OnRow, Terminal
  <2>4. RowsInserted' /\ JobsAddressed'
    BY <1>35 DEF AiTurnEnds, WaitTogether, SetRow, Refused, TypeOK, RowsInserted,
         JobsAddressed, Addressed, Placed, PlacedAt, OnNode, OnRow
  <2>5. PlacedAt(w)'
    BY <1>35, <2>4 DEF AiTurnEnds, WaitTogether, SetRow, Goto, Advance, Refused,
         TypeOK, Local, Blank, Placed, PlacedAt, Addressed, OnNode, OnRow, Announcing,
         Terminal, RowsInserted
  <2>6. \A v \in Workers \ {w} : PlacedAt(v)'
    BY <1>35 DEF AiTurnEnds, WaitTogether, SetRow, Goto, Advance, Refused, TypeOK,
         Placed, PlacedAt, Addressed, RowsInserted
  <2> QED
    BY <2>3, <2>4, <2>5, <2>6 DEF Typed, Placed
<1>36. ASSUME NEW w \in Workers, MarkExecutionCancelled(w)
      PROVE  Typed'
  <2>1. loc' \in [Workers -> Local]
    BY <1>36, LocalUpdates DEF
        MarkExecutionCancelled, TypeOK, Terminal
  <2>2. pc' \in [Workers -> Label]
    BY <1>36, GotoTyped DEF MarkExecutionCancelled, GuardedStatus, Label
  <2>3. TypeOK'
    BY <1>36, <2>1, <2>2 DEF MarkExecutionCancelled, GuardedStatus, clock, rows,
         env, TypeOK, Status, Terminal
  <2>4. RowsInserted' /\ JobsAddressed'
    BY <1>36 DEF MarkExecutionCancelled, GuardedStatus, rows, TypeOK, RowsInserted,
         JobsAddressed, Addressed
  <2>5. PlacedAt(w)'
    BY <1>36, <2>4 DEF MarkExecutionCancelled, GuardedStatus, Goto, Say, rows,
         TypeOK, Local, Blank, Placed, PlacedAt, Addressed, OnNode, OnRow, Announcing,
         Terminal, RowsInserted
  <2>6. \A v \in Workers \ {w} : PlacedAt(v)'
    BY <1>36 DEF MarkExecutionCancelled, GuardedStatus, Goto, Say, rows, TypeOK,
         Placed, PlacedAt, Addressed
  <2> QED
    BY <2>3, <2>4, <2>5, <2>6 DEF Typed, Placed
<1>37. ASSUME NEW w \in Workers, MarkNodeFailed(w)
      PROVE  Typed'
  <2>1. loc' = loc
    BY <1>37 DEF MarkNodeFailed, SetRow, Goto, clock, env
  <2>2. pc' \in [Workers -> Label]
    BY <1>37, GotoTyped DEF MarkNodeFailed, Label
  <2>3. TypeOK'
    BY <1>37, <2>1, <2>2 DEF MarkNodeFailed, SetRow, clock, env, TypeOK, Status,
         NodeStatus, Placed, PlacedAt, Addressed, OnNode, OnRow, Terminal
  <2>4. RowsInserted' /\ JobsAddressed'
    BY <1>37 DEF MarkNodeFailed, SetRow, TypeOK, RowsInserted, JobsAddressed,
         Addressed, Placed, PlacedAt, OnNode, OnRow
  <2>5. PlacedAt(w)'
    BY <1>37, <2>4 DEF MarkNodeFailed, SetRow, Goto, TypeOK, Local, Blank, Placed,
         PlacedAt, Addressed, OnNode, OnRow, Announcing, Terminal, RowsInserted
  <2>6. \A v \in Workers \ {w} : PlacedAt(v)'
    BY <1>37 DEF MarkNodeFailed, SetRow, Goto, TypeOK, Placed, PlacedAt, Addressed,
         RowsInserted
  <2> QED
    BY <2>3, <2>4, <2>5, <2>6 DEF Typed, Placed
<1>38. ASSUME NEW w \in Workers, CancelParked(w)
      PROVE  Typed'
  <2>1. loc' \in [Workers -> Local]
    BY <1>38, LocalUpdates DEF CancelParked, TypeOK, Terminal
  <2>2. pc' \in [Workers -> Label]
    BY <1>38, GotoTyped DEF CancelParked, GuardedStatus, Label
  <2>3. TypeOK'
    BY <1>38, <2>1, <2>2 DEF CancelParked, GuardedStatus, clock, env, TypeOK,
         Status, NodeStatus, Placed, PlacedAt, Addressed, OnNode, OnRow, Terminal
  <2>4. RowsInserted' /\ JobsAddressed'
    BY <1>38 DEF CancelParked, GuardedStatus, TypeOK, RowsInserted, JobsAddressed,
         Addressed, Placed, PlacedAt, OnNode, OnRow
  <2>5. PlacedAt(w)'
    BY <1>38, <2>4 DEF CancelParked, GuardedStatus, Goto, Say, TypeOK, Local, Blank,
         Placed, PlacedAt, Addressed, OnNode, OnRow, Announcing, Terminal, RowsInserted
  <2>6. \A v \in Workers \ {w} : PlacedAt(v)'
    BY <1>38 DEF CancelParked, GuardedStatus, Goto, Say, TypeOK, Placed, PlacedAt,
         Addressed, RowsInserted
  <2> QED
    BY <2>3, <2>4, <2>5, <2>6 DEF Typed, Placed
<1>39. ASSUME NEW w \in Workers, Announce(w)
      PROVE  Typed'
  <2>1. loc' = loc
    BY <1>39 DEF Announce, Goto, db, env
  <2>2. pc' \in [Workers -> Label]
    BY <1>39, GotoTyped DEF Announce, Label
  <2>3. TypeOK'
    BY <1>39, <2>1, <2>2 DEF Announce, Goto, db, env, TypeOK, Status, Placed,
         PlacedAt, Addressed, OnNode, OnRow, Announcing
  <2>4. RowsInserted' /\ JobsAddressed'
    BY <1>39 DEF Announce, db, TypeOK, RowsInserted, JobsAddressed, Addressed
  <2>5. PlacedAt(w)'
    BY <1>39, <2>4 DEF Announce, Goto, db, TypeOK, Local, Blank, Placed, PlacedAt,
         Addressed, OnNode, OnRow, Announcing, Terminal, RowsInserted
  <2>6. \A v \in Workers \ {w} : PlacedAt(v)'
    BY <1>39 DEF Announce, Goto, db, TypeOK, Placed, PlacedAt, Addressed
  <2> QED
    BY <2>3, <2>4, <2>5, <2>6 DEF Typed, Placed
<1>40. ASSUME NEW w \in Workers, Ack(w)
      PROVE  Typed'
  <2>0. Blank \in Local
    BY DEF Blank, Fresh, Local
  <2>1. loc' \in [Workers -> Local]
    BY <1>40, LocalUpdates, <2>0 DEF Ack, TypeOK, Terminal
  <2>2. pc' \in [Workers -> Label]
    BY <1>40, GotoTyped DEF Ack, Label
  <2>3. TypeOK'
    BY <1>40, <2>1, <2>2 DEF Ack, Free, db, env, TypeOK, Status, Job, JobKind
  <2>4. RowsInserted' /\ JobsAddressed'
    BY <1>40 DEF Ack, Free, db, TypeOK, RowsInserted, JobsAddressed, Addressed, Job
  <2>5. PlacedAt(w)'
    BY <1>40, <2>4 DEF Ack, Free, Blank, Goto, db, TypeOK, Local, Placed, PlacedAt,
         Addressed, OnNode, OnRow, Announcing, Terminal, RowsInserted, JobsAddressed
  <2>6. \A v \in Workers \ {w} : PlacedAt(v)'
    BY <1>40 DEF Ack, Blank, Goto, db, TypeOK, Placed, PlacedAt, Addressed
  <2> QED
    BY <2>3, <2>4, <2>5, <2>6 DEF Typed, Placed
<1>41. ASSUME NEW w \in Workers, RecoverStuckRunning(w)
      PROVE  Typed'
  <2>0. Blank \in Local
    BY DEF Blank, Fresh, Local
  <2>1. loc' \in [Workers -> Local]
    BY <1>41, LocalUpdates, <2>0 DEF
        RecoverStuckRunning, TypeOK, Terminal
  <2>2. pc' \in [Workers -> Label]
    BY <1>41, GotoTyped DEF RecoverStuckRunning, Label
  <2>3. TypeOK'
    BY <1>41, <2>1, <2>2 DEF RecoverStuckRunning, rows, env, TypeOK, Status,
         Terminal
  <2>4. RowsInserted' /\ JobsAddressed'
    BY <1>41 DEF RecoverStuckRunning, rows, TypeOK, RowsInserted, JobsAddressed,
         Addressed
  <2>5. PlacedAt(w)'
    BY <1>41, <2>4 DEF RecoverStuckRunning, Blank, Goto, rows, TypeOK, Local,
         Placed, PlacedAt, Addressed, OnNode, OnRow, Announcing, Terminal, RowsInserted
  <2>6. \A v \in Workers \ {w} : PlacedAt(v)'
    BY <1>41 DEF RecoverStuckRunning, Blank, Goto, rows, TypeOK, Placed, PlacedAt,
         Addressed
  <2> QED
    BY <2>3, <2>4, <2>5, <2>6 DEF Typed, Placed
<1>42. ASSUME NEW w \in Workers, RecoverOrphanPending(w)
      PROVE  Typed'
  <2>1. loc' \in [Workers -> Local]
    BY <1>42, LocalUpdates DEF
        RecoverOrphanPending, TypeOK, Terminal
  <2>2. pc' \in [Workers -> Label]
    BY <1>42, GotoTyped DEF RecoverOrphanPending, Label
  <2>3. TypeOK'
    BY <1>42, <2>1, <2>2 DEF RecoverOrphanPending, clock, rows, env, TypeOK, Status,
         Terminal
  <2>4. RowsInserted' /\ JobsAddressed'
    BY <1>42 DEF RecoverOrphanPending, rows, TypeOK, RowsInserted, JobsAddressed,
         Addressed
  <2>5. PlacedAt(w)'
    BY <1>42, <2>4 DEF RecoverOrphanPending, Say, Goto, rows, TypeOK, Local, Blank,
         Placed, PlacedAt, Addressed, OnNode, OnRow, Announcing, Terminal, RowsInserted
  <2>6. \A v \in Workers \ {w} : PlacedAt(v)'
    BY <1>42 DEF RecoverOrphanPending, Say, Goto, rows, TypeOK, Placed, PlacedAt,
         Addressed
  <2> QED
    BY <2>3, <2>4, <2>5, <2>6 DEF Typed, Placed
<1>43. ASSUME NEW w \in Workers, Crash(w)
      PROVE  Typed'
  <2>0. Blank \in Local
    BY DEF Blank, Fresh, Local
  <2>1. loc' \in [Workers -> Local]
    BY <1>43, LocalUpdates, <2>0 DEF Crash, TypeOK, Terminal
  <2>2. pc' \in [Workers -> Label]
    BY <1>43, GotoTyped DEF Crash, Label
  <2>3. TypeOK'
    <3>1. budget' \in [EnvEvents -> Nat]
      BY <1>43, BudgetUpdates DEF Crash, TypeOK, EnvEvents
    <3>2. jobs' \in [JobIds -> Job]
      <4>1. \A j \in JobIds : jobs'[j] \in Job
        BY <1>43, JobUpdates DEF Crash, TypeOK
      <4>. QED
        BY <1>43, <4>1 DEF Crash
    <3>. QED
      BY <1>43, <2>1, <2>2, <3>1, <3>2 DEF Crash, db, TypeOK
  <2>4. RowsInserted' /\ JobsAddressed'
    <3>1. \A j \in JobIds :
            \/ jobs'[j] \in {jobs[j], Free}
            \/ /\ jobs[j].state = "active"
               /\ jobs'[j].kind = jobs[j].kind /\ jobs'[j].row = jobs[j].row
      BY <1>43 DEF Crash, TypeOK, Job
    <3>2. \A j \in JobIds : jobs'[j].state \in {"waiting", "active"} => jobs'[j].kind # "none"
      BY <3>1 DEF JobsAddressed, Free
    <3>3. \A j \in JobIds : jobs'[j].kind \in {"message", "end"} => Addressed(jobs'[j].row)
      BY <3>1 DEF JobsAddressed, Free
    <3>. QED
      BY <1>43, <3>2, <3>3 DEF Crash, db, RowsInserted, JobsAddressed, Addressed
  <2>5. PlacedAt(w)'
    BY <1>43, <2>4 DEF Crash, Free, Blank, Goto, db, TypeOK, Local, Placed,
         PlacedAt, Addressed, OnNode, OnRow, Announcing, Terminal, RowsInserted,
         JobsAddressed
  <2>6. \A v \in Workers \ {w} : PlacedAt(v)'
    BY <1>43 DEF Crash, Blank, Goto, db, TypeOK, Placed, PlacedAt, Addressed
  <2> QED
    BY <2>3, <2>4, <2>5, <2>6 DEF Typed, Placed
<1>44. CASE UNCHANGED vars
  BY <1>44 DEF vars, db, rows, clock, env, TypeOK, RowsInserted, JobsAddressed,
       Addressed, Placed, PlacedAt
<1> QED
  BY <1>1, <1>2, <1>3, <1>4, <1>5, <1>6, <1>7, <1>8, <1>9, <1>10, <1>11,
        <1>12, <1>13, <1>14, <1>15, <1>16, <1>17, <1>18, <1>19, <1>20, <1>21, <1>22,
        <1>23, <1>24, <1>25, <1>26, <1>27, <1>28, <1>29, <1>30, <1>31, <1>32, <1>33,
        <1>34, <1>35, <1>36, <1>37, <1>38, <1>39, <1>40, <1>41, <1>42, <1>43, <1>44
     DEF Next, Environment, Work, Recovery

\* Whatever crashes, repeats or is lost, the state keeps its shape and a worker
\* acts only on a node of the chain and on a row that was inserted: the run
\* processor, the resume path and the dispatch loop need no check beyond those they
\* make.
THEOREM TypeCorrect == Spec => []TypeOK
<1>1. Typed => TypeOK
  BY DEF Typed
<1>. QED
  BY <1>1, InitTyped, StepTyped, PTL DEF Spec
-------------------------------------------------------------------------------
USE DEF Terminal

LEMMA TerminalStatuses ==
  exec \in Terminal =>
    ~NonTerminal /\ exec \notin {"pending", "running", "waiting_for_input"}
BY DEF NonTerminal, nonTerminalStatuses

\* Only a cancelled execution is written again once it has ended, as cancelled.
LEMMA StepTerminalIsFinal ==
  ASSUME [Next]_vars, exec \in Terminal
  PROVE  exec' = exec
<1>. USE TerminalStatuses
<1>1. ASSUME Environment PROVE exec' = exec
  BY <1>1 DEF Environment, Submit, StopRead, StopActive, StopWaiting, QueueWaitPasses,
       StartedAges, LoseJob, Crash, db
<1>2. ASSUME NEW w \in Workers, Recovery(w) PROVE exec' = exec
  BY <1>2 DEF Recovery, RecoverStuckRunning, RecoverOrphanPending
<1>3. ASSUME NEW w \in Workers, Work(w) PROVE exec' = exec
  <2>1. ASSUME NEW j \in JobIds, PickJob(w, j) \/ StalledExhausted(w, j) PROVE exec' = exec
    BY <2>1 DEF PickJob, StalledExhausted, db
  <2>2. CASE ReadExecution(w) \/ QueueWaitTimeout(w) \/ Admit(w) \/ Defer(w)
    BY <2>2 DEF ReadExecution, QueueWaitTimeout, Admit, Defer, GuardedStatus, db
  <2>3. CASE Redrive(w) \/ FailOrphans(w) \/ Rehydrate(w) \/ RehydrationFails(w)
    BY <2>3 DEF Redrive, FailOrphans, Rehydrate, RehydrationFails, db
  <2>4. CASE LimitExceeded(w) \/ Boundary(w) \/ Complete(w)
             \/ FinalizeFailed(w) \/ FinalizeCancelled(w)
    BY <2>4 DEF LimitExceeded, Boundary, Complete, FinalizeFailed, FinalizeCancelled,
         GuardedStatus, db
  <2>5. CASE CreateRow(w) \/ HandlerCompletes(w) \/ HandlerBlocks(w) \/ HandlerFails(w)
             \/ AppendPath(w)
    BY <2>5 DEF CreateRow, HandlerCompletes, HandlerBlocks, HandlerFails, SaveRow,
         AppendPath
  <2>6. CASE Park(w) \/ MarkNodeCancelled(w)
    BY <2>6 DEF Park, Refused, MarkNodeCancelled
  <2>7. CASE Claim(w) \/ LoadResume(w) \/ ReclaimRunning(w) \/ FormTurn(w)
             \/ AiTurnStarts(w) \/ AiTurnEnds(w)
    BY <2>7 DEF Claim, LoadResume, ReclaimRunning, FormTurn, AiTurnStarts, AiTurnEnds,
         GuardedStatus, Refused, db
  <2>8. CASE MarkExecutionCancelled(w) \/ MarkNodeFailed(w) \/ CancelParked(w)
             \/ Announce(w) \/ Ack(w)
    BY <2>8 DEF MarkExecutionCancelled, MarkNodeFailed, CancelParked, Announce, Ack,
         GuardedStatus, db
  <2>. QED
    BY <1>3, <2>1, <2>2, <2>3, <2>4, <2>5, <2>6, <2>7, <2>8 DEF Work
<1>4. CASE UNCHANGED vars
  BY <1>4 DEF vars, db
<1>. QED
  BY <1>1, <1>2, <1>3, <1>4 DEF Next

\* No action takes an execution out of a status it ended with: updateExecutionStatus,
\* the linked park, the claim, the cancel job, the recovery scan and stop all write on
\* a condition, so a late driver, a redelivered job and a zombie cannot undo an end.
THEOREM TerminalFinal == Spec => TerminalIsFinal
<1>1. [Next]_vars => [(exec \in Terminal) => exec' = exec]_vars
  BY StepTerminalIsFinal
<1>. QED
  BY <1>1, PTL DEF Spec, TerminalIsFinal
-------------------------------------------------------------------------------
\* A worker that is about to announce an end has seen the database hold it, and so
\* has every announcement that was made.
Truthful ==
  /\ AnnouncedTrue
  /\ announced # <<>> => exec \in Terminal
  /\ \A w \in Workers : pc[w] \in Announcing => exec = loc[w].say

\* Every step but an announcement leaves the announcements alone, and a worker it
\* makes announce says what the execution has become.
LEMMA SayWhatHolds ==
  ASSUME Typed, [Next]_vars
  PROVE  /\ announced' = announced \/ \E w \in Workers : Announce(w)
         /\ \A v \in Workers : \/ pc'[v] = pc[v] /\ loc'[v] = loc[v]
                               \/ pc'[v] \notin Announcing
                               \/ exec' = loc'[v].say
<1>. DEFINE Kept(v) == pc'[v] = pc[v] /\ loc'[v] = loc[v]
            True == \A v \in Workers :
                      Kept(v) \/ pc'[v] \notin Announcing \/ exec' = loc'[v].say
<1>. USE DEF Announcing
<1>0. pc \in [Workers -> Label] /\ loc \in [Workers -> Local]
  BY DEF Typed, TypeOK
<1>1. CASE Environment
  BY <1>0, <1>1 DEF Environment, Submit, StopRead, StopActive, StopWaiting,
       QueueWaitPasses, StartedAges, LoseJob, Crash, Goto
<1>2. ASSUME NEW w \in Workers, Recovery(w) PROVE announced' = announced /\ True
  BY <1>0, <1>2 DEF Recovery, RecoverStuckRunning, RecoverOrphanPending, Goto, Say, Local
<1>3. ASSUME NEW w \in Workers, Work(w)
      PROVE (announced' = announced \/ \E u \in Workers : Announce(u)) /\ True
  <2>1. ASSUME NEW j \in JobIds, PickJob(w, j) PROVE announced' = announced /\ True
    BY <1>0, <2>1 DEF PickJob, Goto
  <2>2. ASSUME NEW j \in JobIds, StalledExhausted(w, j) PROVE announced' = announced /\ True
    BY <1>0, <2>2 DEF StalledExhausted, Goto, Say, Local
  <2>3. CASE ReadExecution(w) \/ Admit(w) \/ Defer(w)
    BY <1>0, <2>3 DEF ReadExecution, Admit, Defer, Goto
  <2>4. CASE Redrive(w) \/ FailOrphans(w) \/ Rehydrate(w) \/ RehydrationFails(w)
    BY <1>0, <2>4 DEF Redrive, FailOrphans, Rehydrate, RehydrationFails, Goto
  <2>5. CASE LimitExceeded(w) \/ Boundary(w)
    BY <1>0, <2>5 DEF LimitExceeded, Boundary, Goto, Advance
  <2>6. CASE QueueWaitTimeout(w) \/ Complete(w) \/ FinalizeFailed(w) \/ FinalizeCancelled(w)
    BY <1>0, <2>6 DEF QueueWaitTimeout, Complete, FinalizeFailed, FinalizeCancelled,
         GuardedStatus, Goto, Say, Local
  <2>7. CASE CreateRow(w) \/ HandlerCompletes(w) \/ HandlerBlocks(w) \/ HandlerFails(w)
             \/ AppendPath(w)
    <3>1. announced' = announced /\ \A v \in Workers \ {w} : loc'[v] = loc[v]
      BY <1>0, <2>7 DEF CreateRow, HandlerCompletes, HandlerBlocks, HandlerFails, SaveRow,
           AppendPath, Advance
    <3>2. \E l \in {"handler", "append", "appendPark", "finalizeFailed", "boundary", "park"} :
            Goto(w, l)
      BY <2>7 DEF CreateRow, HandlerCompletes, HandlerBlocks, HandlerFails, AppendPath
    <3>. QED
      BY <1>0, <3>1, <3>2 DEF Goto
  <2>8. CASE Park(w) \/ MarkNodeCancelled(w)
    BY <1>0, <2>8 DEF Park, WaitTogether, Refused, MarkNodeCancelled, Goto
  <2>9. CASE Claim(w) \/ LoadResume(w) \/ ReclaimRunning(w)
    BY <1>0, <2>9 DEF Claim, LoadResume, ReclaimRunning, GuardedStatus, Goto
  <2>10. CASE FormTurn(w) \/ AiTurnStarts(w) \/ AiTurnEnds(w)
    <3>1. announced' = announced /\ \A v \in Workers \ {w} : loc'[v] = loc[v]
      BY <1>0, <2>10 DEF FormTurn, AiTurnStarts, AiTurnEnds, WaitTogether, Refused, Advance
    <3>2. \E l \in {"boundary", "markNode", "aiTurn", "ack", "finalizeFailed"} : Goto(w, l)
      BY <2>10 DEF FormTurn, AiTurnStarts, AiTurnEnds, WaitTogether, Refused
    <3>. QED
      BY <1>0, <3>1, <3>2 DEF Goto
  <2>11. CASE MarkExecutionCancelled(w) \/ CancelParked(w)
    BY <1>0, <2>11 DEF MarkExecutionCancelled, CancelParked, GuardedStatus, Goto, Say, Local
  <2>12. CASE MarkNodeFailed(w) \/ Ack(w)
    BY <1>0, <2>12 DEF MarkNodeFailed, Ack, Goto
  <2>13. CASE Announce(w)
    BY <1>0, <2>13 DEF Announce, Goto
  <2>. QED
    BY <1>3, <2>1, <2>2, <2>3, <2>4, <2>5, <2>6, <2>7, <2>8, <2>9, <2>10, <2>11, <2>12,
       <2>13 DEF Work
<1>4. CASE UNCHANGED vars
  BY <1>4 DEF vars
<1>. QED
  BY <1>1, <1>2, <1>3, <1>4 DEF Next

LEMMA StepTruthful == Typed /\ Truthful /\ [Next]_vars => Truthful'
<1>. SUFFICES ASSUME Typed, Truthful, [Next]_vars PROVE Truthful'
  OBVIOUS
<1>. DEFINE Says == \A w \in Workers : pc[w] \in Announcing => exec = loc[w].say
            Last == announced # <<>> => exec \in Terminal
<1>1. \A w \in Workers : pc[w] \in Announcing => exec = loc[w].say /\ exec \in Terminal
  BY DEF Truthful, Typed, Placed, PlacedAt
<1>2. Says'
  <2>. SUFFICES ASSUME NEW v \in Workers, pc'[v] \in Announcing PROVE exec' = loc'[v].say
    BY DEF Announcing
  <2>. QED
    BY <1>1, SayWhatHolds, StepTerminalIsFinal
<1>3. CASE announced' = announced
  BY <1>2, <1>3, StepTerminalIsFinal DEF Truthful, AnnouncedTrue
<1>4. ASSUME NEW w \in Workers, Announce(w) PROVE Truthful'
  <2>1. announced \in Seq(Terminal) /\ loc[w].say = exec /\ exec \in Terminal /\ exec' = exec
    BY <1>1, <1>4 DEF Typed, TypeOK, Announce, Announcing, db
  <2>2. AnnouncedTrue'
    BY <1>4, <2>1 DEF Truthful, AnnouncedTrue, Announce
  <2>. QED
    BY <1>2, <2>1, <2>2 DEF Truthful
<1>. QED
  BY <1>3, <1>4, SayWhatHolds

\* Whatever a client is told about the end of an execution is what the database
\* holds then and ever after: the emits of the finalizers, of the cancel job, of the
\* recovery scan and of the unresumable path all come after a write that was applied.
THEOREM AnnouncedIsTrue == Spec => []AnnouncedTrue
<1>1. Init => Truthful
  BY DEF Init, Truthful, AnnouncedTrue, Announcing
<1>2. Truthful => AnnouncedTrue
  BY DEF Truthful
<1>. QED
  BY <1>1, <1>2, InitTyped, StepTyped, StepTruthful, PTL DEF Spec
-------------------------------------------------------------------------------
(* The re-drive after a crash.                                             *)

\* The execution is admitted at once, nobody submits to it and no recovery scan finds
\* it old: what starts it, and starts it again, is its run job.
Unanswered == ~CapsTaken /\ Budget["submit"] = 0 /\ Budget["age"] = 0

Underway ==
  {"redrive", "orphans", "rehydrate", "boundary", "create", "handler", "append",
   "appendPark", "park", "markNode", "finalizeCancelled", "finalizeFailed",
   "unresumable"}
ForInputs == {"claim", "load", "reclaim", "turn", "aiTurn"}
Closing == {"announceUnresumable", "failNode"}
Works(w) == pc[w] \in Underway \cup Closing \cup {"read", "timeout", "admit"}
Live(j) == jobs[j].state # "free"
RunLive(j) == jobs[j].kind = "run" /\ Live(j)

NoInputs ==
  /\ budget["submit"] = 0 /\ budget["age"] = 0 /\ started = "fresh"
  /\ \A j \in JobIds : Live(j) => jobs[j].kind \in {"run", "cancel"}
  /\ \A w \in Workers : pc[w] \notin ForInputs

\* A worker works for a run job that is active, and no other worker does.
InHand ==
  /\ \A w \in Workers : Works(w) => loc[w].job # NoJob /\ jobs[loc[w].job].kind = "run"
  /\ \A w \in Workers : pc[w] = "idle" => loc[w].job = NoJob
  /\ \A w \in Workers : loc[w].job # NoJob => jobs[loc[w].job].state = "active"
  /\ \A v, w \in Workers : loc[v].job = loc[w].job /\ loc[w].job # NoJob => v = w

\* Until the execution ends, and for as long as a segment goes on after that, there
\* is one such job: waiting, active or dead.
OneRunJob ==
  exec \notin Terminal \/ (\E w \in Workers : pc[w] \in Underway) =>
    \A i, j \in JobIds : RunLive(i) /\ RunLive(j) => i = j

Stage ==
  \A w \in Workers :
    /\ pc[w] \in Underway => exec \in Terminal \cup {"running"}
    /\ pc[w] \in {"timeout", "admit"} => exec \in Terminal \cup {"pending"}
    /\ pc[w] \in Closing => exec \in Terminal

Redriven == NoInputs /\ InHand /\ OneRunJob /\ Stage

LEMMA InitRedriven == Unanswered /\ Init => Redriven
<1> SUFFICES ASSUME Unanswered, Init PROVE Redriven
  OBVIOUS
<1> USE DEF Init
<1>1. NoInputs
  BY DEF NoInputs, Unanswered, Live, ForInputs, Queued, Free
<1>2. InHand
  BY DEF InHand, Works, Underway, Closing, Blank, Fresh
<1>3. OneRunJob
  BY DEF OneRunJob, RunLive, Live, Free
<1>4. Stage
  BY DEF Stage, Underway, Closing
<1>. QED
  BY <1>1, <1>2, <1>3, <1>4 DEF Redriven

\* A crash hands back, buries or drops the job of the worker, and makes no job.
LEMMA CrashJobs ==
  ASSUME jobs \in [JobIds -> Job], NEW w \in Workers, Crash(w), NEW i \in JobIds
  PROVE  /\ i # loc[w].job => jobs'[i] = jobs[i]
         /\ Live(i)' => Live(i) /\ jobs'[i].kind = jobs[i].kind
<1>. USE DEF Live
<1>1. CASE i # loc[w].job \/ jobs[i].state # "active"
  BY <1>1 DEF Crash
<1>2. CASE i = loc[w].job /\ jobs[i].state = "active"
  <2>1. /\ jobs[i] \in Job
        /\ jobs'[i] \in {[jobs[i] EXCEPT !.stalls = 1, !.state = "waiting"],
                         [jobs[i] EXCEPT !.state = "dead"], Free}
    BY <1>2 DEF Crash
  <2>2. ASSUME jobs'[i].state # "free" PROVE jobs'[i].kind = jobs[i].kind
    <3>1. CASE jobs'[i] = [jobs[i] EXCEPT !.stalls = 1, !.state = "waiting"]
      BY <2>1, <3>1 DEF Job
    <3>2. CASE jobs'[i] = [jobs[i] EXCEPT !.state = "dead"]
      BY <2>1, <3>2 DEF Job
    <3>3. CASE jobs'[i] = Free
      BY <2>2, <3>3 DEF Free
    <3>. QED
      BY <2>1, <3>1, <3>2, <3>3
  <2>. QED
    BY <1>2, <2>2
<1>. QED
  BY <1>1, <1>2

LEMMA StepRedriven ==
  ASSUME Unanswered, Typed, Redriven, [Next]_vars PROVE Redriven'
<1> USE TerminalStatuses, NoJobAssumption DEF Redriven, NoInputs, InHand, OneRunJob,
      Stage, Works, Underway, Closing, ForInputs, RunLive, Live
<1>0. /\ pc \in [Workers -> Label] /\ loc \in [Workers -> Local] /\ jobs \in [JobIds -> Job]
      /\ rowStatus \in [Rows -> NodeStatus] /\ budget \in [EnvEvents -> Nat] /\ exec \in Status
      /\ \A w \in Workers : loc[w].job \in JobIds \cup {NoJob}
  BY DEF Typed, TypeOK, Local
<1>a. ASSUME NEW w \in Workers, Advance(w)
      PROVE  \A v \in Workers : loc'[v].job = loc[v].job /\ loc'[v].row = loc[v].row
  BY <1>0, <1>a DEF Advance, Local
<1>1. CASE Submit
  BY <1>0, <1>1 DEF Submit, Enqueue, Spend, db, Queued
<1>2. CASE StopRead
  BY <1>0, <1>2 DEF StopRead, Spend, db
<1>3. CASE StopActive
  BY <1>0, <1>3 DEF StopActive, rows, clock
<1>4. CASE StopWaiting
  BY <1>0, <1>4 DEF StopWaiting, Enqueue, db, Queued
<1>5. CASE QueueWaitPasses
  BY <1>0, <1>5 DEF QueueWaitPasses, rows, env
<1>6. CASE StartedAges
  BY <1>0, <1>6 DEF StartedAges, Spend, rows
<1>7. CASE LoseJob
  BY <1>0, <1>7 DEF LoseJob, Free, Spend, db
<1>8. ASSUME NEW w \in Workers, NEW j \in JobIds, PickJob(w, j) PROVE Redriven'
  BY <1>0, <1>8 DEF PickJob, Goto, db, env, Fresh
<1>9. ASSUME NEW w \in Workers, NEW j \in JobIds, StalledExhausted(w, j) PROVE Redriven'
  <2>1. /\ pc[w] = "idle" /\ jobs[j].kind = "run" /\ jobs[j].state = "dead"
        /\ \A i \in JobIds : jobs'[i] = IF i = j THEN Free ELSE jobs[i]
        /\ clock' = clock /\ env' = env
    BY <1>0, <1>9 DEF StalledExhausted
  <2>2. \A v \in Workers : loc[v].job # NoJob => loc[v].job \in JobIds /\ loc[v].job # j
    BY <1>0, <2>1
  <2>3. CASE exec = "running"
    <3>1. exec' = "failed" /\ Say(w, "failed") /\ Goto(w, "announce")
      BY <1>9, <2>3 DEF StalledExhausted
    <3>2. /\ \A v \in Workers : loc'[v].job = loc[v].job
          /\ \A v \in Workers : pc'[v] = IF v = w THEN "announce" ELSE pc[v]
      BY <1>0, <3>1 DEF Say, Goto, Local
    <3>3. \A v \in Workers : pc[v] \notin Underway
      <4> SUFFICES ASSUME NEW v \in Workers, Works(v) PROVE FALSE
        OBVIOUS
      <4>1. /\ loc[v].job \in JobIds /\ loc[v].job # j
            /\ jobs[loc[v].job].state = "active" /\ jobs[loc[v].job].kind = "run"
        BY <2>2
      <4>2. exec \notin Terminal
        BY <2>3 DEF Terminal
      <4>. QED
        BY <4>1, <4>2, <2>1
    <3>4. NoInputs'
      BY <2>1, <3>2 DEF Free, clock, env
    <3>5. InHand'
      BY <2>1, <2>2, <3>2
    <3>. QED
      BY <3>1, <3>2, <3>3, <3>4, <3>5 DEF Terminal
  <2>4. CASE exec # "running"
    <3>1. UNCHANGED <<exec, loc, pc>>
      BY <1>9, <2>4 DEF StalledExhausted
    <3>2. NoInputs'
      BY <2>1, <3>1 DEF Free, clock, env
    <3>3. InHand'
      BY <2>1, <2>2, <3>1
    <3>4. OneRunJob'
      BY <2>1, <3>1 DEF Free
    <3>. QED
      BY <3>1, <3>2, <3>3, <3>4
  <2>. QED
    BY <2>3, <2>4

<1>10. ASSUME NEW w \in Workers, ReadExecution(w) PROVE Redriven'
  BY <1>0, <1>10 DEF ReadExecution, Goto, db, env
<1>11. ASSUME NEW w \in Workers, QueueWaitTimeout(w) PROVE Redriven'
  BY <1>0, <1>11 DEF QueueWaitTimeout, GuardedStatus, Say, rows, clock, env, Goto
<1>12. ASSUME NEW w \in Workers, Admit(w) PROVE Redriven'
  BY <1>0, <1>12 DEF Admit, Goto, rows, env
<1>13. ASSUME NEW w \in Workers, Defer(w) PROVE Redriven'
  <2>1. pc[w] = "admit" /\ exec \in Terminal /\ UNCHANGED <<db, loc, announced, env>>
    BY <1>13 DEF Defer, Unanswered
  <2>2. PICK j \in JobIds : Enqueue(j, "run", 0)
    BY <1>13 DEF Defer
  <2>3. \A v \in Workers : pc'[v] = IF v = w THEN "ack" ELSE pc[v]
    BY <1>0, <1>13 DEF Defer, Goto
  <2>4. /\ \A i \in JobIds : jobs'[i] = IF i = j THEN Queued("run", 0) ELSE jobs[i]
        /\ jobs[j].state = "free"
    BY <1>0, <2>2 DEF Enqueue
  <2>5. \A v \in Workers : loc[v].job # NoJob => loc[v].job \in JobIds /\ loc[v].job # j
    BY <1>0, <2>4
  <2>6. NoInputs'
    BY <2>1, <2>3, <2>4 DEF Queued, db, clock, env
  <2>7. InHand'
    BY <2>1, <2>3, <2>4, <2>5
  <2>8. \A v \in Workers : pc[v] \notin Underway
    <3> SUFFICES ASSUME NEW v \in Workers, pc[v] \in Underway PROVE FALSE
      OBVIOUS
    <3>1. RunLive(loc[v].job) /\ RunLive(loc[w].job) /\ loc[v].job \in JobIds
          /\ loc[w].job \in JobIds
      BY <1>0, <2>1
    <3>2. loc[v].job = loc[w].job
      BY <3>1
    <3>. QED
      BY <3>2, <2>1, <3>1
  <2>9. OneRunJob' /\ Stage'
    BY <2>1, <2>3, <2>8 DEF db
  <2>. QED
    BY <2>6, <2>7, <2>9

<1>14. ASSUME NEW w \in Workers, Redrive(w) PROVE Redriven'
  BY <1>0, <1>14 DEF Redrive, Goto, db, env
<1>15. ASSUME NEW w \in Workers, FailOrphans(w) PROVE Redriven'
  BY <1>0, <1>15 DEF FailOrphans, Goto, clock, env
<1>16. ASSUME NEW w \in Workers, Rehydrate(w) PROVE Redriven'
  BY <1>0, <1>16 DEF Rehydrate, Goto, db, env, HasCompletedRow
<1>17. ASSUME NEW w \in Workers, RehydrationFails(w) PROVE Redriven'
  BY <1>0, <1>17 DEF RehydrationFails, Goto, db, env
<1>18. ASSUME NEW w \in Workers, LimitExceeded(w) PROVE Redriven'
  BY <1>0, <1>18 DEF LimitExceeded, Goto, db, env
<1>19. ASSUME NEW w \in Workers, Boundary(w) PROVE Redriven'
  <2>1. /\ pc[w] = "boundary" /\ UNCHANGED <<db, jobs, announced, env>>
        /\ \/ Advance(w) /\ pc' = pc
           \/ \E l \in {"create", "finalizeCancelled"} : Goto(w, l) /\ loc' = loc
    BY <1>19 DEF Boundary
  <2>2. CASE Advance(w) /\ pc' = pc
    BY <1>a, <2>1, <2>2 DEF db, clock, env
  <2>3. CASE \E l \in {"create", "finalizeCancelled"} : Goto(w, l) /\ loc' = loc
    BY <1>0, <2>1, <2>3 DEF Goto, db, clock, env
  <2>. QED
    BY <2>1, <2>2, <2>3

<1>20. ASSUME NEW w \in Workers, Complete(w) PROVE Redriven'
  BY <1>0, <1>20 DEF Complete, GuardedStatus, Say, rows, clock, env, NonTerminal,
       Goto, nonTerminalStatuses
<1>21. ASSUME NEW w \in Workers, FinalizeFailed(w) PROVE Redriven'
  BY <1>0, <1>21 DEF FinalizeFailed, GuardedStatus, Say, rows, clock, env,
       NonTerminal, Goto, nonTerminalStatuses
<1>22. ASSUME NEW w \in Workers, FinalizeCancelled(w) PROVE Redriven'
  BY <1>0, <1>22 DEF FinalizeCancelled, GuardedStatus, Say, rows, clock, env,
       NonTerminal, Goto, nonTerminalStatuses
<1>23. ASSUME NEW w \in Workers, CreateRow(w) PROVE Redriven'
  BY <1>0, <1>23 DEF CreateRow, Goto, SetRow, clock, env
<1>24. ASSUME NEW w \in Workers, HandlerCompletes(w) PROVE Redriven'
  BY <1>0, <1>24 DEF HandlerCompletes, Goto, SaveRow, SetRow, clock, env
<1>25. ASSUME NEW w \in Workers, HandlerBlocks(w) PROVE Redriven'
  BY <1>0, <1>25 DEF HandlerBlocks, Goto, SaveRow, SetRow, clock, env
<1>26. ASSUME NEW w \in Workers, HandlerFails(w) PROVE Redriven'
  <2>1. PICK st \in {"failed", "skipped", "completed"} :
          /\ SaveRow(w, st)
          /\ \/ Goto(w, "finalizeFailed") /\ loc' = loc
             \/ Goto(w, "boundary") /\ Advance(w)
    BY <1>26 DEF HandlerFails
  <2>2. PICK l \in {"finalizeFailed", "boundary"} :
          \A v \in Workers : pc'[v] = IF v = w THEN l ELSE pc[v]
    BY <1>0, <2>1 DEF Goto
  <2>3. \A v \in Workers : loc'[v].job = loc[v].job /\ loc'[v].row = loc[v].row
    BY <1>a, <2>1
  <2>4. /\ pc[w] = "handler"
        /\ UNCHANGED <<exec, clock, rowNode, nodeLog, jobs, announced, env>>
    BY <1>0, <2>1 DEF SaveRow
  <2>. QED
    BY <2>2, <2>3, <2>4 DEF clock, env

<1>27. ASSUME NEW w \in Workers, AppendPath(w) PROVE Redriven'
  <2>1. PICK l \in {"boundary", "park"} :
          /\ \A v \in Workers : pc'[v] = IF v = w THEN l ELSE pc[v]
          /\ l = "park" => pc[w] = "appendPark"
          /\ l = "boundary" => pc[w] = "append"
    BY <1>0, <1>27 DEF AppendPath, Goto
  <2>2. \A v \in Workers : loc'[v].job = loc[v].job /\ loc'[v].row = loc[v].row
    BY <1>a, <1>27 DEF AppendPath
  <2>3. /\ UNCHANGED <<exec, clock, rows, jobs, announced, env>>
        /\ pc[w] \in {"append", "appendPark"}
    BY <1>27 DEF AppendPath
  <2>. QED
    BY <2>1, <2>2, <2>3 DEF rows, clock, env

<1>28. ASSUME NEW w \in Workers, Park(w) PROVE Redriven'
  <2>1. /\ pc[w] = "park" /\ UNCHANGED <<clock, jobs, env>>
        /\ \/ NonTerminal /\ exec' = "waiting_for_input" /\ Goto(w, "ack")
           \/ exec' = exec /\ Goto(w, "markNode")
        /\ \A v \in Workers : loc'[v].job = loc[v].job
    BY <1>0, <1>28 DEF Park, WaitTogether, Refused, Local
  <2>2. PICK l \in {"ack", "markNode"} :
          \A v \in Workers : pc'[v] = IF v = w THEN l ELSE pc[v]
    BY <1>0, <2>1 DEF Goto
  <2>3. exec' = exec \/ (l = "ack" /\ exec = "running")
    BY <1>0, <2>1, <2>2 DEF Goto
  <2>4. ASSUME NEW v \in Workers, pc[v] \in Underway PROVE v = w
    BY <1>0, <2>1, <2>4
  <2>5. Stage'
    BY <2>1, <2>2, <2>3, <2>4 DEF Terminal
  <2>6. NoInputs' /\ InHand' /\ OneRunJob'
    BY <2>1, <2>2 DEF clock, env
  <2>. QED
    BY <2>5, <2>6
<1>29. ASSUME NEW w \in Workers, MarkNodeCancelled(w) PROVE Redriven'
  BY <1>0, <1>29 DEF MarkNodeCancelled, Goto, SetRow, clock, env
<1>30. ASSUME NEW w \in Workers, Claim(w) PROVE Redriven'
  BY <1>0, <1>30 DEF Claim, Goto, SetRow, clock, env
<1>31. ASSUME NEW w \in Workers, LoadResume(w) PROVE Redriven'
  BY <1>0, <1>31 DEF LoadResume, Goto, db, env
<1>32. ASSUME NEW w \in Workers, ReclaimRunning(w) PROVE Redriven'
  BY <1>0, <1>32 DEF ReclaimRunning, GuardedStatus, rows, clock, env, NonTerminal,
       Goto, nonTerminalStatuses
<1>33. ASSUME NEW w \in Workers, FormTurn(w) PROVE Redriven'
  BY <1>0, <1>33 DEF FormTurn, Goto, SetRow, Advance, IsLatest, clock, env
<1>34. ASSUME NEW w \in Workers, AiTurnStarts(w) PROVE Redriven'
  BY <1>0, <1>34 DEF AiTurnStarts, Goto, db, env, KindOf
<1>35. ASSUME NEW w \in Workers, AiTurnEnds(w) PROVE Redriven'
  BY <1>0, <1>35 DEF AiTurnEnds, Goto, SetRow, Advance, WaitTogether, Refused, clock,
       env, NonTerminal, KindOf, nonTerminalStatuses
<1>36. ASSUME NEW w \in Workers, MarkExecutionCancelled(w) PROVE Redriven'
  BY <1>0, <1>36 DEF MarkExecutionCancelled, GuardedStatus, Say, rows, clock, env,
       Goto
<1>37. ASSUME NEW w \in Workers, MarkNodeFailed(w) PROVE Redriven'
  BY <1>0, <1>37 DEF MarkNodeFailed, Goto, clock, env
<1>38. ASSUME NEW w \in Workers, CancelParked(w) PROVE Redriven'
  BY <1>0, <1>38 DEF CancelParked, GuardedStatus, Say, clock, env, Goto
<1>39. ASSUME NEW w \in Workers, Announce(w) PROVE Redriven'
  BY <1>0, <1>39 DEF Announce, Goto, db, env
<1>40. ASSUME NEW w \in Workers, Ack(w) PROVE Redriven'
  BY <1>0, <1>40 DEF Ack, Goto, Free, db, env, Blank, Fresh
<1>41. ASSUME NEW w \in Workers, RecoverStuckRunning(w) PROVE Redriven'
  BY <1>0, <1>41 DEF RecoverStuckRunning, Goto, rows, env, Blank, Fresh
<1>42. ASSUME NEW w \in Workers, RecoverOrphanPending(w) PROVE Redriven'
  BY <1>0, <1>42 DEF RecoverOrphanPending, Goto, Say, rows, clock, env
<1>43. ASSUME NEW w \in Workers, Crash(w) PROVE Redriven'
  <2>1. /\ \A v \in Workers : pc'[v] = IF v = w THEN "idle" ELSE pc[v]
        /\ \A v \in Workers : loc'[v] = IF v = w THEN Blank ELSE loc[v]
        /\ UNCHANGED <<db, announced, stopper>> /\ Blank.job = NoJob
    BY <1>0, <1>43 DEF Crash, Goto, Blank, Fresh
  <2>2. \A i \in JobIds :
          /\ i # loc[w].job => jobs'[i] = jobs[i]
          /\ Live(i)' => Live(i) /\ jobs'[i].kind = jobs[i].kind
    BY <1>0, <1>43, CrashJobs
  <2>3. budget'["submit"] = 0 /\ budget'["age"] = 0
    BY <1>0, <1>43 DEF Crash, Spend, EnvEvents
  <2>4. NoInputs'
    BY <2>1, <2>2, <2>3 DEF db
  <2>5. InHand'
    <3>1. \A v \in Workers : v # w /\ loc[v].job # NoJob =>
            loc[v].job \in JobIds /\ loc[v].job # loc[w].job
      BY <1>0
    <3>. QED
      BY <2>1, <2>2, <3>1
  <2>6. OneRunJob' /\ Stage'
    BY <2>1, <2>2 DEF db
  <2>. QED
    BY <2>4, <2>5, <2>6

<1>44. CASE UNCHANGED vars
  BY <1>44 DEF vars, db, rows, clock, env
<1>. QED
  BY <1>1, <1>2, <1>3, <1>4, <1>5, <1>6, <1>7, <1>8, <1>9, <1>10, <1>11, <1>12, <1>13,
     <1>14, <1>15, <1>16, <1>17, <1>18, <1>19, <1>20, <1>21, <1>22, <1>23, <1>24,
     <1>25, <1>26, <1>27, <1>28, <1>29, <1>30, <1>31, <1>32, <1>33, <1>34, <1>35,
     <1>36, <1>37, <1>38, <1>39, <1>40, <1>41, <1>42, <1>43, <1>44
  DEF Next, Environment, Work, Recovery
-------------------------------------------------------------------------------
\* Nobody stops the execution either.
Unattended == Unanswered /\ Budget["stop"] = 0

NoStops ==
  /\ budget["stop"] = 0 /\ stopper = "idle"
  /\ \A j \in JobIds : Live(j) => jobs[j].kind = "run"
  /\ \A w \in Workers : pc[w] # "cancel"

\* Past the failing of orphans a row that runs is the one the worker is at.
Open(r) == rowStatus[r] \in {"running", "waiting_for_input"}
RowsOpen ==
  /\ exec \in Terminal => \A r \in Rows : ~Open(r)
  /\ exec = "pending" => \A r \in Rows : rowStatus[r] = "absent"
  /\ \A r \in Rows : WaitingRow(r) => exec = "waiting_for_input"
  /\ \A w \in Workers, r \in Rows :
       pc[w] \in Underway \ {"redrive", "orphans"} /\ rowStatus[r] = "running" =>
         pc[w] \in {"handler", "appendPark", "park"} /\ loc[w].row = r

\* While nobody stops it, a segment finds its execution running.
RunsOn == \A w \in Workers : pc[w] \in Underway => exec = "running"

Recoverable == NoStops /\ RunsOn /\ RowsOpen

LEMMA InitRecoverable == Unattended /\ Init => Recoverable
  BY DEF Unattended, Init, Recoverable, NoStops, RunsOn, RowsOpen, Live, Underway, Terminal,
       WaitingRow, Queued, Free

LEMMA StepRecoverable ==
  ASSUME Typed, Redriven, Recoverable, [Next]_vars PROVE Recoverable'
<1> USE TerminalStatuses, NoJobAssumption DEF Recoverable, NoStops, RunsOn, RowsOpen,
      Redriven, NoInputs, InHand, OneRunJob, Stage, Works, Underway, Closing, ForInputs,
      RunLive, Live, Open, WaitingRow
<1>0. /\ pc \in [Workers -> Label] /\ loc \in [Workers -> Local] /\ jobs \in [JobIds -> Job]
      /\ rowStatus \in [Rows -> NodeStatus] /\ budget \in [EnvEvents -> Nat] /\ exec \in Status
      /\ \A w \in Workers : loc[w].job \in JobIds \cup {NoJob}
  BY DEF Typed, TypeOK, Local
<1>a. ASSUME NEW w \in Workers, Advance(w)
      PROVE  \A v \in Workers : loc'[v].job = loc[v].job /\ loc'[v].row = loc[v].row
  BY <1>0, <1>a DEF Advance, Local
<1>1. CASE Submit
  BY <1>0, <1>1 DEF Submit, Enqueue, Spend, db, Queued
<1>2. CASE StopRead
  BY <1>0, <1>2 DEF StopRead, Spend, db
<1>3. CASE StopActive
  BY <1>0, <1>3 DEF StopActive, rows, clock
<1>4. CASE StopWaiting
  BY <1>0, <1>4 DEF StopWaiting, Enqueue, db, Queued
<1>5. CASE QueueWaitPasses
  BY <1>0, <1>5 DEF QueueWaitPasses, rows, env
<1>6. CASE StartedAges
  BY <1>0, <1>6 DEF StartedAges, Spend, rows
<1>7. CASE LoseJob
  BY <1>0, <1>7 DEF LoseJob, Free, Spend, db
<1>8. ASSUME NEW w \in Workers, NEW j \in JobIds, PickJob(w, j) PROVE Recoverable'
  BY <1>0, <1>8 DEF PickJob, Goto, db, env, Fresh
<1>9. ASSUME NEW w \in Workers, NEW j \in JobIds, StalledExhausted(w, j) PROVE Recoverable'
  <2>1. /\ pc[w] = "idle" /\ jobs[j].kind = "run" /\ jobs[j].state = "dead"
        /\ \A i \in JobIds : jobs'[i] = IF i = j THEN Free ELSE jobs[i]
        /\ \A v \in Workers : pc'[v] = pc[v] \/ pc'[v] = "announce"
        /\ env' = env
    BY <1>0, <1>9 DEF StalledExhausted, Goto
  <2>2. NoStops'
    BY <2>1 DEF Free, env
  <2>3. CASE exec = "running"
    <3>1. /\ exec' = "failed"
          /\ \A r \in Rows : rowStatus'[r] =
               IF rowStatus[r] = "running" THEN "failed" ELSE rowStatus[r]
      BY <1>9, <2>3 DEF StalledExhausted
    <3>2. \A v \in Workers : pc[v] \notin Underway
      <4> SUFFICES ASSUME NEW v \in Workers, Works(v) PROVE FALSE
        OBVIOUS
      <4>1. /\ loc[v].job \in JobIds /\ loc[v].job # j
            /\ jobs[loc[v].job].state = "active" /\ jobs[loc[v].job].kind = "run"
        BY <1>0, <2>1
      <4>2. exec \notin Terminal
        BY <2>3 DEF Terminal
      <4>. QED
        BY <4>1, <4>2, <2>1
    <3>. QED
      BY <2>1, <2>2, <2>3, <3>1, <3>2
  <2>4. CASE exec # "running"
    BY <1>9, <2>2, <2>4 DEF StalledExhausted
  <2>. QED
    BY <2>3, <2>4

<1>10. ASSUME NEW w \in Workers, ReadExecution(w) PROVE Recoverable'
  BY <1>0, <1>10 DEF ReadExecution, Goto, db, env
<1>11. ASSUME NEW w \in Workers, QueueWaitTimeout(w) PROVE Recoverable'
  BY <1>0, <1>11 DEF QueueWaitTimeout, GuardedStatus, Say, rows, clock, env, Goto
<1>12. ASSUME NEW w \in Workers, Admit(w) PROVE Recoverable'
  BY <1>0, <1>12 DEF Admit, Goto, rows, env
<1>13. ASSUME NEW w \in Workers, Defer(w) PROVE Recoverable'
  BY <1>0, <1>13 DEF Defer, Enqueue, Queued, Goto, db, env
<1>14. ASSUME NEW w \in Workers, Redrive(w) PROVE Recoverable'
  BY <1>0, <1>14 DEF Redrive, Goto, db, env
<1>15. ASSUME NEW w \in Workers, FailOrphans(w) PROVE Recoverable'
  BY <1>0, <1>15 DEF FailOrphans, Goto, clock, env
<1>16. ASSUME NEW w \in Workers, Rehydrate(w) PROVE Recoverable'
  BY <1>0, <1>16 DEF Rehydrate, Goto, db, env, HasCompletedRow
<1>17. ASSUME NEW w \in Workers, RehydrationFails(w) PROVE Recoverable'
  BY <1>0, <1>17 DEF RehydrationFails, Goto, db, env
<1>18. ASSUME NEW w \in Workers, LimitExceeded(w) PROVE Recoverable'
  BY <1>0, <1>18 DEF LimitExceeded, Goto, db, env
<1>19. ASSUME NEW w \in Workers, Boundary(w) PROVE Recoverable'
  <2>1. /\ pc[w] = "boundary" /\ exec = "running" /\ UNCHANGED <<db, jobs, announced, env>>
        /\ \/ Advance(w) /\ pc' = pc
           \/ Goto(w, "create") /\ loc' = loc
    BY <1>19 DEF Boundary
  <2>2. CASE Advance(w) /\ pc' = pc
    BY <1>a, <2>1, <2>2 DEF db, clock, env
  <2>3. CASE Goto(w, "create") /\ loc' = loc
    BY <1>0, <2>1, <2>3 DEF Goto, db, clock, env
  <2>. QED
    BY <2>1, <2>2, <2>3

<1>20. ASSUME NEW w \in Workers, Complete(w) PROVE Recoverable'
  <2>1. \A r \in Rows : ~Open(r)
    BY <1>20 DEF Complete
  <2>2. /\ exec' \in Terminal /\ UNCHANGED <<rows, jobs, env>>
        /\ \A v \in Workers : pc'[v] = IF v = w THEN "announce" ELSE pc[v]
    BY <1>0, <1>20 DEF Complete, GuardedStatus, Goto, NonTerminal, nonTerminalStatuses, Terminal
  <2>3. \A v \in Workers : pc[v] \in Underway => v = w
    BY <1>0, <1>20 DEF Complete
  <2>. QED
    BY <2>1, <2>2, <2>3 DEF rows, env
<1>21. ASSUME NEW w \in Workers, FinalizeFailed(w) PROVE Recoverable'
  BY <1>0, <1>21 DEF FinalizeFailed, GuardedStatus, Say, rows, clock, env,
       NonTerminal, Goto, nonTerminalStatuses
<1>22. ASSUME NEW w \in Workers, FinalizeCancelled(w) PROVE Recoverable'
  BY <1>0, <1>22 DEF FinalizeCancelled, GuardedStatus, Say, rows, clock, env,
       NonTerminal, Goto, nonTerminalStatuses
<1>23. ASSUME NEW w \in Workers, CreateRow(w) PROVE Recoverable'
  <2>1. PICK r \in Rows :
          /\ rowStatus[r] = "absent" /\ SetRow(r, "running")
          /\ loc' = [loc EXCEPT ![w].row = r]
    BY <1>23 DEF CreateRow
  <2>2. /\ \A q \in Rows : rowStatus'[q] = IF q = r THEN "running" ELSE rowStatus[q]
        /\ \A v \in Workers : pc'[v] = IF v = w THEN "handler" ELSE pc[v]
        /\ \A v \in Workers \ {w} : loc'[v] = loc[v]
        /\ loc'[w].row = r
    BY <1>0, <1>23, <2>1 DEF CreateRow, Goto, SetRow, Local
  <2>3. /\ pc[w] = "create" /\ UNCHANGED <<exec, jobs, env>>
        /\ exec = "running"
    BY <1>23 DEF CreateRow
  <2>4. \A v \in Workers : pc[v] \in Underway => v = w
    BY <1>0, <2>3
  <2>5. RowsOpen'
    BY <2>2, <2>3, <2>4
  <2>. QED
    BY <2>2, <2>3, <2>5 DEF env
<1>24. ASSUME NEW w \in Workers, HandlerCompletes(w) PROVE Recoverable'
  BY <1>0, <1>24 DEF HandlerCompletes, Goto, SaveRow, SetRow, clock, env
<1>25. ASSUME NEW w \in Workers, HandlerBlocks(w) PROVE Recoverable'
  <2>1. /\ pc[w] = "handler" /\ UNCHANGED <<exec, jobs, loc, env>>
        /\ \A v \in Workers : pc'[v] = IF v = w THEN "appendPark" ELSE pc[v]
        /\ \A r \in Rows : rowStatus'[r] = IF r = loc[w].row THEN "running" ELSE rowStatus[r]
    BY <1>0, <1>25 DEF HandlerBlocks, SaveRow, SetRow, Goto
  <2>2. \A v \in Workers : pc[v] \in Underway => v = w
    BY <1>0, <2>1
  <2>3. RowsOpen'
    BY <2>1, <2>2
  <2>. QED
    BY <2>1, <2>3 DEF env
<1>26. ASSUME NEW w \in Workers, HandlerFails(w) PROVE Recoverable'
  <2>1. PICK st \in {"failed", "skipped", "completed"} :
          /\ SaveRow(w, st)
          /\ \/ Goto(w, "finalizeFailed") /\ loc' = loc
             \/ Goto(w, "boundary") /\ Advance(w)
    BY <1>26 DEF HandlerFails
  <2>2. PICK l \in {"finalizeFailed", "boundary"} :
          \A v \in Workers : pc'[v] = IF v = w THEN l ELSE pc[v]
    BY <1>0, <2>1 DEF Goto
  <2>3. \A v \in Workers : loc'[v].job = loc[v].job /\ loc'[v].row = loc[v].row
    BY <1>a, <2>1
  <2>4. /\ pc[w] = "handler"
        /\ UNCHANGED <<exec, clock, rowNode, nodeLog, jobs, announced, env>>
        /\ \A r \in Rows : rowStatus'[r] = IF r = loc[w].row THEN st ELSE rowStatus[r]
    BY <1>0, <2>1 DEF SaveRow, SetRow
  <2>5. RowsOpen'
    BY <2>2, <2>3, <2>4
  <2>. QED
    BY <2>2, <2>3, <2>4, <2>5 DEF clock, env

<1>27. ASSUME NEW w \in Workers, AppendPath(w) PROVE Recoverable'
  <2>1. PICK l \in {"boundary", "park"} :
          /\ \A v \in Workers : pc'[v] = IF v = w THEN l ELSE pc[v]
          /\ l = "park" => pc[w] = "appendPark"
          /\ l = "boundary" => pc[w] = "append"
    BY <1>0, <1>27 DEF AppendPath, Goto
  <2>2. \A v \in Workers : loc'[v].job = loc[v].job /\ loc'[v].row = loc[v].row
    BY <1>a, <1>27 DEF AppendPath
  <2>3. /\ UNCHANGED <<exec, clock, rows, jobs, announced, env>>
        /\ pc[w] \in {"append", "appendPark"}
    BY <1>27 DEF AppendPath
  <2>. QED
    BY <2>1, <2>2, <2>3 DEF rows, clock, env

<1>28. ASSUME NEW w \in Workers, Park(w) PROVE Recoverable'
  BY <1>0, <1>28 DEF Park, WaitTogether, Refused, IsLatest, clock, env, NonTerminal,
       Goto, SetRow, nonTerminalStatuses
<1>29. ASSUME NEW w \in Workers, MarkNodeCancelled(w) PROVE Recoverable'
  BY <1>0, <1>29 DEF MarkNodeCancelled, Goto, SetRow, clock, env
<1>30. ASSUME NEW w \in Workers, Claim(w) PROVE Recoverable'
  BY <1>0, <1>30 DEF Claim, Goto, SetRow, clock, env
<1>31. ASSUME NEW w \in Workers, LoadResume(w) PROVE Recoverable'
  BY <1>0, <1>31 DEF LoadResume, Goto, db, env
<1>32. ASSUME NEW w \in Workers, ReclaimRunning(w) PROVE Recoverable'
  BY <1>0, <1>32 DEF ReclaimRunning, GuardedStatus, rows, clock, env, NonTerminal,
       Goto, nonTerminalStatuses
<1>33. ASSUME NEW w \in Workers, FormTurn(w) PROVE Recoverable'
  BY <1>0, <1>33 DEF FormTurn, Goto, SetRow, Advance, IsLatest, clock, env
<1>34. ASSUME NEW w \in Workers, AiTurnStarts(w) PROVE Recoverable'
  BY <1>0, <1>34 DEF AiTurnStarts, Goto, db, env, KindOf
<1>35. ASSUME NEW w \in Workers, AiTurnEnds(w) PROVE Recoverable'
  BY <1>0, <1>35 DEF AiTurnEnds, Goto, SetRow, Advance, WaitTogether, Refused, clock,
       env, NonTerminal, KindOf, nonTerminalStatuses
<1>36. ASSUME NEW w \in Workers, MarkExecutionCancelled(w) PROVE Recoverable'
  BY <1>0, <1>36 DEF MarkExecutionCancelled, GuardedStatus, Say, rows, clock, env,
       Goto
<1>37. ASSUME NEW w \in Workers, MarkNodeFailed(w) PROVE Recoverable'
  <2>1. /\ pc[w] = "failNode"
        /\ \A v \in Workers : pc'[v] = IF v = w THEN "ack" ELSE pc[v]
        /\ UNCHANGED <<exec, clock, rowNode, nodeLog, jobs, loc, announced, env>>
    BY <1>0, <1>37 DEF MarkNodeFailed, Goto
  <2>2. \A r \in Rows : rowStatus'[r] = rowStatus[r] \/ (Open(r) /\ rowStatus'[r] = "failed")
    <3>1. loc[w].row \in Rows \cup {0}
      BY <1>0 DEF Local
    <3>2. \/ rowStatus' = rowStatus
          \/ /\ loc[w].row # 0 /\ Open(loc[w].row)
             /\ rowStatus' = [rowStatus EXCEPT ![loc[w].row] = "failed"]
      BY <1>37 DEF MarkNodeFailed, SetRow
    <3>3. CASE rowStatus' = rowStatus
      BY <3>3
    <3>4. CASE rowStatus' # rowStatus
      <4>1. loc[w].row \in Rows /\ Open(loc[w].row)
        BY <3>1, <3>2, <3>4
      <4>2. rowStatus' = [rowStatus EXCEPT ![loc[w].row] = "failed"]
        BY <3>2, <3>4
      <4>3. DOMAIN rowStatus = Rows
        BY <1>0
      <4>4. \A r \in Rows : rowStatus'[r] =
              IF r = loc[w].row THEN "failed" ELSE rowStatus[r]
        BY <4>1, <4>2, <4>3
      <4>. QED
        BY <4>1, <4>4
    <3>. QED
      BY <3>3, <3>4
  <2>3. RowsOpen'
    BY <2>1, <2>2
  <2>. QED
    BY <2>1, <2>3 DEF clock, env

<1>38. ASSUME NEW w \in Workers, CancelParked(w) PROVE Recoverable'
  BY <1>0, <1>38 DEF CancelParked, GuardedStatus, Say, clock, env, Goto
<1>39. ASSUME NEW w \in Workers, Announce(w) PROVE Recoverable'
  BY <1>0, <1>39 DEF Announce, Goto, db, env
<1>40. ASSUME NEW w \in Workers, Ack(w) PROVE Recoverable'
  BY <1>0, <1>40 DEF Ack, Goto, Free, db, env, Blank, Fresh
<1>41. ASSUME NEW w \in Workers, RecoverStuckRunning(w) PROVE Recoverable'
  BY <1>0, <1>41 DEF RecoverStuckRunning, Goto, rows, env, Blank, Fresh
<1>42. ASSUME NEW w \in Workers, RecoverOrphanPending(w) PROVE Recoverable'
  BY <1>0, <1>42 DEF RecoverOrphanPending, Goto, Say, rows, clock, env
<1>43. ASSUME NEW w \in Workers, Crash(w) PROVE Recoverable'
  <2>1. /\ \A v \in Workers : pc'[v] = IF v = w THEN "idle" ELSE pc[v]
        /\ \A v \in Workers : loc'[v] = IF v = w THEN Blank ELSE loc[v]
        /\ UNCHANGED <<db, announced, stopper>>
    BY <1>0, <1>43 DEF Crash, Goto
  <2>2. \A i \in JobIds : Live(i)' => Live(i) /\ jobs'[i].kind = jobs[i].kind
    BY <1>0, <1>43, CrashJobs
  <2>3. budget'["stop"] = 0
    BY <1>0, <1>43 DEF Crash, Spend, EnvEvents
  <2>4. NoStops'
    BY <2>1, <2>2, <2>3 DEF db
  <2>5. RunsOn' /\ RowsOpen'
    BY <2>1 DEF db
  <2>. QED
    BY <2>4, <2>5

<1>44. CASE UNCHANGED vars
  BY <1>44 DEF vars, db, rows, clock, env
<1>. QED
  BY <1>1, <1>2, <1>3, <1>4, <1>5, <1>6, <1>7, <1>8, <1>9, <1>10, <1>11, <1>12, <1>13,
     <1>14, <1>15, <1>16, <1>17, <1>18, <1>19, <1>20, <1>21, <1>22, <1>23, <1>24,
     <1>25, <1>26, <1>27, <1>28, <1>29, <1>30, <1>31, <1>32, <1>33, <1>34, <1>35,
     <1>36, <1>37, <1>38, <1>39, <1>40, <1>41, <1>42, <1>43, <1>44
  DEF Next, Environment, Work, Recovery

\* However often the workers die: an execution that nobody stopped, submitted to or
\* deferred leaves no row open when it ends.  Whoever takes its run job up again fails
\* the rows the dead worker left (processExecutionRun, failOrphans) before it goes on,
\* and a job given up as dead closes them with the execution.
THEOREM RecoveredRunCloses ==
  ASSUME Unattended PROVE Spec => []ClosedWhenQuiet
<1>1. Init => Typed /\ Redriven /\ Recoverable
  BY InitTyped, InitRedriven, InitRecoverable DEF Unattended
<1>2. Typed /\ Redriven /\ Recoverable /\ [Next]_vars => (Typed /\ Redriven /\ Recoverable)'
  BY StepTyped, StepRedriven, StepRecoverable DEF Unattended
<1>3. Recoverable => ClosedWhenQuiet
  BY DEF Recoverable, RowsOpen, Open, ClosedWhenQuiet
<1>. QED
  BY <1>1, <1>2, <1>3, PTL DEF Spec
===============================================================================
