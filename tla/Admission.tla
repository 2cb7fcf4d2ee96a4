------------------------------ MODULE Admission ------------------------------
(***************************************************************************)
(* The admission of queued executions under the concurrency caps of their  *)
(* workflow and workspace: run jobs taken up by several workers, the       *)
(* transaction that counts and admits under an advisory lock, the deferral *)
(* of a refused execution, and the queue-wait timeout.  A worker is one    *)
(* handler of the run queue; what the admitted segment does is left to     *)
(* ExecutionLifecycle, where one execution is followed and the caps are a  *)
(* coin toss.  Here the executions share the caps and a segment is only    *)
(* its end.                                                                *)
(***************************************************************************)
EXTENDS Integers, FiniteSets

CONSTANTS
  Executions, Workflows, Workspaces, WorkflowOf, WorkspaceOf, WfCap, WsCap,
  Batches,    \* the sets of executions that may be queued together (a bound)
  Workers,    \* handlers of the run queue
  Nobody,     \* a free advisory lock
  Nothing,    \* what an idle worker holds
  MaxResumes  \* continuations of parked executions (a bound)

ASSUME AdmissionAssumption ==
  /\ IsFiniteSet(Executions)
  /\ WorkflowOf \in [Executions -> Workflows]
  /\ WorkspaceOf \in [Workflows -> Workspaces]
  /\ WfCap \in [Workflows -> Nat \ {0}]
  /\ WsCap \in [Workspaces -> Nat \ {0}]
  /\ Nobody \notin Workers /\ Nothing \notin Executions
  /\ Batches \subseteq SUBSET Executions /\ MaxResumes \in Nat

VARIABLES
  status,   \* execution.status, as committed; "ended" is any terminal one
  queued,   \* how many run jobs of an execution wait in the queue
  holder,   \* who holds the advisory lock of a workspace
  pc,       \* where each worker is
  on,       \* the execution of the job a worker has
  resumed,  \* the executions a continuation has resumed: they passed no cap
  resumes,  \* what is left of MaxResumes
  crashed   \* whether a worker has crashed: at most one does, see Crash

vars == <<status, queued, holder, pc, on, resumed, resumes, crashed>>
env == <<resumed, resumes, crashed>>

Status == {"pending", "running", "waiting", "ended"}
SegmentEnd == {"waiting", "ended"}
InTransaction == {"count", "commit", "refuse"}
Label == InTransaction \cup {"idle", "timeout", "lock", "defer", "segment", "ack"}

WsOf(e) == WorkspaceOf[WorkflowOf[e]]
Running == {e \in Executions : status[e] = "running"}

TypeOK ==
  /\ status \in [Executions -> Status]
  /\ queued \in [Executions -> Nat]
  /\ holder \in [Workspaces -> Workers \cup {Nobody}]
  /\ pc \in [Workers -> Label]
  /\ on \in [Workers -> Executions \cup {Nothing}]
  /\ \A w \in Workers : pc[w] # "idle" => on[w] \in Executions
  /\ resumed \in SUBSET Executions
  /\ resumes \in Nat
  /\ crashed \in BOOLEAN

\* execute() inserted the row of each execution of a batch and queued its job;
\* the other executions have ended.
Init ==
  /\ \E batch \in Batches :
       /\ status = [e \in Executions |-> IF e \in batch THEN "pending" ELSE "ended"]
       /\ queued = [e \in Executions |-> IF e \in batch THEN 1 ELSE 0]
  /\ holder = [s \in Workspaces |-> Nobody]
  /\ pc = [w \in Workers |-> "idle"]
  /\ on = [w \in Workers |-> Nothing]
  /\ resumed = {} /\ resumes = MaxResumes /\ crashed = FALSE
-------------------------------------------------------------------------------
Goto(w, label) == pc' = [pc EXCEPT ![w] = label]

SetStatus(e, s) == status' = [status EXCEPT ![e] = s]

\* The uncommitted update of an admission keeps other writers of the row out.
RowFree(e) == \A w \in Workers : ~(pc[w] = "commit" /\ on[w] = e)

Unlock(w) == holder' = [s \in Workspaces |-> IF holder[s] = w THEN Nobody ELSE holder[s]]

\* runExecutionFromQueue: a job of a running execution is a redelivery, which
\* drives it again without counting it; one of any other but a pending
\* execution is discarded.  The clock may say that the queue wait has run out.
PickJob(w, e) ==
  /\ pc[w] = "idle" /\ queued[e] > 0
  /\ queued' = [queued EXCEPT ![e] = @ - 1]
  /\ on' = [on EXCEPT ![w] = e]
  /\ \E late \in BOOLEAN :
       Goto(w, CASE status[e] = "running" -> "segment"
                 [] status[e] = "pending" -> IF late THEN "timeout" ELSE "lock"
                 [] OTHER -> "ack")
  /\ UNCHANGED <<status, holder, env>>

\* Taken or lost, the timeout ends the job.
QueueWaitTimeout(w) ==
  /\ pc[w] = "timeout" /\ RowFree(on[w])
  /\ \/ status[on[w]] = "pending" /\ SetStatus(on[w], "ended")
     \/ status[on[w]] # "pending" /\ UNCHANGED status
  /\ Goto(w, "ack")
  /\ UNCHANGED <<queued, holder, on, env>>

\* Bug: the advisory lock is keyed by the execution instead of its workspace.
LockByExecution(w) ==
  /\ pc[w] = "lock"
  /\ \A v \in Workers : ~(pc[v] \in InTransaction /\ on[v] = on[w])
  /\ Goto(w, "count")
  /\ UNCHANGED <<status, queued, holder, on, env>>

Lock(w) ==
  /\ pc[w] = "lock" /\ holder[WsOf(on[w])] = Nobody
  /\ holder' = [holder EXCEPT ![WsOf(on[w])] = w]
  /\ Goto(w, "count")
  /\ UNCHANGED <<status, queued, on, env>>

\* Room in both caps, as the count of the running executions sees it.
Room(S, e) ==
  /\ Cardinality({x \in S : WsOf(x) = WsOf(e)}) < WsCap[WsOf(e)]
  /\ Cardinality({x \in S : WorkflowOf[x] = WorkflowOf[e]}) < WfCap[WorkflowOf[e]]

\* Bug: the update does not ask for a pending row.
UpdateAnyRow(w) ==
  /\ pc[w] = "count" /\ RowFree(on[w])
  /\ Goto(w, IF Room(Running, on[w]) THEN "commit" ELSE "refuse")
  /\ UNCHANGED <<status, queued, holder, on, env>>

\* The conditional UPDATE: it counts what is committed when it starts, and
\* locks the row it changes.
CountAndUpdate(w) ==
  /\ pc[w] = "count" /\ RowFree(on[w])
  /\ Goto(w, IF status[on[w]] = "pending" /\ Room(Running, on[w])
             THEN "commit" ELSE "refuse")
  /\ UNCHANGED <<status, queued, holder, on, env>>

\* The transaction ends: the lock goes and the admitted row is seen running.
Commit(w) ==
  /\ pc[w] = "commit"
  /\ SetStatus(on[w], "running")
  /\ Unlock(w) /\ Goto(w, "segment")
  /\ UNCHANGED <<queued, on, env>>

\* Bug: a lock of the session instead of the transaction outlives a refusal.
CommitKeepsLock(w) ==
  /\ pc[w] = "refuse" /\ Goto(w, "defer")
  /\ UNCHANGED <<status, queued, holder, on, env>>

CommitNothing(w) ==
  /\ pc[w] = "refuse"
  /\ Unlock(w) /\ Goto(w, "defer")
  /\ UNCHANGED <<status, queued, on, env>>

\* Bug: a refused execution is not queued again.
DropRefused(w) ==
  /\ pc[w] = "defer" /\ Goto(w, "ack")
  /\ UNCHANGED <<status, queued, holder, on, env>>

\* A refused execution is queued again, with a delay; also one that left
\* pending meanwhile, whose next job is discarded.
Defer(w) ==
  /\ pc[w] = "defer"
  /\ queued' = [queued EXCEPT ![on[w]] = @ + 1]
  /\ Goto(w, "ack")
  /\ UNCHANGED <<status, holder, on, env>>

\* The segment parks the execution or ends it, unless it was stopped.
SegmentEnds(w) ==
  /\ pc[w] = "segment"
  /\ \/ status[on[w]] = "running" /\ \E s \in SegmentEnd : SetStatus(on[w], s)
     \/ status[on[w]] # "running" /\ UNCHANGED status
  /\ Goto(w, "ack")
  /\ UNCHANGED <<queued, holder, on, env>>

\* Bug: the job is given up before its segment is over.
AckEarly(w) ==
  /\ pc[w] = "ack" /\ Goto(w, "segment")
  /\ on' = [on EXCEPT ![w] = Nothing]
  /\ UNCHANGED <<status, queued, holder, env>>

Ack(w) ==
  /\ pc[w] = "ack" /\ Goto(w, "idle")
  /\ on' = [on EXCEPT ![w] = Nothing]
  /\ UNCHANGED <<status, queued, holder, env>>

\* The rest of the engine: a continuation resumes a parked execution without
\* asking the caps, and its segment ends; a user stops an execution.
Resume(e) ==
  /\ status[e] = "waiting" /\ resumes > 0
  /\ SetStatus(e, "running")
  /\ resumed' = resumed \cup {e} /\ resumes' = resumes - 1
  /\ UNCHANGED <<queued, holder, pc, on, crashed>>

ResumedSegmentEnds(e) ==
  /\ status[e] = "running" /\ e \in resumed
  /\ \E s \in SegmentEnd : SetStatus(e, s)
  /\ UNCHANGED <<queued, holder, pc, on, env>>

Stop(e) ==
  /\ status[e] \in {"pending", "running"} /\ RowFree(e)
  /\ SetStatus(e, "ended")
  /\ UNCHANGED <<queued, holder, pc, on, env>>

\* The process of a worker dies: its transaction is rolled back and its lock
\* released, and the queue delivers the job again.  A job that stalls a second
\* time is failed instead; with one crash none does (ExecutionLifecycle has it).
Crash(w) ==
  /\ ~crashed /\ crashed' = TRUE
  /\ pc[w] # "idle" /\ Goto(w, "idle")
  /\ queued' = [queued EXCEPT ![on[w]] = @ + 1]
  /\ on' = [on EXCEPT ![w] = Nothing]
  /\ Unlock(w)
  /\ UNCHANGED <<status, resumed, resumes>>

Work(w) ==
  \/ QueueWaitTimeout(w) \/ Lock(w) \/ CountAndUpdate(w) \/ Commit(w)
  \/ CommitNothing(w) \/ Defer(w) \/ SegmentEnds(w) \/ Ack(w)

Next ==
  \/ \E w \in Workers : Work(w) \/ Crash(w) \/ \E e \in Executions : PickJob(w, e)
  \/ \E e \in Executions :
       Resume(e) \/ ResumedSegmentEnds(e) \/ Stop(e)

Spec == Init /\ [][Next]_vars

\* Handlers run on while their process lives, the queue hands every job out in
\* turn, and a resumed segment ends.
Fairness ==
  /\ \A w \in Workers : WF_vars(Work(w))
  /\ \A e \in Executions : /\ SF_vars(\E w \in Workers : PickJob(w, e))
                           /\ WF_vars(ResumedSegmentEnds(e))

FairSpec == Spec /\ Fairness
-------------------------------------------------------------------------------
\* The executions that run because they were admitted.
Admitted == Running \ resumed

\* However admissions interleave, the executions that were admitted and have
\* neither parked nor ended never exceed the cap of a workspace or a workflow:
\* the count and the update of an admission are serialised by the advisory lock.
CapsHeld ==
  /\ \A s \in Workspaces :
       Cardinality({e \in Admitted : WsOf(e) = s}) <= WsCap[s]
  /\ \A f \in Workflows :
       Cardinality({e \in Admitted : WorkflowOf[e] = f}) <= WfCap[f]

\* A pending execution is never lost: a job of it is queued or in the hands of a
\* worker that has not let go of it, through refusals, deferrals and a crash.
PendingHasJob ==
  \A e \in Executions : status[e] = "pending" =>
    \/ queued[e] > 0
    \/ \E w \in Workers : on[w] = e /\ pc[w] # "ack"

\* A queued execution leaves the queue, also when the clock never says that
\* its wait has run out: a slot that is given back reaches whoever is deferred.
PendingLeaves ==
  \A e \in Executions : status[e] = "pending" ~> status[e] # "pending"

\* Admission implements the pool of slots of SlotPool: an execution holds a slot
\* from the commit of its admission to its first park or its end.
SlotOf(e) == CASE status[e] = "pending" -> "queued"
               [] status[e] = "running" /\ e \notin resumed -> "holding"
               [] OTHER -> "gone"
Slots == INSTANCE SlotPool WITH slot <- [e \in Executions |-> SlotOf(e)]
ImplementsSlotPool == Slots!SlotSpec
=============================================================================
