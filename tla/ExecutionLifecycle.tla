-------------------------- MODULE ExecutionLifecycle --------------------------
(***************************************************************************)
(* One workflow execution from its queueing to its end: the run queue, the *)
(* continuation queue, the workers that pick jobs up, the database rows    *)
(* they share, the user who submits inputs and presses stop, the boot-time *)
(* recovery scan, and worker crashes.                                      *)
(*                                                                         *)
(* Every database statement or transaction of the code is one action; what *)
(* a worker holds in memory between two of them is in loc.  A worker       *)
(* stands for one asynchronous job handler, in a process of its own.  The  *)
(* workflow is a chain of nodes 1..N: branches, loops and containers are   *)
(* not modelled here.                                                      *)
(***************************************************************************)
EXTENDS ExecutionStatus, Integers, Sequences

CONSTANTS
  Workers,    \* handlers of the run and continuation queues
  JobIds,     \* the jobs that may be in the two queues at one time (a bound)
  NoJob,      \* a worker that runs outside of any job
  N,          \* length of the chain of nodes
  Kind,       \* what each node does: run to its end, or park for an input
  Policy,     \* what each node does about the failure of its handler
  MaxRows,    \* node-execution rows that may be inserted (a bound)
  CapsTaken,  \* whether other executions may fill the concurrency caps
  LogMayFail, \* whether the path-log insert may be lost (its errors are swallowed)
  Budget      \* how often each event of the environment may happen (bounds)

Nodes == 1..N
Rows == 1..MaxRows

EnvEvents == {"crash", "lose", "age", "submit", "stop"}

ASSUME ChainAssumption ==
  /\ N \in Nat \ {0}
  /\ MaxRows \in Nat \ {0}
  /\ Kind \in [Nodes -> {"plain", "form", "ai"}]
  /\ Policy \in [Nodes -> {"stop", "skip", "use_default", "route_error"}]
ASSUME NoJobAssumption == NoJob \notin JobIds
ASSUME BudgetAssumption ==
  LogMayFail \in BOOLEAN /\ CapsTaken \in BOOLEAN /\ Budget \in [EnvEvents -> Nat]

VARIABLES
  exec,       \* execution.status
  started,    \* execution.started_at: "fresh", or "stale" once 30 minutes old
  overdue,    \* whether execution.queued_at is past the queue-wait timeout
  rowNode,    \* node_execution.node_id (0: not inserted yet)
  rowStatus,  \* node_execution.status
  nodeLog,    \* the nodes in execution_node_log
  jobs,       \* the jobs of the two queues
  pc,         \* where each worker is
  loc,        \* what each worker remembers
  stopper,    \* the stop request between its read and its write
  announced,  \* the terminal events emitted so far, in order (history)
  budget      \* what is left of Budget

db == <<exec, started, overdue, rowNode, rowStatus, nodeLog>>
rows == <<rowNode, rowStatus>>
clock == <<started, overdue>>
env == <<stopper, budget>>
vars == <<db, jobs, pc, loc, announced, env>>

JobKind == {"none", "run", "message", "end", "cancel"}
Free == [kind |-> "none", row |-> 0, stalls |-> 0, state |-> "free"]
Queued(kind, r) == [kind |-> kind, row |-> r, stalls |-> 0, state |-> "waiting"]
Job == [kind : JobKind, row : Rows \cup {0}, stalls : 0..1,
        state : {"free", "waiting", "active", "dead"}]

Label ==
  {"idle", "read", "timeout", "admit", "redrive", "orphans", "rehydrate",
   "boundary", "create", "handler", "append", "appendPark", "park", "markNode",
   "finalizeCancelled", "finalizeFailed", "unresumable", "announceUnresumable",
   "failNode", "claim", "load", "reclaim", "turn", "aiTurn", "cancel",
   "announce", "ack"}

\* done holds the nodes a re-drive skips: it is empty in every other segment.
Local == [job : JobIds \cup {NoJob}, ptr : 1..(N + 1), row : Rows \cup {0},
          done : SUBSET Nodes, say : Terminal \cup {"none"}]

\* Bug: the pointer of a segment counts from zero.
FreshAtZero(j, r) == [job |-> j, ptr |-> 0, row |-> r, done |-> {}, say |-> "none"]

Fresh(j, r) == [job |-> j, ptr |-> 1, row |-> r, done |-> {}, say |-> "none"]
Blank == Fresh(NoJob, 0)

TypeOK ==
  /\ exec \in Status
  /\ started \in {"fresh", "stale"}
  /\ overdue \in BOOLEAN
  /\ rowNode \in [Rows -> Nodes \cup {0}]
  /\ rowStatus \in [Rows -> NodeStatus]
  /\ nodeLog \subseteq Nodes
  /\ jobs \in [JobIds -> Job]
  /\ pc \in [Workers -> Label]
  /\ loc \in [Workers -> Local]
  /\ stopper \in {"idle", "sawWaiting", "sawActive"}
  /\ announced \in Seq(Terminal)
  /\ budget \in [EnvEvents -> Nat]

\* The execution row was just inserted and its run job queued.
Init ==
  /\ exec = "pending" /\ started = "fresh" /\ overdue = FALSE
  /\ rowNode = [r \in Rows |-> 0]
  /\ rowStatus = [r \in Rows |-> "absent"]
  /\ nodeLog = {}
  /\ \E j \in JobIds :
       jobs = [i \in JobIds |->
                 IF i = j THEN Queued("run", 0) ELSE Free]
  /\ pc = [w \in Workers |-> "idle"]
  /\ loc = [w \in Workers |-> Blank]
  /\ stopper = "idle" /\ announced = <<>>
  /\ budget = Budget
-------------------------------------------------------------------------------
NonTerminal == exec \in nonTerminalStatuses(FALSE)

Goto(w, label) == pc' = [pc EXCEPT ![w] = label]

Enqueue(j, kind, r) ==
  /\ jobs[j].state = "free"
  /\ jobs' = [jobs EXCEPT ![j] = Queued(kind, r)]

KindOf(w) == jobs[loc[w].job].kind

\* The node-execution row a lookup by node, newest first, returns.
IsLatest(r, n) ==
  rowNode[r] = n /\ \A q \in Rows : rowNode[q] = n => q <= r

SetRow(r, s) == rowStatus' = [rowStatus EXCEPT ![r] = s]

\* A write of the execution status, with the label taken when it is applied and
\* the one taken when the row was already terminal.
GuardedStatus(w, guard, to, applied, refused) ==
  \/ guard /\ exec' = to /\ Goto(w, applied)
  \/ ~guard /\ UNCHANGED exec /\ Goto(w, refused)

Say(w, e) == loc' = [loc EXCEPT ![w].say = e]

Advance(w) == loc' = [loc EXCEPT ![w].ptr = @ + 1]
-------------------------------------------------------------------------------
(* Taking a job up, and giving it back.                                    *)

PickJob(w, j) ==
  /\ pc[w] = "idle" /\ jobs[j].state = "waiting"
  /\ jobs' = [jobs EXCEPT ![j].state = "active"]
  /\ loc' = [loc EXCEPT ![w] = Fresh(j, jobs[j].row)]
  /\ Goto(w, CASE jobs[j].kind = "run"    -> "read"
               [] jobs[j].kind = "cancel" -> "cancel"
               [] OTHER                   -> "claim")
  /\ UNCHANGED <<db, announced, env>>

Ack(w) ==
  /\ pc[w] = "ack"
  /\ jobs' = [j \in JobIds |-> IF j = loc[w].job THEN Free ELSE jobs[j]]
  /\ loc' = [loc EXCEPT ![w] = Blank]
  /\ Goto(w, "idle")
  /\ UNCHANGED <<db, announced, env>>

Announce(w) ==
  /\ pc[w] \in {"announce", "announceUnresumable"}
  /\ announced' = Append(announced, loc[w].say)
  /\ Goto(w, IF pc[w] = "announce" THEN "ack" ELSE "failNode")
  /\ UNCHANGED <<db, jobs, loc, env>>

\* Bug: the dead job is dropped and the execution it was running is left behind.
StalledExhaustedDropsJob(w, j) ==
  /\ pc[w] = "idle" /\ jobs[j].kind = "run" /\ jobs[j].state = "dead"
  /\ jobs' = [jobs EXCEPT ![j] = Free]
  /\ UNCHANGED <<db, pc, loc, announced, env>>

\* A run job that stalled more often than allowed fails: one transaction closes
\* the execution and its running rows.
StalledExhausted(w, j) ==
  /\ pc[w] = "idle" /\ jobs[j].kind = "run" /\ jobs[j].state = "dead"
  /\ jobs' = [jobs EXCEPT ![j] = Free]
  /\ IF exec = "running"
     THEN /\ exec' = "failed"
          /\ rowStatus' = [r \in Rows |->
               IF rowStatus[r] = "running" THEN "failed" ELSE rowStatus[r]]
          /\ Say(w, "failed") /\ Goto(w, "announce")
     ELSE UNCHANGED <<exec, rowStatus, loc, pc>>
  /\ UNCHANGED <<clock, rowNode, nodeLog, announced, env>>
-------------------------------------------------------------------------------
(* The run job: admission, deferral and queue-wait timeout.                *)

ReadExecution(w) ==
  /\ pc[w] = "read"
  /\ Goto(w, CASE exec = "running" -> "redrive"
               [] exec = "pending" -> IF overdue THEN "timeout" ELSE "admit"
               [] OTHER            -> "ack")
  /\ UNCHANGED <<db, jobs, loc, announced, env>>

QueueWaitTimeout(w) ==
  /\ pc[w] = "timeout"
  /\ GuardedStatus(w, exec = "pending", "cancelled", "announce", "ack")
  /\ Say(w, "cancelled")
  /\ UNCHANGED <<clock, rows, nodeLog, jobs, announced, env>>

Admit(w) ==
  /\ pc[w] = "admit" /\ exec = "pending"
  /\ exec' = "running" /\ started' = "fresh"
  /\ Goto(w, "boundary")
  /\ UNCHANGED <<overdue, rows, nodeLog, jobs, loc, announced, env>>

\* The caps are taken by other executions, or the row is no longer pending: the
\* same message is queued again, under a job id of its own.
Defer(w) ==
  /\ pc[w] = "admit" /\ (CapsTaken \/ exec # "pending")
  /\ \E j \in JobIds : Enqueue(j, "run", 0)
  /\ Goto(w, "ack")
  /\ UNCHANGED <<db, loc, announced, env>>
-------------------------------------------------------------------------------
(* Re-drive of an execution found running by a redelivered run job or by   *)
(* the recovery scan.                                                      *)

Redrive(w) ==
  /\ pc[w] = "redrive"
  /\ Goto(w, IF exec = "running" THEN "orphans" ELSE "ack")
  /\ UNCHANGED <<db, jobs, loc, announced, env>>

\* Bug: the rows of the dead segment are left running.
FailOrphansForgotten(w) ==
  /\ pc[w] = "orphans" /\ Goto(w, "rehydrate")
  /\ UNCHANGED <<db, jobs, loc, announced, env>>

FailOrphans(w) ==
  /\ pc[w] = "orphans"
  /\ rowStatus' = [r \in Rows |->
       IF rowStatus[r] = "running" THEN "failed" ELSE rowStatus[r]]
  /\ Goto(w, "rehydrate")
  /\ UNCHANGED <<exec, clock, rowNode, nodeLog, jobs, loc, announced, env>>

HasCompletedRow(n) ==
  \E r \in Rows : rowNode[r] = n /\ rowStatus[r] = "completed"

Rehydrate(w) ==
  /\ pc[w] = "rehydrate"
  /\ loc' = [loc EXCEPT ![w].done = {n \in nodeLog : HasCompletedRow(n)}]
  /\ Goto(w, "boundary")
  /\ UNCHANGED <<db, jobs, announced, env>>

\* The workflow is gone, a checkpoint is missing or has an unknown version, or
\* the reconstruction throws.
RehydrationFails(w) ==
  /\ pc[w] \in {"rehydrate", "reclaim", "turn"}
  /\ Goto(w, "unresumable")
  /\ UNCHANGED <<db, jobs, loc, announced, env>>
-------------------------------------------------------------------------------
(* The dispatch loop.                                                      *)

\* The active-time limit, the iteration limit or the set-up of a segment fails it.
LimitExceeded(w) ==
  /\ pc[w] = "boundary"
  /\ Goto(w, "finalizeFailed")
  /\ UNCHANGED <<db, jobs, loc, announced, env>>

Boundary(w) ==
  /\ pc[w] = "boundary" /\ loc[w].ptr \in Nodes
  /\ IF exec = "cancelled"
     THEN Goto(w, "finalizeCancelled") /\ UNCHANGED loc
     ELSE IF loc[w].ptr \in loc[w].done
          THEN Advance(w) /\ UNCHANGED pc
          ELSE Goto(w, "create") /\ UNCHANGED loc
  /\ UNCHANGED <<db, jobs, announced, env>>

\* Bug: the end of the loop writes its status whatever the row holds.
CompleteUnguarded(w) ==
  /\ pc[w] = "boundary" /\ loc[w].ptr = N + 1
  /\ exec' = "completed" /\ Goto(w, "announce") /\ Say(w, "completed")
  /\ UNCHANGED <<clock, rows, nodeLog, jobs, announced, env>>

Complete(w) ==
  /\ pc[w] = "boundary" /\ loc[w].ptr = N + 1
  /\ GuardedStatus(w, NonTerminal, "completed", "announce", "ack")
  /\ Say(w, "completed")
  /\ UNCHANGED <<clock, rows, nodeLog, jobs, announced, env>>

\* Bug: a failure is announced although another writer ended the execution first.
FinalizeFailedAlwaysAnnounces(w) ==
  /\ pc[w] = "finalizeFailed"
  /\ GuardedStatus(w, NonTerminal, "failed", "announce", "announce")
  /\ Say(w, "failed")
  /\ UNCHANGED <<clock, rows, nodeLog, jobs, announced, env>>

FinalizeFailed(w) ==
  /\ pc[w] = "finalizeFailed"
  /\ GuardedStatus(w, NonTerminal, "failed", "announce", "ack")
  /\ Say(w, "failed")
  /\ UNCHANGED <<clock, rows, nodeLog, jobs, announced, env>>

\* Cancelling announces when its own write is applied, and also when the row turns
\* out to be cancelled already.
FinalizeCancelled(w) ==
  /\ pc[w] = "finalizeCancelled"
  /\ GuardedStatus(w, NonTerminal \/ exec = "cancelled", "cancelled", "announce", "ack")
  /\ Say(w, "cancelled")
  /\ UNCHANGED <<clock, rows, nodeLog, jobs, announced, env>>
-------------------------------------------------------------------------------
(* One node: its row, its handler and its error policy, its log entry.     *)

CreateRow(w) ==
  /\ pc[w] = "create"
  /\ \E r \in Rows :
       /\ rowStatus[r] = "absent" /\ \A q \in 1..(r - 1) : rowStatus[q] # "absent"
       /\ rowNode' = [rowNode EXCEPT ![r] = loc[w].ptr]
       /\ SetRow(r, "running")
       /\ loc' = [loc EXCEPT ![w].row = r]
  /\ Goto(w, "handler")
  /\ UNCHANGED <<exec, clock, nodeLog, jobs, announced, env>>

\* The worker saves the row entity it created, whatever the row holds by now.
SaveRow(w, s) ==
  /\ pc[w] = "handler"
  /\ SetRow(loc[w].row, s)
  /\ UNCHANGED <<exec, clock, rowNode, nodeLog, jobs, announced, env>>

HandlerCompletes(w) ==
  /\ SaveRow(w, "completed")
  /\ Kind[loc[w].ptr] \in {"plain", "ai"}
  /\ Goto(w, "append") /\ UNCHANGED loc

HandlerBlocks(w) ==
  /\ SaveRow(w, "running")
  /\ Kind[loc[w].ptr] \in {"form", "ai"}
  /\ Goto(w, "appendPark") /\ UNCHANGED loc

\* Bug: the failure of the node ends the execution before its row is saved.
HandlerFailsUnsaved(w) ==
  /\ SaveRow(w, "running") /\ Goto(w, "finalizeFailed") /\ UNCHANGED loc

\* Every policy but "stop" goes on, and leaves the node out of the path log.
HandlerFails(w) ==
  \E s \in {"failed", "skipped", "completed"} :
    /\ SaveRow(w, s)
    /\ \/ Policy[loc[w].ptr] = "stop" /\ s = "failed"
          /\ Goto(w, "finalizeFailed") /\ UNCHANGED loc
       \/ /\ <<Policy[loc[w].ptr], s>> \in
               {<<"skip", "skipped">>, <<"use_default", "completed">>,
                <<"route_error", "failed">>}
          /\ Goto(w, "boundary") /\ Advance(w)

AppendPath(w) ==
  /\ pc[w] \in {"append", "appendPark"}
  /\ \/ nodeLog' = nodeLog \cup {loc[w].ptr}
     \/ LogMayFail /\ UNCHANGED nodeLog
  /\ IF pc[w] = "append" THEN Goto(w, "boundary") /\ Advance(w)
                         ELSE Goto(w, "park") /\ UNCHANGED loc
  /\ UNCHANGED <<exec, clock, rows, jobs, announced, env>>
-------------------------------------------------------------------------------
(* Parking: the execution and the newest row of the node wait together, or *)
(* not at all.                                                             *)

WaitTogether(w, r) ==
  /\ exec' = "waiting_for_input" /\ SetRow(r, "waiting_for_input")
  /\ Goto(w, "ack") /\ UNCHANGED loc

\* A linked write on a terminal execution is refused: the row is cancelled next.
Refused(w, r) ==
  /\ Goto(w, "markNode") /\ loc' = [loc EXCEPT ![w].row = r]
  /\ UNCHANGED <<exec, rowStatus>>

\* Bug: the park does not look at what became of the execution.
ParkUnguarded(w) ==
  /\ pc[w] = "park"
  /\ \E r \in Rows : IsLatest(r, loc[w].ptr) /\ WaitTogether(w, r)
  /\ UNCHANGED <<clock, rowNode, nodeLog, jobs, announced, env>>

Park(w) ==
  /\ pc[w] = "park"
  /\ \E r \in Rows :
       /\ IsLatest(r, loc[w].ptr)
       /\ IF NonTerminal THEN WaitTogether(w, r) ELSE Refused(w, r)
  /\ UNCHANGED <<clock, rowNode, nodeLog, jobs, announced, env>>

MarkNodeCancelled(w) ==
  /\ pc[w] = "markNode"
  /\ SetRow(loc[w].row, "cancelled")
  /\ Goto(w, "finalizeCancelled")
  /\ UNCHANGED <<exec, clock, rowNode, nodeLog, jobs, loc, announced, env>>
-------------------------------------------------------------------------------
(* The resume job: the claim of the waiting row, and the turn.             *)

\* Bug: the claim checks the execution and not the row.
ClaimOfAnyRow(w) ==
  /\ pc[w] = "claim"
  /\ IF exec \in {"waiting_for_input", "running"}
     THEN /\ SetRow(loc[w].row, "running") /\ exec' = "running"
          /\ Goto(w, "load")
     ELSE Goto(w, "ack") /\ UNCHANGED <<exec, rowStatus>>
  /\ UNCHANGED <<clock, rowNode, nodeLog, jobs, loc, announced, env>>

Claim(w) ==
  /\ pc[w] = "claim"
  /\ IF /\ rowStatus[loc[w].row] = "waiting_for_input"
        /\ exec \in {"waiting_for_input", "running"}
     THEN /\ SetRow(loc[w].row, "running") /\ exec' = "running"
          /\ Goto(w, "load")
     ELSE Goto(w, "ack") /\ UNCHANGED <<exec, rowStatus>>
  /\ UNCHANGED <<clock, rowNode, nodeLog, jobs, loc, announced, env>>

\* The rows are read again after the claim.  When one cannot be resumed any more
\* the row id is still unresolved, and no row will be closed.
LoadResume(w) ==
  /\ pc[w] = "load"
  /\ IF /\ exec \in {"waiting_for_input", "running"}
        /\ rowStatus[loc[w].row] \in {"waiting_for_input", "running"}
     THEN /\ loc' = [loc EXCEPT ![w].ptr = rowNode[loc[w].row]]
          /\ Goto(w, IF exec = "running" THEN "turn" ELSE "reclaim")
     ELSE /\ loc' = [loc EXCEPT ![w].row = 0]
          /\ Goto(w, "unresumable")
  /\ UNCHANGED <<db, jobs, announced, env>>

ReclaimRunning(w) ==
  /\ pc[w] = "reclaim"
  /\ GuardedStatus(w, NonTerminal, "running", "turn", "turn")
  /\ UNCHANGED <<clock, rows, nodeLog, jobs, loc, announced, env>>

FormTurn(w) ==
  /\ pc[w] = "turn" /\ Kind[loc[w].ptr] = "form"
  /\ \E r \in Rows : IsLatest(r, loc[w].ptr) /\ SetRow(r, "completed")
  /\ Advance(w) /\ Goto(w, "boundary")
  /\ UNCHANGED <<exec, clock, rowNode, nodeLog, jobs, announced, env>>

\* A message looks for a cancel before the model is called, an end does not.
AiTurnStarts(w) ==
  /\ pc[w] = "turn" /\ Kind[loc[w].ptr] = "ai"
  /\ Goto(w, IF KindOf(w) = "message" /\ exec = "cancelled"
               THEN "markNode" ELSE "aiTurn")
  /\ UNCHANGED <<db, jobs, loc, announced, env>>

\* Bug: a conversation that ends leaves the loop at its own node.
AiTurnEndsInPlace(w) ==
  /\ pc[w] = "aiTurn"
  /\ IF NonTerminal
     THEN SetRow(loc[w].row, "completed") /\ Goto(w, "boundary") /\ UNCHANGED <<exec, loc>>
     ELSE Refused(w, loc[w].row)
  /\ UNCHANGED <<clock, rowNode, nodeLog, jobs, announced, env>>

AiTurnEnds(w) ==
  /\ pc[w] = "aiTurn"
  /\ IF NonTerminal
     THEN \/ KindOf(w) = "message" /\ WaitTogether(w, loc[w].row)
          \/ /\ SetRow(loc[w].row, "completed")
             /\ Goto(w, "boundary") /\ Advance(w) /\ UNCHANGED exec
          \/ /\ KindOf(w) = "message" /\ SetRow(loc[w].row, "failed")
             /\ Goto(w, "finalizeFailed") /\ UNCHANGED <<exec, loc>>
     ELSE Refused(w, loc[w].row)
  /\ UNCHANGED <<clock, rowNode, nodeLog, jobs, announced, env>>
-------------------------------------------------------------------------------
(* A resume or a re-drive that cannot go on cancels the execution, then, by *)
(* a second statement, fails the row it had resolved.                      *)

MarkExecutionCancelled(w) ==
  /\ pc[w] = "unresumable"
  /\ GuardedStatus(w, exec \in {"waiting_for_input", "running"}, "cancelled",
                   "announceUnresumable", "failNode")
  /\ Say(w, "cancelled")
  /\ UNCHANGED <<clock, rows, nodeLog, jobs, announced, env>>

MarkNodeFailed(w) ==
  /\ pc[w] = "failNode"
  /\ IF loc[w].row # 0 /\ rowStatus[loc[w].row] \in {"waiting_for_input", "running"}
     THEN SetRow(loc[w].row, "failed") ELSE UNCHANGED rowStatus
  /\ Goto(w, "ack")
  /\ UNCHANGED <<exec, clock, rowNode, nodeLog, jobs, loc, announced, env>>

\* Bug: the cancel job ends the execution and leaves its row waiting.
CancelParkedAlone(w) ==
  /\ pc[w] = "cancel"
  /\ GuardedStatus(w, exec = "waiting_for_input", "cancelled", "announce", "ack")
  /\ Say(w, "cancelled")
  /\ UNCHANGED <<clock, rows, nodeLog, jobs, announced, env>>

\* Bug: the cancel job closes every row, those that were completed too.
CancelParkedWithEveryRow(w) ==
  /\ pc[w] = "cancel"
  /\ GuardedStatus(w, exec = "waiting_for_input", "cancelled", "announce", "ack")
  /\ rowStatus' = [r \in Rows |->
       IF exec = "waiting_for_input" /\ rowStatus[r] # "absent"
       THEN "cancelled" ELSE rowStatus[r]]
  /\ Say(w, "cancelled")
  /\ UNCHANGED <<clock, rowNode, nodeLog, jobs, announced, env>>

\* Bug: the cancel job announces although it found nothing to cancel.
CancelParkedAlwaysAnnounces(w) ==
  /\ pc[w] = "cancel"
  /\ GuardedStatus(w, exec = "waiting_for_input", "cancelled", "announce", "announce")
  /\ rowStatus' = [r \in Rows |->
       IF exec = "waiting_for_input" /\ rowStatus[r] = "waiting_for_input"
       THEN "cancelled" ELSE rowStatus[r]]
  /\ Say(w, "cancelled")
  /\ UNCHANGED <<clock, rowNode, nodeLog, jobs, announced, env>>

\* The cancel job: only an execution that still waits, with its waiting rows.
CancelParked(w) ==
  /\ pc[w] = "cancel"
  /\ GuardedStatus(w, exec = "waiting_for_input", "cancelled", "announce", "ack")
  /\ rowStatus' = [r \in Rows |->
       IF exec = "waiting_for_input" /\ rowStatus[r] = "waiting_for_input"
       THEN "cancelled" ELSE rowStatus[r]]
  /\ Say(w, "cancelled")
  /\ UNCHANGED <<clock, rowNode, nodeLog, jobs, announced, env>>
-------------------------------------------------------------------------------
(* The recovery scan, run at boot or on request by any instance.           *)

RecoverStuckRunning(w) ==
  /\ pc[w] = "idle" /\ exec = "running" /\ started = "stale"
  /\ started' = "fresh"
  /\ loc' = [loc EXCEPT ![w] = Blank]
  /\ Goto(w, "redrive")
  /\ UNCHANGED <<exec, overdue, rows, nodeLog, jobs, announced, env>>

RecoverOrphanPending(w) ==
  /\ pc[w] = "idle" /\ exec = "pending" /\ overdue
  /\ exec' = "cancelled"
  /\ Say(w, "cancelled") /\ Goto(w, "announce")
  /\ UNCHANGED <<clock, rows, nodeLog, jobs, announced, env>>
-------------------------------------------------------------------------------
(* The user: an input for the one waiting row, a stop request.             *)

Spend(e) == budget[e] > 0 /\ budget' = [budget EXCEPT ![e] = @ - 1]

\* A form takes a submission, a conversation a message or an end.
Submit ==
  /\ Spend("submit")
  /\ \E r \in Rows, kind \in {"message", "end"}, j \in JobIds :
       /\ \A q \in Rows : rowStatus[q] = "waiting_for_input" <=> q = r
       /\ Kind[rowNode[r]] = "form" => kind = "message"
       /\ Enqueue(j, kind, r)
  /\ UNCHANGED <<db, pc, loc, announced, stopper>>

StopRead ==
  /\ stopper = "idle" /\ exec \notin Terminal /\ Spend("stop")
  /\ stopper' = IF exec = "waiting_for_input" THEN "sawWaiting" ELSE "sawActive"
  /\ UNCHANGED <<db, jobs, pc, loc, announced>>

StopActive ==
  /\ stopper = "sawActive" /\ stopper' = "idle"
  /\ exec' = IF exec \in {"running", "pending"} THEN "cancelled" ELSE exec
  /\ UNCHANGED <<clock, rows, nodeLog, jobs, pc, loc, announced, budget>>

StopWaiting ==
  /\ stopper = "sawWaiting" /\ stopper' = "idle"
  /\ \E j \in JobIds : Enqueue(j, "cancel", 0)
  /\ UNCHANGED <<db, pc, loc, announced, budget>>

-------------------------------------------------------------------------------
(* Time and failures.                                                      *)

QueueWaitPasses ==
  /\ exec = "pending" /\ ~overdue /\ overdue' = TRUE
  /\ UNCHANGED <<exec, started, rows, nodeLog, jobs, pc, loc, announced, env>>

StartedAges ==
  /\ exec \in {"running", "waiting_for_input"} /\ started = "fresh"
  /\ Spend("age") /\ started' = "stale"
  /\ UNCHANGED <<exec, overdue, rows, nodeLog, jobs, pc, loc, announced, stopper>>

\* The process of a worker dies.  Its job is found stalled and delivered once
\* more; the second time it is dead.
Crash(w) ==
  /\ pc[w] # "idle" /\ Spend("crash")
  /\ jobs' = [j \in JobIds |->
       IF j # loc[w].job \/ jobs[j].state # "active" THEN jobs[j]
       ELSE IF jobs[j].stalls = 0
            THEN [jobs[j] EXCEPT !.stalls = 1, !.state = "waiting"]
            ELSE IF jobs[j].kind = "run" THEN [jobs[j] EXCEPT !.state = "dead"]
                                         ELSE Free]
  /\ loc' = [loc EXCEPT ![w] = Blank]
  /\ Goto(w, "idle")
  /\ UNCHANGED <<db, announced, stopper>>

\* The queue loses a job that nobody has taken up (or never received it).
LoseJob ==
  /\ Spend("lose")
  /\ \E j \in JobIds :
       jobs[j].state = "waiting" /\ jobs' = [jobs EXCEPT ![j] = Free]
  /\ UNCHANGED <<db, pc, loc, announced, stopper>>
-------------------------------------------------------------------------------
Work(w) ==
  \/ \E j \in JobIds : PickJob(w, j) \/ StalledExhausted(w, j)
  \/ ReadExecution(w) \/ QueueWaitTimeout(w) \/ Admit(w) \/ Defer(w)
  \/ Redrive(w) \/ FailOrphans(w) \/ Rehydrate(w) \/ RehydrationFails(w)
  \/ LimitExceeded(w) \/ Boundary(w) \/ Complete(w)
  \/ FinalizeFailed(w) \/ FinalizeCancelled(w)
  \/ CreateRow(w) \/ HandlerCompletes(w) \/ HandlerBlocks(w) \/ HandlerFails(w)
  \/ AppendPath(w) \/ Park(w) \/ MarkNodeCancelled(w)
  \/ Claim(w) \/ LoadResume(w) \/ ReclaimRunning(w)
  \/ FormTurn(w) \/ AiTurnStarts(w) \/ AiTurnEnds(w)
  \/ MarkExecutionCancelled(w) \/ MarkNodeFailed(w) \/ CancelParked(w)
  \/ Announce(w) \/ Ack(w)

Recovery(w) == RecoverStuckRunning(w) \/ RecoverOrphanPending(w)

Environment ==
  \/ Submit \/ StopRead \/ StopActive \/ StopWaiting
  \/ QueueWaitPasses \/ StartedAges \/ LoseJob
  \/ \E w \in Workers : Crash(w)

Next == Environment \/ \E w \in Workers : Work(w) \/ Recovery(w)

Spec == Init /\ [][Next]_vars

\* A worker whose job is active keeps running, a queued job is picked up when a
\* worker is free, and time passes.  Nothing else is bound to happen: nobody has to
\* submit, to stop, to recover or to crash.
FairSpec ==
  Spec /\ (\A w \in Workers : WF_vars(Work(w))) /\ WF_vars(QueueWaitPasses)
-------------------------------------------------------------------------------
(***************************************************************************)
(* Properties                                                              *)
(***************************************************************************)

\* A worker at one of these labels writes rows on behalf of a segment.
Driving ==
  {"orphans", "rehydrate", "boundary", "create", "handler", "append",
   "appendPark", "park", "markNode", "finalizeCancelled", "finalizeFailed",
   "unresumable", "load", "reclaim", "turn", "aiTurn"}
Drives(w) == pc[w] \in Driving

\* WORKER.md: one execution never has two segments running at once, whichever of
\* the run job, a resume job or a re-drive started them.
OneSegment == \A v, w \in Workers : Drives(v) /\ Drives(w) => v = w

WaitingRow(r) == rowStatus[r] = "waiting_for_input"

\* The publisher of an input counts on it (resolveWaitingNodeExecutionId rejects any
\* other number): the execution waits exactly while one row of it waits.
WaitingPaired ==
  /\ exec = "waiting_for_input" <=> \E r \in Rows : WaitingRow(r)
  /\ \A q, r \in Rows : WaitingRow(q) /\ WaitingRow(r) => q = r

\* A row that was closed stays closed, and a waiting row is only ever claimed, or
\* closed by the cancel job: no late save of a row entity brings it back.
RowsMoveOn ==
  [][\A r \in Rows :
       /\ rowStatus[r] \in {"completed", "failed", "cancelled", "skipped"}
            => rowStatus'[r] = rowStatus[r]
       /\ WaitingRow(r) => rowStatus'[r] \in {"waiting_for_input", "running", "cancelled"}
    ]_vars

\* A node with a completed row is not started again.
NoCompletedRerun ==
  [][\A n \in Nodes : HasCompletedRow(n) =>
       ~ \E r \in Rows : rowStatus[r] = "absent" /\ rowNode'[r] = n]_vars

\* No writer moves an execution out of a status it ended with: every write of the
\* status is conditional, late drivers and late jobs included.
TerminalIsFinal == [][(exec \in Terminal) => exec' = exec]_vars

\* Clients are never told of an end that the database does not have ...
AnnouncedTrue == \A i \in 1..Len(announced) : announced[i] = exec

\* ... and are told of one end once.
AnnouncedOnce == Len(announced) <= 1

Quiet ==
  /\ \A w \in Workers : pc[w] = "idle"
  /\ \A j \in JobIds : jobs[j].state = "free"
  /\ stopper = "idle"

\* Once nothing is left to run, the end of the execution was announced ...
AnnouncedWhenQuiet == Quiet /\ exec \in Terminal => announced # <<>>

\* ... and none of its rows is left running or waiting.
ClosedWhenQuiet ==
  Quiet /\ exec \in Terminal =>
    \A r \in Rows : rowStatus[r] \notin {"running", "waiting_for_input"}

\* Both hold of every run that nobody stopped, lost jobs and double inputs included:
\* the error paths of the handlers, of the limits and of the re-reads all close what
\* they opened and announce what they wrote.
Unstopped == budget["stop"] = Budget["stop"]
TidyUnlessStopped == Unstopped => AnnouncedWhenQuiet /\ ClosedWhenQuiet

\* The status of the execution only moves along the transition table.
StatusMachine ==
  INSTANCE ExecutionStatusMachine WITH status <- exec, AllowRetryReentry <- FALSE
ImplementsStatusMachine == StatusMachine!Spec

\* A running segment comes to rest: it parks or ends.
RunningRests == exec = "running" ~> exec \in Terminal \cup {"waiting_for_input"}
===============================================================================
