------------------------------- MODULE RetryTurn -------------------------------
(***************************************************************************)
(* Retrying the last turn of a conversation that failed: the command a     *)
(* user sends on a failed row (retryLastTurn), the job it queues, and the  *)
(* worker that re-enters the failed execution (applyRetryLastTurn).        *)
(*                                                                         *)
(* The retry token _retryState is in the output of a failed row, moves to  *)
(* the input of the row spawned for the retry, and is gone once a delivery *)
(* has claimed it.  What a re-entered turn does past its own node, and the *)
(* turns that follow a re-park, are those of ExecutionLifecycle: here the  *)
(* graph drive is reduced to its outcome.                                  *)
(***************************************************************************)
EXTENDS ExecutionStatus, Integers, Sequences, FiniteSets

CONSTANTS
  Commands,   \* retry commands handled by the gateway at one time (a bound)
  Workers,    \* handlers of the continuation queue
  MaxRows,    \* rows of the conversation's nodes (a bound)
  FirstRows,  \* the rows that may have failed, with a retryable error, before any retry
  Budget      \* how often each event of the environment may happen (bounds)

Rows == 1..MaxRows
EnvEvents == {"crash", "publish", "setup", "stop"}

ASSUME RowsAssumption == MaxRows \in Nat \ {0} /\ FirstRows \subseteq Rows
ASSUME BudgetAssumption == Budget \in [EnvEvents -> Nat]

VARIABLES
  exec,       \* execution.status
  rowStatus,  \* node_execution.status
  token,      \* where the row holds its _retryState, if anywhere
  origin,     \* the failed row a row was spawned for (history; 0: none)
  turns,      \* how often the turn of a row was played (history)
  jobs,       \* the retry job of a row
  cmd,        \* the commands being handled
  pc,         \* where each worker is
  loc,        \* what each worker remembers
  announced,  \* the terminal events emitted so far, in order (history)
  budget      \* what is left of Budget

history == <<origin, turns>>
vars == <<exec, rowStatus, token, history, jobs, cmd, pc, loc, announced, budget>>

Command == [at : {"idle", "consume", "publish", "compensate"}, row : Rows \cup {0}]
NoCommand == [at |-> "idle", row |-> 0]

Label ==
  {"idle", "claim", "load", "reject", "setup", "turn", "turnEnd", "markNode",
   "graph", "close", "finalRead", "finalWrite", "announce", "ack"}

\* goal is the status a failed re-entry ends with, live the one read before it.
Local == [row : Rows \cup {0}, goal : {"failed", "cancelled", "completed"}, live : Status]
Blank == [row |-> 0, goal |-> "failed", live |-> "failed"]

TypeOK ==
  /\ exec \in Status
  /\ rowStatus \in [Rows -> NodeStatus]
  /\ token \in [Rows -> {"none", "output", "input"}]
  /\ origin \in [Rows -> Rows \cup {0}]
  /\ turns \in [Rows -> Nat]
  /\ jobs \in [Rows -> {"none", "queued", "active"}]
  /\ cmd \in [Commands -> Command]
  /\ pc \in [Workers -> Label]
  /\ loc \in [Workers -> Local]
  /\ announced \in Seq(Terminal)
  /\ budget \in [EnvEvents -> Nat]

\* The execution failed; so did one row, or several on parallel branches, and the job
\* that ran them ended.
Init ==
  /\ exec = "failed"
  /\ \E F \in SUBSET FirstRows :
       /\ F # {}
       /\ rowStatus = [r \in Rows |-> IF r \in F THEN "failed" ELSE "absent"]
       /\ token = [r \in Rows |-> IF r \in F THEN "output" ELSE "none"]
  /\ origin = [r \in Rows |-> 0]
  /\ turns = [r \in Rows |-> 0]
  /\ jobs = [r \in Rows |-> "none"]
  /\ cmd = [c \in Commands |-> NoCommand]
  /\ pc = [w \in Workers |-> "idle"]
  /\ loc = [w \in Workers |-> Blank]
  /\ announced = <<>>
  /\ budget = Budget
-------------------------------------------------------------------------------
Goto(w, label) == pc' = [pc EXCEPT ![w] = label]
SetRow(r, s) == rowStatus' = [rowStatus EXCEPT ![r] = s]
SetToken(r, where) == token' = [token EXCEPT ![r] = where]
Aim(w, s) == loc' = [loc EXCEPT ![w].goal = s]
Spend(e) == budget[e] > 0 /\ budget' = [budget EXCEPT ![e] = @ - 1]

\* The statuses a linked write accepts during a re-entry, and outside of one.
Reenterable == exec \in nonTerminalStatuses(TRUE)
NonTerminal == exec \in nonTerminalStatuses(FALSE)
-------------------------------------------------------------------------------
(* The command, in the gateway.                                            *)

CommandReads(c, r) ==
  /\ cmd[c].at = "idle"
  /\ rowStatus[r] = "failed" /\ exec = "failed" /\ token[r] = "output"
  /\ cmd' = [cmd EXCEPT ![c] = [at |-> "consume", row |-> r]]
  /\ UNCHANGED <<exec, rowStatus, token, history, jobs, pc, loc, announced, budget>>

\* Bug: the token is taken without looking whether it is still there.
ConsumeUnchecked(c) ==
  /\ cmd[c].at = "consume"
  /\ \E s \in Rows :
       /\ rowStatus[s] = "absent" /\ \A q \in 1..(s - 1) : rowStatus[q] # "absent"
       /\ SetRow(s, "running")
       /\ token' = [token EXCEPT ![cmd[c].row] = "none", ![s] = "input"]
       /\ origin' = [origin EXCEPT ![s] = cmd[c].row]
       /\ cmd' = [cmd EXCEPT ![c] = [at |-> "publish", row |-> s]]
  /\ UNCHANGED <<exec, turns, jobs, pc, loc, announced, budget>>

\* One transaction takes the token from the failed row and inserts the new row; the
\* command that comes second finds no token.
Consume(c) ==
  /\ cmd[c].at = "consume"
  /\ IF token[cmd[c].row] = "output"
     THEN \E s \in Rows :
            /\ rowStatus[s] = "absent" /\ \A q \in 1..(s - 1) : rowStatus[q] # "absent"
            /\ SetRow(s, "running")
            /\ token' = [token EXCEPT ![cmd[c].row] = "none", ![s] = "input"]
            /\ origin' = [origin EXCEPT ![s] = cmd[c].row]
            /\ cmd' = [cmd EXCEPT ![c] = [at |-> "publish", row |-> s]]
     ELSE /\ cmd' = [cmd EXCEPT ![c] = NoCommand]
          /\ UNCHANGED <<rowStatus, token, origin>>
  /\ UNCHANGED <<exec, turns, jobs, pc, loc, announced, budget>>

Publish(c) ==
  /\ cmd[c].at = "publish"
  /\ jobs' = [jobs EXCEPT ![cmd[c].row] = "queued"]
  /\ cmd' = [cmd EXCEPT ![c] = NoCommand]
  /\ UNCHANGED <<exec, rowStatus, token, history, pc, loc, announced, budget>>

PublishFails(c) ==
  /\ cmd[c].at = "publish" /\ Spend("publish")
  /\ cmd' = [cmd EXCEPT ![c].at = "compensate"]
  /\ UNCHANGED <<exec, rowStatus, token, history, jobs, pc, loc, announced>>

\* Bug: a command whose publication failed forgets the row it spawned.
CompensateForgotten(c) ==
  /\ cmd[c].at = "compensate" /\ cmd' = [cmd EXCEPT ![c] = NoCommand]
  /\ UNCHANGED <<exec, rowStatus, token, history, jobs, pc, loc, announced, budget>>

Compensate(c) ==
  /\ cmd[c].at = "compensate"
  /\ IF rowStatus[cmd[c].row] = "running" THEN SetRow(cmd[c].row, "failed")
                                         ELSE UNCHANGED rowStatus
  /\ cmd' = [cmd EXCEPT ![c] = NoCommand]
  /\ UNCHANGED <<exec, token, history, jobs, pc, loc, announced, budget>>
-------------------------------------------------------------------------------
(* The delivery of the job: claim, check of the execution, set-up.         *)

PickRetry(w, r) ==
  /\ pc[w] = "idle" /\ jobs[r] = "queued"
  /\ jobs' = [jobs EXCEPT ![r] = "active"]
  /\ loc' = [loc EXCEPT ![w] = [Blank EXCEPT !.row = r]]
  /\ Goto(w, "claim")
  /\ UNCHANGED <<exec, rowStatus, token, history, cmd, announced, budget>>

\* Bug: the delivery looks at the status of its row and does not take the token.
ClaimByStatus(w) ==
  /\ pc[w] = "claim"
  /\ Goto(w, IF rowStatus[loc[w].row] = "running" THEN "load" ELSE "ack")
  /\ UNCHANGED <<exec, rowStatus, token, history, jobs, cmd, loc, announced, budget>>

Claim(w) ==
  /\ pc[w] = "claim"
  /\ IF rowStatus[loc[w].row] = "running" /\ token[loc[w].row] = "input"
     THEN SetToken(loc[w].row, "none") /\ Goto(w, "load")
     ELSE UNCHANGED token /\ Goto(w, "ack")
  /\ UNCHANGED <<exec, rowStatus, history, jobs, cmd, loc, announced, budget>>

LoadExecution(w) ==
  /\ pc[w] = "load"
  /\ Goto(w, IF exec = "failed" THEN "setup" ELSE "reject")
  /\ UNCHANGED <<exec, rowStatus, token, history, jobs, cmd, loc, announced, budget>>

Reject(w) ==
  /\ pc[w] = "reject" /\ SetRow(loc[w].row, "failed") /\ Goto(w, "ack")
  /\ UNCHANGED <<exec, token, history, jobs, cmd, loc, announced, budget>>

SetUp(w) ==
  /\ pc[w] = "setup" /\ Goto(w, "turn")
  /\ UNCHANGED <<exec, rowStatus, token, history, jobs, cmd, loc, announced, budget>>

\* Rebuilding the context throws before the handler's try: the job fails and is
\* delivered again, after the claim.
SetUpThrows(w) ==
  /\ pc[w] = "setup" /\ Spend("setup")
  /\ jobs' = [jobs EXCEPT ![loc[w].row] = "queued"]
  /\ loc' = [loc EXCEPT ![w] = Blank] /\ Goto(w, "idle")
  /\ UNCHANGED <<exec, rowStatus, token, history, cmd, announced>>
-------------------------------------------------------------------------------
(* The turn, and the drive of the graph behind it.                         *)

PlayTurn(w) ==
  /\ pc[w] = "turn"
  /\ IF exec = "cancelled" THEN Goto(w, "markNode") /\ UNCHANGED turns
     ELSE Goto(w, "turnEnd") /\ turns' = [turns EXCEPT ![loc[w].row] = @ + 1]
  /\ UNCHANGED <<exec, rowStatus, token, origin, jobs, cmd, loc, announced, budget>>

\* The turn goes on (the execution parks), ends the conversation (the execution runs),
\* or fails, with a new token when its error is retryable.
TurnResult(w) ==
  \/ /\ exec' = "waiting_for_input" /\ SetRow(loc[w].row, "waiting_for_input")
     /\ Goto(w, "ack") /\ UNCHANGED <<token, loc>>
  \/ /\ exec' = "running" /\ SetRow(loc[w].row, "completed")
     /\ Goto(w, "graph") /\ UNCHANGED <<token, loc>>
  \/ /\ SetRow(loc[w].row, "failed") /\ UNCHANGED exec
     /\ \E where \in {"none", "output"} : SetToken(loc[w].row, where)
     /\ Goto(w, "close") /\ Aim(w, "failed")

\* Bug: the linked write does not look at the status of the execution.
EndTurnUnguarded(w) ==
  /\ pc[w] = "turnEnd" /\ TurnResult(w)
  /\ UNCHANGED <<history, jobs, cmd, announced, budget>>

EndTurn(w) ==
  /\ pc[w] = "turnEnd"
  /\ IF Reenterable THEN TurnResult(w)
     ELSE Goto(w, "markNode") /\ UNCHANGED <<exec, rowStatus, token, loc>>
  /\ UNCHANGED <<history, jobs, cmd, announced, budget>>

\* The turn throws before its row is closed: the row is left running, for the catch of
\* the re-entry to close.
TurnThrows(w) ==
  /\ pc[w] \in {"turn", "turnEnd"} /\ Goto(w, "close") /\ Aim(w, "failed")
  /\ UNCHANGED <<exec, rowStatus, token, history, jobs, cmd, announced, budget>>

MarkNodeCancelled(w) ==
  /\ pc[w] = "markNode"
  /\ SetRow(loc[w].row, "cancelled") /\ Goto(w, "close") /\ Aim(w, "cancelled")
  /\ UNCHANGED <<exec, token, history, jobs, cmd, announced, budget>>

\* Bug: the drive of the graph takes the status it finds for the one to end with.
GraphThrowsAnyStatus(w) ==
  /\ pc[w] = "graph" /\ Goto(w, "close") /\ Aim(w, exec)
  /\ UNCHANGED <<exec, rowStatus, token, history, jobs, cmd, announced, budget>>

\* The drive ends by a failure, by seeing a cancel, or at a node that parks; the
\* linked write of a park has no opt-in and takes a failed execution for a cancelled one.
GraphThrows(w) ==
  /\ pc[w] = "graph" /\ Goto(w, "close")
  /\ \/ Aim(w, "failed")
     \/ exec \in Terminal /\ Aim(w, "cancelled")
  /\ UNCHANGED <<exec, rowStatus, token, history, jobs, cmd, announced, budget>>

GraphParks(w) ==
  /\ pc[w] = "graph" /\ NonTerminal
  /\ exec' = "waiting_for_input" /\ Goto(w, "ack")
  /\ UNCHANGED <<rowStatus, token, history, jobs, cmd, loc, announced, budget>>

\* Bug: the end of the drive is announced although a stop came first.
GraphCompletesAlwaysAnnounces(w) ==
  /\ pc[w] = "graph"
  /\ IF NonTerminal THEN exec' = "completed" ELSE UNCHANGED exec
  /\ Aim(w, "completed") /\ Goto(w, "announce")
  /\ UNCHANGED <<rowStatus, token, history, jobs, cmd, announced, budget>>

GraphCompletes(w) ==
  /\ pc[w] = "graph"
  /\ IF NonTerminal
     THEN exec' = "completed" /\ Aim(w, "completed") /\ Goto(w, "announce")
     ELSE Goto(w, "ack") /\ UNCHANGED <<exec, loc>>
  /\ UNCHANGED <<rowStatus, token, history, jobs, cmd, announced, budget>>
-------------------------------------------------------------------------------
(* The end of a re-entry that threw: its row, then the execution.          *)

CloseSpawnedRow(w) ==
  /\ pc[w] = "close"
  /\ IF rowStatus[loc[w].row] = "running" THEN SetRow(loc[w].row, loc[w].goal)
                                         ELSE UNCHANGED rowStatus
  /\ Goto(w, "finalRead")
  /\ UNCHANGED <<exec, token, history, jobs, cmd, loc, announced, budget>>

\* finalizeGuarded reads the execution afresh, and lets the transition table decide.
FinalizeReads(w) ==
  /\ pc[w] = "finalRead"
  /\ loc' = [loc EXCEPT ![w].live = exec]
  /\ Goto(w, IF exec = loc[w].goal \/ canTransition(exec, loc[w].goal, FALSE)
               THEN "finalWrite" ELSE "ack")
  /\ UNCHANGED <<exec, rowStatus, token, history, jobs, cmd, announced, budget>>

\* Bug: the end is saved over whatever became of the execution since the read.
FinalizeUnguarded(w) ==
  /\ pc[w] = "finalWrite" /\ exec' = loc[w].goal /\ Goto(w, "announce")
  /\ UNCHANGED <<rowStatus, token, history, jobs, cmd, loc, announced, budget>>

\* The same status: the other columns are written on the condition that it still is.
\* A new status: the guarded update.
FinalizeWrites(w) ==
  /\ pc[w] = "finalWrite"
  /\ \/ /\ exec = loc[w].goal /\ loc[w].live = loc[w].goal
        /\ Goto(w, "announce") /\ UNCHANGED exec
     \/ /\ loc[w].live # loc[w].goal /\ NonTerminal
        /\ exec' = loc[w].goal /\ Goto(w, "announce")
     \/ /\ IF loc[w].live = loc[w].goal THEN exec # loc[w].goal ELSE ~NonTerminal
        /\ Goto(w, "ack") /\ UNCHANGED exec
  /\ UNCHANGED <<rowStatus, token, history, jobs, cmd, loc, announced, budget>>

Announce(w) ==
  /\ pc[w] = "announce"
  /\ announced' = Append(announced, loc[w].goal) /\ Goto(w, "ack")
  /\ UNCHANGED <<exec, rowStatus, token, history, jobs, cmd, loc, budget>>

Ack(w) ==
  /\ pc[w] = "ack"
  /\ jobs' = [jobs EXCEPT ![loc[w].row] = "none"]
  /\ loc' = [loc EXCEPT ![w] = Blank] /\ Goto(w, "idle")
  /\ UNCHANGED <<exec, rowStatus, token, history, cmd, announced, budget>>
-------------------------------------------------------------------------------
(* The user's stop, and failures.                                          *)

\* stop ends a running execution; of a failed one it is refused.
StopRunning ==
  /\ exec = "running" /\ Spend("stop") /\ exec' = "cancelled"
  /\ UNCHANGED <<rowStatus, token, history, jobs, cmd, pc, loc, announced>>

\* The cancel job a stop queues for a parked execution.
StopParked ==
  /\ exec = "waiting_for_input" /\ Spend("stop") /\ exec' = "cancelled"
  /\ rowStatus' = [r \in Rows |->
       IF rowStatus[r] = "waiting_for_input" THEN "cancelled" ELSE rowStatus[r]]
  /\ announced' = Append(announced, "cancelled")
  /\ UNCHANGED <<token, history, jobs, cmd, pc, loc>>

\* The process of a worker dies: its job is delivered again, or given up as stalled.
CrashWorker(w) ==
  /\ pc[w] # "idle" /\ Spend("crash")
  /\ \E s \in {"queued", "none"} : jobs' = [jobs EXCEPT ![loc[w].row] = s]
  /\ loc' = [loc EXCEPT ![w] = Blank] /\ Goto(w, "idle")
  /\ UNCHANGED <<exec, rowStatus, token, history, cmd, announced>>

CrashGateway(c) ==
  /\ cmd[c].at # "idle" /\ Spend("crash")
  /\ cmd' = [cmd EXCEPT ![c] = NoCommand]
  /\ UNCHANGED <<exec, rowStatus, token, history, jobs, pc, loc, announced>>
-------------------------------------------------------------------------------
Gateway(c) ==
  \/ \E r \in Rows : CommandReads(c, r)
  \/ Consume(c) \/ Publish(c) \/ PublishFails(c) \/ Compensate(c)

Work(w) ==
  \/ \E r \in Rows : PickRetry(w, r)
  \/ Claim(w) \/ LoadExecution(w) \/ Reject(w) \/ SetUp(w) \/ SetUpThrows(w)
  \/ PlayTurn(w) \/ EndTurn(w) \/ TurnThrows(w) \/ MarkNodeCancelled(w)
  \/ GraphThrows(w) \/ GraphParks(w) \/ GraphCompletes(w)
  \/ CloseSpawnedRow(w) \/ FinalizeReads(w) \/ FinalizeWrites(w)
  \/ Announce(w) \/ Ack(w)

Environment ==
  \/ StopRunning \/ StopParked
  \/ \E w \in Workers : CrashWorker(w)
  \/ \E c \in Commands : CrashGateway(c)

Next ==
  \/ \E c \in Commands : Gateway(c)
  \/ \E w \in Workers : Work(w)
  \/ Environment

Spec == Init /\ [][Next]_vars
-------------------------------------------------------------------------------
(***************************************************************************)
(* Properties                                                              *)
(***************************************************************************)

\* The model is called once for one retry, however often its job is delivered: the
\* claim of the token stops a delivery that follows a crash or a throw.
TurnOnce == \A r \in Rows : turns[r] <= 1

\* One failed turn is retried once: two commands sent at once, or a command sent again
\* after the retry failed, spawn one row.
RetryOnce ==
  \A q, r \in Rows : origin[q] = origin[r] /\ origin[q] # 0 => q = r

\* A re-entry never brings back an execution that completed or that the user stopped,
\* whatever its worker remembers of it.
ReentryRespectsEnd ==
  [][(exec \in {"completed", "cancelled"}) => exec' = exec]_exec

\* What follows is said of an execution with one failed row: of two failed branches the
\* documentation admits that their retries may re-enter together.
OneBranch ==
  Cardinality({r \in Rows : rowStatus[r] # "absent" /\ origin[r] = 0}) = 1

\* With the opt-in a failed execution moves again, along the transition table only: the
\* linked writes, the guarded updates and the late end of an earlier attempt together
\* never skip a status.
FollowsStatusMachine == [][OneBranch => canTransition(exec, exec', TRUE)]_exec

\* A worker at one of these labels plays a turn or drives the graph.
Driving == {"setup", "turn", "turnEnd", "graph"}

\* One re-entry is under way at a time, and none is while the conversation waits.
OneReentry ==
  OneBranch =>
    /\ \A v, w \in Workers : pc[v] \in Driving /\ pc[w] \in Driving => v = w
    /\ exec = "waiting_for_input" => \A w \in Workers : pc[w] \notin Driving

\* Nothing failed but turns and publications: then, once nothing is left to run, no
\* spawned row is left running and the execution is not either.
Undisturbed == budget["crash"] = Budget["crash"] /\ budget["setup"] = Budget["setup"]
Quiet ==
  /\ \A w \in Workers : pc[w] = "idle"
  /\ \A c \in Commands : cmd[c].at = "idle"
  /\ \A r \in Rows : jobs[r] = "none"
ClosedWhenQuiet ==
  Undisturbed /\ Quiet => exec # "running" /\ \A r \in Rows : rowStatus[r] # "running"

\* A completion is announced once, by the worker whose write made it, and never when the
\* user's stop came first.
Completions == {i \in 1..Len(announced) : announced[i] = "completed"}
CompletionAnnounced ==
  /\ Cardinality(Completions) <= 1
  /\ Completions # {} => exec = "completed"
  /\ Undisturbed /\ Quiet /\ exec = "completed" => Completions # {}

\* A conversation that waits for an input can be given one: its execution waits too.
ReparkResumable ==
  (\E r \in Rows : rowStatus[r] = "waiting_for_input") => exec = "waiting_for_input"
===============================================================================
