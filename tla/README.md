# Clemvion: TLA+ specifications of the execution engine and its neighbours

Clemvion is a platform on which users draw workflows of nodes (AI agents, forms, integrations,
logic) and run them. A backend of several identical processes executes the workflows; PostgreSQL
holds the state, Redis with BullMQ the jobs, and a websocket tells clients what happens. This
directory holds TLA+ modules for the parts of it where the order of steps decides whether it is
correct, the configurations TLC checks them with, and proofs for TLAPS.

Paths below are relative to `src/codebase/backend/src/modules/` unless they start with `src/`;
`EES` stands for `execution-engine/execution-engine.service.ts` and `RT` for
`execution-engine/retry-turn.service.ts`. The documents named (`WORKER`, `RECOVERY`, `CANCEL`,
`STATE`) are `src/spec/CLE-EXEC/CLE-EXEC-*.md`.

## 1. Inventory

### 1.1 The parts

| part | state it keeps | operations | what makes it hard |
|---|---|---|---|
| status machine (`state/state-machine.ts`) | none: a table over `execution.status` | `canTransition`, `assertTransition`, `nonTerminalStatuses`; the opt-in that lets a failed execution run or park again | every write of a status must agree with it, in memory and in the `WHERE` clause |
| run queue (`queues/execution-run.*`) | one job per execution, its stall count | enqueue, deliver, stall, give up | a worker that dies leaves its job to be delivered once more; a deferral queues a second job |
| engine core (`EES`) | `execution` (status, started_at, queued_at), `node_execution` rows, `execution_node_log` | admission, deferral, queue-wait timeout, dispatch loop, error policies, completion, failure, cancellation | a segment is a sequence of separate statements; others write the same rows in between |
| park and resume (`form-interaction`, `button-interaction`, `ai-turn-orchestrator`) | the waiting row and the waiting execution, together | park, claim, turn, re-park, end of a conversation | the claim of a row is a conditional update, the rest of the resume re-reads what it claimed |
| continuation queue (`continuation/`) | resume, cancel and retry jobs | publish, deliver, discard | a double click queues two jobs; a redelivery meets its own claim |
| stop (`../executions/executions.service.ts`) | none | read, then a conditional update or a cancel job | the execution moves between the read and the write |
| recovery (`EES` 3316-3756) | the age of `started_at` | scan at boot, re-drive, closing of orphans, end of a job that stalled twice | it decides from a timestamp that a segment is dead |
| retry of the last turn (`RT`, `../websocket/websocket.gateway.ts`) | the token `_retryState`, in the output of a failed row or the input of a spawned one | command, spawn, publication, claim, turn, graph drive, end | a failed (terminal) execution moves again; the command, its job and the next command overlap |
| admission caps (`EES` 3105-3204) | counts of running executions per workspace and workflow | count and admit under an advisory lock, defer, time out | two admissions may count at once; a deferred job may be the last trace of an execution |
| shutdown (`shutdown/`) | the in-flight set of a process | drain, then mark what is left | marks rows whose segments still run |
| graph walk (`graph/`, `EES` 1812-2259, 3588-3724) | the pointer, the reachable nodes and the counts of a segment, in memory; the completed rows | back edges, topological order, dispatch, turn back, park, resume, re-drive | a park or a crash loses the memory, and it is rebuilt from the rows in two different ways |
| containers (`containers/`) | one context shared by branches | parallel, loop, foreach | branches end in any order, one failure cancels the others |
| sub-workflows, background bodies | the persisted call stack | nested park, unwinding on resume | a stack that is written by one process and unwound by another |

Outside the engine:

| part | state it keeps | operations | what makes it hard |
|---|---|---|---|
| OAuth tokens of an integration (`src/codebase/backend/src/nodes/integration/cafe24/`, `integrations/integration-oauth.service.ts`) | the credentials and the status of an integration row; the refresh queue | refresh before a call, after a 401, by the background scan, in a connection test; authorise anew | the provider voids the old token at each exchange, so that a token not saved is lost, and a token used twice is a refusal |
| members, invitations, integrations (`workspaces/`, `integrations/`) | members with roles, the owner in the workspace row, invitations, personal integrations | change of role, transfer, removal, departure, deletion, addition, acceptance, integration writes | every operation reads a role, and acts on it some statements later; they lock the same rows |

The other parts (triggers, chat channels, interaction tokens, sessions, knowledge base, models,
user interfaces) are listed one by one in `PROJECT.json`, with what they would be worth modelling
for.

### 1.2 How they interact

```
 user ──submit──> publish ──> continuation queue ─┐         ┌─> websocket events
 user ──stop────> executions.service ─────────────┤         │
 user ──retry───> gateway ── spawn row, publish ──┤         │
                                                  v         │
 trigger ──> run queue ──> worker: admission ─> dispatch loop ─> terminal write
                 ^                  │    ^           │
                 └──── deferral ────┘    └── resume ─┴─ park (execution and row wait)
 boot ──> recovery scan ──> re-drive of what looks dead
```

Workers share nothing but the database and the queues. A worker that parks lets go of everything:
the execution goes on in whichever process takes up the resume job. What makes the engine correct
are therefore conditional updates (`UPDATE ... WHERE status IN (...)`), the transactions that move
an execution and its row together, and what a handler does when its update matched no row.

### 1.3 What must be right

* An execution has one segment at a time; its status follows the transition table; an end is final.
* The execution waits exactly while one row of it waits, so an input can be addressed.
* A row that was closed stays closed, and a node that completed does not run again.
* Clients are told of one end, and only of one the database holds.
* An execution never stays queued or running for ever, and ends with its rows closed.
* A failed turn is retried once, its retry calls the model once, and a retry respects a stop.
* The caps of a workspace and of a workflow hold, and no queued execution is forgotten.
* A walk runs what its edges activate, no less and no more, across parks and crashes.
* The token a provider accepts is never out of reach, and a working integration is not demoted.
* A workspace has one owner; nobody who left keeps a personal integration; requests do not block
  each other for ever.

`PROJECT.json` lists under `hazards` where in the code each of these could go wrong.

## 2. Modules

| module | what it is |
|---|---|
| `ExecutionStatus` | the statuses, the transition table and the opt-in; extended by the next two models |
| `ExecutionStatusMachine` | the abstract specification: an execution is one status that moves along the table |
| `ExecutionLifecycle` | one execution over a chain of nodes, from its queueing to its end |
| `RetryTurn` | retry of a failed turn, from the command to the end of the re-entry |
| `Admission` | several executions under the caps of their workflow and workspace |
| `SlotPool` | the abstract specification of admission: slots that are taken once and given back |
| `GraphLayout` | back edges and topological order of a workflow graph, from its rows in any order; extended by `GraphWalk` |
| `GraphWalk` | one execution over a graph with branches and loops, its parks and its re-drives |
| `TokenRefresh` | the refresh of one integration's rotating token |
| `WorkspaceMembers` | members, invitations and integrations of a workspace at their row locks |
| `MC...` | the small instances of each model |
| `..._proof` | the theorems of each model |
| `ExecutionLifecycle_segment_proof` | what holds of the segments of an execution: while nothing dies, and when workers die but nobody submits |
| `RetryTurn_reentry_proof` | how a re-entry moves the execution, ends and is announced |

`ExecutionLifecycle` instantiates `ExecutionStatusMachine` with its `exec` as the status;
`ImplementsStatusMachine` states that it implements it. `Admission` instantiates `SlotPool` with the
status of each execution as its slot (`ImplementsSlotPool`). `RetryTurn` starts where
`ExecutionLifecycle` ends in `failed`, and its re-park hands over to it again. `ExecutionLifecycle`
looks at one execution over a chain and takes the caps and the shape of the graph as given;
`Admission` and `GraphWalk` look at those two, and take the end of a segment and the other writers of
an execution as given. `GraphWalk` extends `GraphLayout`: the layouts of its workflows are those that
`loadAndBuildGraph` computes from every order of the rows (`Loads`).

### 2.1 ExecutionLifecycle

State. `exec`, `started`, `overdue` are the columns of the execution row (`started_at` only as
fresh or older than the recovery threshold, `queued_at` only as past the timeout or not);
`rowNode`, `rowStatus` the node rows in order of insertion; `nodeLog` the path log; `jobs` the two
queues; `pc`, `loc` the workers; `stopper` the stop request between its read and its write.
`announced` is history: the terminal events in order.

Grain. One database statement or transaction is one action; what a worker keeps in memory between
two of them is in `loc`. The worker's label in `pc` names the statement it executes next.

| actions | code |
|---|---|
| `PickJob`, `Ack`, `StalledExhausted`, `Crash`, `LoseJob` | queue processors and job options; `finalizeStalledExhausted` |
| `ReadExecution`, `QueueWaitTimeout`, `Admit`, `Defer` | `runExecutionFromQueue`, `markQueueWaitTimeout`, `admitExecutionOrDefer` |
| `Redrive`, `FailOrphans`, `Rehydrate`, `RehydrationFails` | `redriveStuckExecution`, `failOrphanRunningNodeExecutions`, `rehydrateContext` |
| `Boundary`, `LimitExceeded`, `CreateRow`, `Handler*`, `AppendPath`, `Complete` | `runNodeDispatchLoop`, `executeNode`, `appendExecutionPath`, `runExecution` |
| `Park`, `MarkNodeCancelled`, `FinalizeFailed`, `FinalizeCancelled` | `waitForFormSubmission`, `markNodeCancelled`, `finalize*Execution` |
| `Claim`, `LoadResume`, `ReclaimRunning`, `FormTurn`, `AiTurn*` | `claimResumeEntry`, `rehydrateAndResume`, `driveResumeAwaited`, the turn handlers |
| `MarkExecutionCancelled`, `MarkNodeFailed`, `CancelParked` | the unresumable path; `applyCancellation` |
| `RecoverStuckRunning`, `RecoverOrphanPending` | the recovery scan |
| `Submit`, `StopRead`, `StopActive`, `StopWaiting` | `resolveWaitingNodeExecutionId` and publish; `stopInternal` |

Abstractions, each with what it leaves out:

* The graph is a chain; branches and loops are in `GraphWalk`. Containers, nested workflows and
  background bodies are in neither.
* A worker is a handler in a process of its own: the reuse of an in-memory context by a resume on
  the same process is not there.
* Contention for the caps is a choice (`CapsTaken`); the count is in `Admission`.
* `Submit` joins the look-up of the waiting row and the publication of its job. A delay between
  them is the delay of the job in the queue. The look-up of a node's newest row is joined to the
  park that uses it, and the two re-reads after a claim to one (`LoadResume`).
* A database statement does not fail by itself. A process may die between any two.
* Only a re-drive has completed nodes to skip (`done`); a resume starts behind its own node.
* The value of `started_at` is not written back by a park (see section 6).
* The form turn's branch for an execution that is not running is left out: the steps before it
  make it unreachable.

### 2.2 RetryTurn

State. `rowStatus`, `token`, `origin`: the rows, where each holds its `_retryState`, and the failed
row it was spawned for. `turns` counts the calls of the model for a row (history). `cmd` are the
commands between their statements in the gateway, `jobs` the retry jobs, `pc` and `loc` the workers.
`Init` is an execution that failed with one or more failed rows that hold a token.

| actions | code |
|---|---|
| `CommandReads`, `Consume` | `retryLastTurn`: the checks, then the transaction that takes the token and spawns the row |
| `Publish`, `PublishFails`, `Compensate` | `publishRetryLastTurn`, the gateway's error paths, `markSpawnedRowFailedOnPublishError` |
| `PickRetry`, `Claim`, `LoadExecution`, `Reject`, `SetUp`, `SetUpThrows` | `applyRetryLastTurn` up to its `try` |
| `PlayTurn`, `EndTurn`, `MarkNodeCancelled` | `processAiResumeTurn` with the re-entry opt-in, its linked writes |
| `TurnThrows` | an exception of the turn before its row is closed: `CloseSpawnedRow` has to close it |
| `GraphThrows`, `GraphParks`, `GraphCompletes` | the outcomes of `resumeGraphAfterRetry` |
| `CloseSpawnedRow`, `FinalizeReads`, `FinalizeWrites`, `Announce` | the `catch`: `closeSpawnedRowIfRunning`, `failRetryExecution`, `finalizeGuarded` |
| `StopRunning`, `StopParked` | `stopInternal` of a running execution; the cancel job of a parked one |
| `CrashWorker`, `CrashGateway` | a process dies; the job comes again or is given up |

Abstractions: the two reads of a command are one (a failed row never changes, and the token is
checked again in the transaction); so are the worker's cheap first check and its claim. A command
refused for its age, its countdown or a permanent error is a command that was not sent. A failed
publication did not queue the job. The drive of the graph behind the turn is its outcome. The
ordinary turns that follow a re-park are not here.

### 2.3 Admission and SlotPool

State. `status` is the committed `execution.status`, all ends being one; `queued` counts the run jobs
of an execution; `holder` is the advisory lock of each workspace; `pc` and `on` are the workers;
`resumed` (history) are the executions a continuation has made running, which pass no cap. `Init` is
a set of executions queued together.

| actions | code |
|---|---|
| `PickJob`, `Ack`, `Crash` | `runExecutionFromQueue` up to admission, the processor, the redelivery of a stalled job |
| `QueueWaitTimeout` | `markQueueWaitTimeout` |
| `Lock`, `CountAndUpdate`, `Commit`, `CommitNothing`, `Defer` | the transaction of `admitExecutionOrDefer` and what follows it |
| `SegmentEnds`, `Resume`, `ResumedSegmentEnds`, `Stop` | the rest of the engine, as far as it moves the status |

The conditional `UPDATE` and the commit are two actions, because another session sees the status
only after the second; in between the row is locked (`RowFree`). The clock is a choice at each
delivery. At most one worker crashes: a job that stalls twice is failed, which is
`ExecutionLifecycle`'s matter. Statements do not throw. The boot scan that fails an orphan without a
job is left out: `PendingHasJob` shows that it is not needed after the first job was queued.

`SlotPool` is what admission promises: an execution holds a slot of its workspace and one of its
workflow from admission to its first park or end, takes them once, and only while both have room.

### 2.4 GraphLayout and GraphWalk

`GraphLayout` computes what a segment computes first: `identifyBackEdges` (a depth-first search with
three colours, in the order of the rows) and `topologicalSort` (Kahn's, with a queue). A loop or a
recursion of the code is a function of the number of its rounds, and one that has ended repeats its
state: `SearchOn` goes down one edge or up again, `SortOn` orders one node. The search is given a round
for each node entered, each node left and each edge, the sort one for each node; the proof shows that
neither needs more. `WalkAssumption` says which layouts an execution may meet: all of them (`Loads`).

State of `GraphWalk`. `pointer`, `reachable`, `count`, `skipping`, `done` (the executed nodes) are the
memory of a segment, released at its end. `completed` are the nodes with a completed row, `stored` the
output (the set of ports it opens) of the last one, `logged` the nodes with an entry in the path log;
the rehydration takes a node for executed when it has both (`Executed`). `waiting` is the node whose
row waits. `owed`, `looped`, `torn`, `forgot` are history: the nodes an edge has activated since they
last ran; whether a back edge was taken; whether the walk went through one of the cases in which the
code is known to lose or repeat nodes; and whether a re-drive found a completed row without a path
entry, whose node it runs again (`finding_rerun`).

The row of a node and its path entry are two writes. Between them `status` is `saved`, or `asking` for
a node that is about to park; a worker may die at either, and the second write may fail on its own,
because `appendExecutionPath` only logs its error (`LogMayFail`). `done` is in memory and knows the
node either way.

| actions | code |
|---|---|
| `PassOver`, `ExceedLimit`, `handleDisabledNode`, `NodeFails` | the branches of `runNodeDispatchLoop` |
| `executeNode`, `appendExecutionPath` | the completed row, then the path entry and the move along the edges |
| `NodeAsks`, `dispatchParkEntry` | a node that asks the user: its path entry, then the park |
| `Complete` | the end of `runExecution` |
| `resumeFromCheckpoint`, `TurnParksAgain`, `driveResumeAwaited`, `TurnFails` | the resume, its turn, and the drive behind it |
| `Crash`, `driveStuckRedrive`, `RedriveFails` | redelivery of a run job, the re-drive |

`torn` becomes true, and with it the reference is given up, when a resume finds another node owed
than the waiting one (section 4) or a completed node behind it, when a walk that has looped is
re-driven, when a back edge becomes active in a re-drive, and when two back edges are active at once.
`forgot` becomes true when a re-drive finds a completed row that is not in the path log. Each of these
is listed as a hazard at its line. The rows of a workflow are taken to come in the same order
for every segment. Left out: failures an error policy tolerates, stops, containers, parallel
branches, sub-workflows, executions of a single node.

### 2.5 TokenRefresh

State. `newest` is the refresh token the provider accepts, `agedUpTo` how far access tokens have
expired; `rowToken` and `rowStatus` are the integration row; `job` the refresh jobs, one under the
shared id `Keyed` and one reactive job per pod; `pc`, `token`, `got`, `on`, `kind`, `tried`, `attempt`
the pods and the workers; `grant` a token a user was given that the callback has yet to save. `lost`,
`overlapped` and `exposed` are history. Tokens are numbered in the order of their issue.

| actions | code |
|---|---|
| `Begin`, `EnsureFresh`, `Add`, `JobCompleted`, `WaitFails`, `Reread` | `call`, `ensureFreshToken`, `refreshViaQueue` |
| `ApiEnds`, `ApiRefuses` | `executeWithRateLimit`, the reaction to a 401, `pingConnection` |
| `ApiThrottles` | its reaction to a 429: it repeats the request, at most `MAX_RATE_LIMIT_RETRIES` times |
| `PickJob` | the refresh processor, with its checks of status and expiry |
| `Exchange`, `ExchangeFails`, `Save`, `Demote` | `refreshAccessToken`, `markAuthFailed` |
| `BackgroundRefresh` | the expiry scanner |
| `ExchangeCode`, `SaveGrant` | the OAuth callback |
| `Forget`, `Age`, `Crash` | the queue, the clock and a dead worker |

The exchange, which voids the token presented, and the save are two actions; anything may happen
between them. Of the two recursions of `executeWithRateLimit`, the one after a 429 drops `tried` and
the one after a 401 resets `attempt`; the model does as the code (section 4). MakeShop's client follows the same protocol, but keeps `tried` through a 429. Left out: the counter of network failures
and refusals for a missing scope, which add reasons for a demotion, and the deletion of the row.

### 2.6 WorkspaceMembers

State. `role`, `ownerId`, `rowId`, `invited`, `integ` are the rows of one workspace: members, its
owner, the identity of a member row (a user who comes back has a new one), open invitations, and the
one integration of each user. `call`, `pc`, `held` are the sessions of PostgreSQL: the request, its
next statement, and the row locks of its transaction.

| actions | code |
|---|---|
| `BeginSetRole`, `RoleLock`, `RoleSave` | `updateMemberRole` |
| `BeginTransfer`, `Transfer...` | `transferOwnership` |
| `BeginRemove`, `RemoveDelete`, `RemovePurge` | `removeMember`, `purgeInTransaction` |
| `BeginLeave`, `LeaveLock`, `LeaveCountOwners`, `LeavePurge` | `leaveWorkspace` |
| `BeginDelete`, `Delete...` | `deleteWorkspace`, `lockParentAndListTriggerIds` |
| `BeginAdd`, `AddInsert` | `addMemberByEmail` |
| `BeginAccept`, `AcceptConsume`, `AcceptFindMember`, `AcceptInsert` | `applyAccept` |
| `BeginWrite`, `WriteLockWorkspace`, `WriteLockMember`, `WriteSave`, `ShareIntegration` | `create` and `updateScope` of integrations, `lockForIntegrationWrite` |
| `LockTimeout`, `DeadlockVictim`, `Disconnect` | the database ends a transaction |

A statement that takes a lock is one action; it is possible when no other session holds a
conflicting lock on the row, the implicit key-share locks of foreign keys included. The reads that a
request makes before its transaction are one instant (`Begin...`), and may be stale afterwards. What
a transaction has written is seen at once, since nobody reads a row of another's transaction without
its lock where it matters; a transaction that fails leaves no trace. Left out: personal workspaces,
the audit log, sending and revoking invitations, triggers, and the row locks of integrations.

## 3. Runs

`PROJECT.json` lists the runs with their properties; a `finding_` run is expected to fail.

| run | bounds | question |
|---|---|---|
| `life_base` | 2 workers, 3 jobs, conversation then form, 2 rows, 3 inputs, 1 stop, 1 lost job, no crash | does the protocol keep its promises while nothing dies |
| `life_recover` | 2 crashes, 5 rows, a free slot, fairness | does a crash anywhere lead to a re-drive or an end, with the rows closed |
| `life_faults` | 1 crash, 1 stale timestamp, 1 input, 1 stop, two segments possible | what still holds when two segments run |
| `retry_base` | 2 commands, 2 workers, 1 or 2 failed rows, 4 rows, one crash, failed publication, failed set-up and stop each | is a retry exactly once, and tidy |
| `admission` | 4 executions of 3 workflows in 2 workspaces, 2 workers, 1 crash, 1 resume, fairness | do the caps hold, and does every queued execution leave the queue |
| `graph_walk` | all graphs of 3 nodes, 2 or 3 edges and 2 ports in every order of their rows, limit 2, 2 parks, 1 crash, failing path entries, fairness | does a walk run what its edges activate, and end |
| `token_refresh` | 1 pod, 2 workers, 3 tokens, 2 repetitions after a 429 (as in the code), 1 crash, 1 lost answer, 1 grant, fairness | is the token the provider accepts kept, and does every call end |
| `workspace` | 3 users, 2 sessions, 3 calls, 2 identities per row, fairness | is there one owner, and do requests get out of each other's way |

Why the bounds suffice. Two workers are needed for any interference, and every guarded write
names the execution or one row, so a third worker would only repeat the role of one of the two.
A two-node chain has a first node, a node after a resume, and an end; it has both kinds of park.
Three inputs are a double click and the next input. Two rows suffice in `life_base` because no
node runs twice without a crash; five do in `life_recover`, where each of two crashes may start a
node again. In `retry_base` four rows let a failed row be retried, fail again with a new token and
be retried again, next to a second branch.

In `admission` one workspace binds by its own cap over two workflows and the other by the cap of a
workflow, so either half of the count matters somewhere; two workers are the two sides of a race for
the lock, and a third execution is the one that is deferred. In `graph_walk` three nodes are enough
for a diamond's halves, a branch next to a parked node, a loop of two and of three nodes and two
back edges from one node; the first node leads to the others, since a component that nothing leads
to is an entry of its own. Renaming the ports of a node gives the same graph. In `token_refresh` one
pod, the background scan, a user and two workers are the five who may refresh; three tokens are the
one at the start, one that overtakes it and one that is saved over it. In `workspace` two sessions
make every pair of requests meet at every statement; the third call lets a finished one lie between
the read and the write of another. Two identities tell a member who left and came back from one who
stayed.

`CHECK_DEADLOCK FALSE` wherever the system may stop: an execution that ended, or waits for a user
who never comes, has nothing left to do, and the calls of `workspace` are bounded. `token_refresh`
is checked for deadlock: a caller may always begin another call.

Fairness (`FairSpec`). Weak fairness of each worker's next step, and of the passing of the
queue-wait time. A started handler goes on, because a promise that is awaited is settled and a
handler is assumed to return or throw (the active-time limit is checked between nodes only); a
queued job is taken up, because BullMQ delivers to a free worker. Of users, and of the recovery
scan, nothing is assumed; of a crash of the first segment, that the queue delivers its run job
again, as the step of a worker. `RetryTurn` states no liveness and no fairness. `Admission` has weak
fairness of each worker, strong fairness of the delivery of each execution's jobs (the queue is
first come, first served, and a deferral comes back after its delay, so a job is not passed over for
ever) and lets a resumed segment end; the clock need never say that the wait has run out, so what
`PendingLeaves` shows is due to slots that are given back. `GraphWalk` has weak fairness of a
segment, and of the follow-up of a crash as long as the walk has not parked (`Unparked`), when its
run job is delivered again; nothing is assumed of answers, nor of the crash of a segment that an
answer resumed: its redelivered job is discarded, and the scan at boot may never come.
`TokenRefresh` has weak fairness of the callers, who have a time limit in every wait; nothing is
asked of the workers, and that the provider throttles a call for ever is excluded by the premise of
`CallsEnd`, not by fairness. Without that premise TLC finds a call that refreshes and is throttled
by turns for ever. `WorkspaceMembers` has weak fairness of the statements of a session, of its lock
timeout and of the database's deadlock detection together; no request has to arrive.

What the deeper properties say:

* `OneSegment`: of run job, resume jobs and re-drive, one drives the execution at a time.
* `WaitingPaired`: the execution waits exactly while one row waits. Like `OneSegment` it is a property of
  the protocol without crashes, or with crashes and no inputs: two segments can break it.
* `RowsMoveOn`: a worker that saves the row entity it created never undoes what another made of it.
  This rests on `OneSegment`: it is checked in `life_base` and proved in the two regimes in which
  that holds (`CrashFree`, `Unanswered`).
* `TidyUnlessStopped`: whatever fails, an execution nobody stopped is announced once it is quiet,
  and has no open row. With a stop this is false (section 4).
* `RunningRests`: no execution is running for ever.
* `AnnouncedTrue`, `TerminalIsFinal`: hold even with two segments.
* `OneReentry`, `FollowsStatusMachine` of `RetryTurn` are stated for one failed branch;
  `STATE.md:316` admits that two branches may re-enter together. The others hold for both.
* `CompletionAnnounced`: the write of a completion and its event belong to the same worker. The
  same cannot be said of `failed`, which every failed retry announces anew, by design.

* `CapsHeld`: what admission let in never exceeds a cap. Resumed executions are not counted, because
  the code lets them pass; they count in the next admission.
* `PendingHasJob`: a queued execution is never forgotten, whatever is refused, deferred or crashes.
* `RunsWhatIsOwed`: at any moment of a segment, the nodes the walk will still run, should nothing more
  become reachable, are those that an edge activated and that have not run since. It compares the
  pointer, the reachable set and what was rebuilt from the rows with a reference that knows none of
  them. It holds wherever a crash falls, but for `torn` and for a re-drive that forgot a completed row.
  `RunsOnce`: a node whose completion is in its row and in the path log does not run again unless the
  walk was sent back, and this also when a re-drive forgot other nodes. Of a node with the row alone
  the same is false, which is `finding_rerun`.
* `SegmentEnds`: a segment completes, fails or parks; a crash of the first segment is followed up, the
  crash of a resumed one may leave the walk `crashed`, as `RunningRests` admits too.
* `CallsEnd` of `TokenRefresh`: whatever the queue does, a call that is not throttled for ever ends.
* `LayoutSound`: back edges close cycles, the rest is sorted, and a graph without cycles has one layout
  for every order of its rows.
* `NewestInHand`: the provider's current token is in the row or with the one about to save it, unless
  an answer was lost or a grant was overwritten. `KeyedNeverDemotes`: refreshes under the shared job
  id, by themselves, never present a spent token.
* `OneOwner`, `PersonalHasMember`, `AdminTakenByOwner`: across transfers, departures, removals and
  writes that overlap. `OrderedLocks`: the only circle of waiting requests goes through the
  acceptance of an invitation, which locks its row before the workspace.

The properties of the failure findings hold with fewer faults. The mutants in `PROJECT.json`, kept
in the modules next to the operator they change and marked `Bug:`, show that each property of a
passing run depends on the code it is about.

## 4. Findings

Each is one run; section `findings` of `PROJECT.json` quotes the text.

| run | what happens |
|---|---|
| `finding_rerun` | A crash between the completion of a row and its path-log entry: the re-drive runs the completed node again. The second check the document describes does not exist. |
| `finding_late_failure` | A re-entry fails again with a retryable error and has yet to end the execution. The user retries, the newer re-entry parks, and the older one reads `waiting_for_input`, from which `failed` is allowed: the conversation waits under a failed execution. |
| `finding_lost_branch` | A node activates two branches, the walk parks in the first. The resume takes the nodes that ran as reachable, but not what they had activated: the second branch is passed over and the execution completes. The re-drive after a crash does propagate. |
| `finding_overwritten_grant` | A refresh has exchanged its token; a user authorises anew, which is saved; the refresh then saves its own, voided token over it, under the row lock. |

Seen while modelling, present in the models' actions and recorded as hazards with the lines and the
text they contradict:

* A stop between the claim of a waiting row and the re-read of the execution leaves the row running
  (EES 1517).
* A stop of a queued execution writes `cancelled` and nobody emits the event
  (`../executions/executions.service.ts` 945).
* A stop accepted while the execution waits is dropped when an input queued before it is served
  first (EES 1193).
* A crash between a deferral's re-queue and the end of its job leaves two run jobs, the second of
  which re-drives what the first is running (EES 3194).
* A worker dies after the claim; the redelivered resume job is discarded with its input
  (`continuation/continuation-execution.processor.ts` 131).
* A run job redelivered after its segment parked may find the execution running again because of a
  resume, and re-drive it (EES 3914); the recovery scan takes a long segment for a dead one
  (EES 3384). `life_faults` checks what survives them.
* When two back edges of a node are active at once, the second is lost (EES 7092).
* A resume in a loop may run again, without an edge to it, a node of an earlier iteration
  (EES 2230); a re-drive abandons the iteration a crash has cut (EES 1962); the limit of a loop
  that asks the user starts afresh with each answer (EES 2235).
* A call answered 401, 429, 401 refreshes twice, and by turns for ever, as neither recursion remembers
  the other; the comment promises one repetition and no endless recursion
  (`src/codebase/backend/src/nodes/integration/cafe24/cafe24-api.client.ts` 1323 against 1216). The
  premise of `CallsEnd` names it.
* Acceptance of an invitation and deletion of its workspace deadlock; the database ends one
  (`workspaces/workspaces.service.ts` 615).

## 5. Proofs

TLAPS checks the theorems for every value of the constants: any number of workers, jobs, commands,
executions, nodes, rows, users, sessions and tokens, any budget of faults. The assumptions are the
named ones of the modules: the chain is not empty, its nodes have a kind and a policy, an idle worker
is told from a busy one, the caps are positive, budgets are natural numbers, sets that are counted are
finite, nodes of a graph are numbered (their ids are compared), and a workflow's layouts are all that
`loadAndBuildGraph` may compute of it. TLC evaluates them in the runs.

`ExecutionLifecycle_proof`:

* `TypeCorrect`. `TypeOK` alone is not inductive: a worker about to write a row must have one, and
  the row it is addressed to must have been inserted for a node of the chain, or the next pointer
  leaves `1..N+1`. `Typed` adds `RowsInserted` (a row has a node exactly when it was inserted),
  `JobsAddressed` (an input is addressed to an inserted row) and `Placed` (what a worker must
  remember at each label).
* `TerminalFinal`: by cases on the writers of `exec`; each is conditional. No invariant is needed,
  which is why it survives two segments.
* `AnnouncedIsTrue`: `Truthful` adds to `AnnouncedTrue` that a worker about to announce an end
  remembers the one the database holds. It is kept because an end is final.
* `Redriven` is the invariant about crashes: any number of them, of lost jobs, of stops, of workers and
  of nodes, in the regime `Unanswered` (admitted at once, nobody submits, no timestamp grows stale). No
  second worker drives, and that takes the run job: a worker works for a run job that is active, and
  for it alone (`InHand`); until the execution ends, and while a segment goes on behind a stop, there is
  one run job, waiting, active or dead (`OneRunJob`), and the status matches the label of its worker
  (`Stage`). A crash hands the job back, and a job given up as dead finds nobody at work.
* `RecoveredRunCloses` needs besides that nobody stops the execution (`Unattended`, the regime of
  `life_recover`). `RowsOpen`: from the failing of the orphans on, the only row that runs is the one
  the worker has in hand; a job given up as dead closes execution and rows together.

The first part of `ExecutionLifecycle_segment_proof` assumes `CrashFree`: the budgets of crashes and
of stale timestamps are zero. All others are any number, as are workers, jobs, nodes and rows, and
admission may be refused. The assumption is what the properties are stated for: a crash or a stale
timestamp can give the execution a second driver, and `finding_rerun` shows the completed node that
runs again.

* `Segments`, for `OneSegmentAtATime` and `WaitingRowsPaired`: until admission there is one run job,
  in the queue or with one worker (`StartOnce`), from then on at most one segment (`Alone`), during
  which the execution runs or has ended (`SegmentRuns`). `OneSegment` alone is not inductive: a claim
  starts a segment because a row waits, and only `WaitingPaired` says that nobody drives then.
* `Chain`, for `RowsOnlyMoveOn` and `NoNodeRerun`: a node has one row (`UniqueNode`), a waiting row is
  the furthest one, a segment about to create a row has none before it at its pointer or behind, and
  the row it is at still runs (`Front`). A resume starts at the row that waited, so it repeats none.
* `StatusMachineImplemented` needs no more than `Segments`: a writer that looks only whether the
  execution has ended is a driver, and finds it running.
* `Told`, for `EndAnnouncedOnce`: one worker means to announce, nothing was announced before, and
  nobody drives. Each writer of an end either begins to announce or stands back (`WriterTold`).
* `Tidy`, for `TidyUntilStopped`: while nobody has stopped it, an end is announced or about to be, and
  a row that runs is in the hands of a worker that will close it (`Held`).

What the steps of a segment need of these invariants is `Orderly`: it is the only one, finds the
execution running or ended, and is over before its job is given up. The second part of the module
shows `Orderly` of `Redriven` as well. So five of the seven properties survive any number of crashes
under `Unanswered`: `RedriveIsAlone`, `RedriveKeepsPairs`, `RedriveMovesRowsOn`, `RedriveFollowsTable`,
`RedriveAnnouncesOnce`. `Chain` does not survive them (a re-driven node has several rows); in its place,
rows are inserted in order, so the one a worker created is the newest of its node (`RowsInOrder`).
`NoCompletedRerun` is false of them (`finding_rerun`), and `AnnouncedWhenQuiet` too, because nobody
repeats the announcement of a worker that died. Each condition of `Unanswered` is needed: with one
crash and one input, or one crash and full caps, or a stale timestamp, TLC finds two segments.

`RetryTurn_proof`:

* `TypeCorrect`, with `Placed`: workers and commands under way hold a row.
* `TurnPlayedOnce` and `RetriedOnce` share the invariant `OneToken`. A row that holds a token is
  served by nobody, was never retried, and, with the token in its input, was never played
  (`TokenHeld`); a row is served by one worker, which has not played its turn before it ends it
  (`ServedByOne`); a row not yet inserted has no history (`AbsentUntouched`). Four actions touch
  the token or the turn: the spawn, the claim, the turn, and the failed turn that leaves a new
  token. Each has a lemma; every other action is shown to stand by (`Bystander`).
* `ReentryFinal`: by cases on the writers, as `TerminalFinal`.

`RetryTurn_reentry_proof`, with no assumption beyond those of the module:

* `CompletionAnnouncedOnce`: the worker whose write completed the execution is the only one that means
  to announce it, and a completion that was announced leaves none that means to (`CompletedOnce`).
* `OneReentryAtATime` and `ReentryFollowsTable`: with one failed row there is one thing a retry can
  go on from, a token or a worker that took it (`OneAttempt`). An earlier attempt may still have its
  end to write; its update names the statuses that have not ended, from each of which the execution
  may be ended. `finding_late_failure` shows that this is not always what the user meant.
* `ReentryCloses`: while nothing crashed and no set-up threw, a running execution has a worker that
  will park or end it (`RunHeld`), and a running row has a worker, a job or a command (`RowsHeld`). The
  latter needs that a spawned row is in one of these only (`Dispatched`): the compensation of a
  publication that failed would otherwise close a row that is being served.

`Admission_proof`, one invariant `IInv` for all four theorems:

* `CapsAlwaysHeld`. The count and the commit are apart, so the invariant says that between them
  nothing can invalidate the count: a worker in the transaction holds the lock of its workspace
  (`LockHeld`), at most one worker of a workspace is therefore at `commit`, and the running executions
  plus the one about to be committed still fit (`CommitFits`). What others do meanwhile only takes
  executions away or resumes them, and resumed ones do not count (`RoomShrinks`, `AddedFits`).
* `PendingNeverLost`: a worker off idle has a job's execution in hand and lets go of it only when it
  is not pending or another job is queued.
* `AdmissionRefines`: each action maps to `Take`, `Leave` or a stutter of the pool; the room in the
  pool at a commit is `CommitFits`.

`GraphWalk_proof`, for every finite graph, every order of its rows, every limit of iterations and any
number of parks and crashes. What a loop of `GraphLayout` computes follows by induction on its rounds.
The library's induction theorems take an operator; the lemma `Induction` takes a set of numbers, and
`Iteration` shows that the recursive functions are what their definitions say.

* `LoadIsRight`: whatever the order of the rows, the order of `loadAndBuildGraph` has every node once,
  its edges go forward exactly when they are not back edges, and the throw of `topologicalSort` on a
  node left over (`graph/topological-sort.ts` 63) is never reached. The search keeps (`SearchInv`): a node
  is on the stack once (`Stacked`); an edge taken leads to a node left or further up the stack
  (`Downward`); the edges taken between the nodes left have no cycle (`Acyclic`); what lies behind the
  target of a back edge includes its source (`Chained`). Each round takes one from what is left to
  enter, leave or follow, so the rounds suffice (`SearchEnds`). Without a cycle, some node not yet
  ordered is ready, so the queue of the sort is not empty before all are (`SortProgress`).
* `LayoutAlwaysSound`: besides, a back edge closes a cycle, and a graph without cycles has one layout
  for every order of its rows. That a node leads to another is stated by the sets no edge leads out of.
* `WalkRunsWhatIsOwed`. What a segment will still run is what is owed (`Agrees`), and between a node's
  completed row and its path entry it is about to be (`Pending`). A park and a crash forget the memory
  that says so; what they leave is the rows and the path log, which may differ. The invariant keeps what
  these say: until the walk is first sent back, what is owed lies behind all that has run (`OwedBehind`)
  and is what the stored outputs and the entry nodes activate and is not completed (`OwedTold`,
  `SeedsKept`); a re-drive that forgot nothing passes over just the nodes that have run (`DoneRight`) and,
  when it is not torn, has not been sent back (`RedriveStraight`). The lemmas follow a completion forward
  (`CompletionForward`) and back (`CompletionBack`), where the first active back edge is found by
  well-founded induction on its index (`FirstLemma`).
* `WalkRunsOnce` needs parts that survive a re-drive which forgot something: it passes over at least what
  is on record (`RecordSkipped`), and in any other segment of a walk that was not sent back what is on
  record lies behind the pointer (`RecordBehind`).

`TokenRefresh_proof`:

* `NewestAlwaysInHand`: tokens issued are at most `newest` (`Bounded`); only one actor can be about
  to save the newest one (`SaverAlone`); a grant is newer than what anybody held before (`GrantNew`).
* `KeyedAlwaysSafe`: unless something else took part, at most one actor refreshes, and it holds the
  token of the row (`KeyedAlone`).

`WorkspaceMembers_proof`: `IInv` relates what a session has read to the locks it holds: what it judged
under a lock is still true (`Judged`), because whoever would change it needs the same lock. Each
request has a lemma. `OneOwner` needs it for the transfer, which changes three rows and the
workspace at once; `PersonalHasMember` for an integration write that has seen its member;
`AdminTakenByOwner` for the change of a role between its lock and its save. `LocksAlwaysOrdered` has
an invariant of its own (`Ordered`), on what a request holds at a statement that may wait: nothing at
its first lock, the row of the workspace alone at the second, an invitation only as an acceptance or
as a deletion that is at the rows. In a circle without an acceptance, only a transfer at its last
lock or a deletion at the rows holds a member and waits; it waits for a member, so it waits for
another such request, and both would hold the workspace. Nobody is left who holds anything.

TLC checked the inductive invariants on the instances of the runs before they were proved.

Every invariant and every property of a single step that a passing run checks has a theorem. Only
model-checked are the liveness properties, which with `ENABLED` and the absence of deadlock are out of
the prover's reach, and, by their nature, the four findings.

## 6. Not modelled

* A park saves the whole execution entity, whose `started_at` was read before admission set it: the
  age the recovery scan looks at goes back to the insertion. The model has fresh and stale only.
* A stop that loses its update to a park answers as if it had stopped the execution. The model has
  the step; no document says what the answer promises.
* A crash between the write of an end and its announcement. No code repeats an announcement, and
  none claims to; `AnnouncedOnce` is proved with crashes too, `TidyUnlessStopped` without them.
* A crash or a throw between the claim of a spawned row and its turn leaves that row running; the
  code admits it (RT 672-690). `ClosedWhenQuiet` of `RetryTurn` excludes those behaviours by name
  (`Undisturbed`).
* The lock of the recovery scan: its re-claim is one conditional update, and the model lets any
  worker take it at any time.
* Most of the repository by its size: tables of API metadata for Cafe24 and MakeShop, node schemas and
  forms, entities, controllers and data transfer objects, user interfaces, prompts, mails. They are
  data and pure input and output, about which a transition system has nothing to say.
* Time, other than as an expiry that may have happened; the content of nodes, messages, outputs and
  expressions; logging; metrics; the user interfaces.

## 7. Plan

Done: the core (`ExecutionStatus`, `ExecutionLifecycle`), the retry (`RetryTurn`), admission
(`Admission`, `SlotPool`), the walk over the graph (`GraphLayout`, `GraphWalk`), the refresh of tokens
(`TokenRefresh`) and the members of a workspace (`WorkspaceMembers`), with the proofs above. Left, in
this order:

1. `Shutdown`: the drain, the in-flight set and the two statements that close what is left,
   composed with the end of a segment.
2. `ParallelContainer`: branches that end in any order, error policies, cancellation of the others,
   and the row of a branch that asks for an input (`STATE.md`, open problems).
3. `CallStack`: the nested park, and the unwinding of the stack by a resume.
4. `InteractionToken`, with the idle reaper and the revocation at the end of an execution; the
   rotation of the refresh tokens of a session.

Proofs left: none that is known to hold. `ClosedWhenQuiet` of `ExecutionLifecycle` with inputs or stops
next to the crashes is false (a segment that dies after a stop leaves its row running); a walk that
resumed in a loop (`torn` in `GraphWalk`) has no statement of what it owes.

## 8. Running the checks

```
tlc -workers 2 -config life_base.cfg MCExecutionLifecycle.tla
tlc -workers 2 -config retry_base.cfg MCRetryTurn.tla
tlc -workers 2 -config admission.cfg MCAdmission.tla
tlc -workers 2 -config graph_walk.cfg MCGraphWalk.tla
tlc -workers 2 -config token_refresh.cfg MCTokenRefresh.tla
tlc -workers 2 -config workspace.cfg MCWorkspaceMembers.tla
tlapm Admission_proof.tla
```

and likewise for the other configurations and the other seven proof modules. `workspace` and
`graph_walk` take about two minutes, `life_faults` one and a half, `token_refresh` half a minute, the
others seconds.
