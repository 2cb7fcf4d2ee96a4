------------------------ MODULE RetryTurn_reentry_proof ------------------------
(***************************************************************************)
(* What becomes of a re-entry: how it moves the execution, how it ends and *)
(* what it leaves.  For any number of workers, commands and rows.          *)
(***************************************************************************)
EXTENDS RetryTurn_proof, FiniteSetTheorems

\* The events of the environment only use their budget up.
Spent == \A e \in EnvEvents : budget[e] <= Budget[e]

\* An execution that failed once is never queued again, and only the worker that drove
\* the graph to its end means to announce a completion.
Aimed ==
  /\ exec # "pending"
  /\ \A w \in Workers : loc[w].goal = "completed" => pc[w] \in {"announce", "ack"}

\* The worker whose write completed the execution is about to announce it.
Completes(w) == pc[w] = "announce" /\ loc[w].goal = "completed"
CompletedOnce ==
  /\ \A i, j \in Completions : i = j
  /\ Completions # {} => exec = "completed" /\ \A w \in Workers : ~Completes(w)
  /\ \A w \in Workers : Completes(w) => exec = "completed"
  /\ \A v, w \in Workers : Completes(v) /\ Completes(w) => v = w
  /\ Undisturbed /\ exec = "completed" =>
       Completions # {} \/ \E w \in Workers : Completes(w)

\* With one failed branch there is one thing a retry can start from or go on with: a
\* token, or a worker that took it and still drives.
Roots == {r \in Rows : rowStatus[r] # "absent" /\ origin[r] = 0}
OneRoot == \A q, r \in Roots : q = r
Attempts(w) == pc[w] \in Serving \cup {"graph"}
OneAttempt ==
  OneRoot =>
    /\ \A q, r \in Rows : token[q] # "none" /\ token[r] # "none" => q = r
    /\ \A v, w \in Workers : Attempts(v) /\ Attempts(w) => v = w
    /\ \A w \in Workers, r \in Rows : ~(Attempts(w) /\ token[r] # "none")
    /\ exec = "waiting_for_input" =>
         (\A w \in Workers : ~Attempts(w)) /\ \A r \in Rows : token[r] = "none"

\* A running execution has a worker that will park, complete or end it.
Runner(w) ==
  \/ pc[w] \in {"graph", "close", "finalRead"}
  \/ pc[w] = "finalWrite" /\ loc[w].live # loc[w].goal
RunHeld == exec = "running" => \E w \in Workers : Runner(w)

\* The retry of a row is with the command that spawned it, in the queue or with one worker.
Issuing(c, r) == cmd[c].at \in {"publish", "compensate"} /\ cmd[c].row = r
OnHand(w, r) == pc[w] # "idle" /\ loc[w].row = r
Dispatched ==
  /\ \A c \in Commands, r \in Rows : Issuing(c, r) =>
       /\ rowStatus[r] # "absent" /\ jobs[r] = "none"
       /\ \A w \in Workers : ~OnHand(w, r)
       /\ \A d \in Commands : Issuing(d, r) => d = c
  /\ \A r \in Rows : rowStatus[r] = "absent" => jobs[r] = "none"
  /\ \A w \in Workers, r \in Rows : OnHand(w, r) =>
       jobs[r] = "active" /\ \A v \in Workers : OnHand(v, r) => w = v

RowHeld(r) ==
  \/ /\ token[r] = "input"
     /\ \/ \E c \in Commands : Issuing(c, r)
        \/ jobs[r] = "queued"
        \/ \E w \in Workers : pc[w] = "claim" /\ loc[w].row = r
  \/ \E w \in Workers : pc[w] \in Serving \cup {"markNode", "close"} /\ loc[w].row = r
RowsHeld == \A r \in Rows : rowStatus[r] = "running" => RowHeld(r)

Closes == Undisturbed => RunHeld /\ Dispatched /\ RowsHeld
-------------------------------------------------------------------------------
LEMMA InitSpent == Init => Spent
  BY BudgetAssumption DEF Init, Spent

\* What an action may take from the budget of the environment.
LEMMA BudgetOnlySpent ==
  ASSUME [Next]_vars PROVE budget' = budget \/ \E e \in EnvEvents : Spend(e)
<1>. DEFINE Spends == budget' = budget \/ \E e \in EnvEvents : Spend(e)
<1>1. ASSUME NEW c \in Commands, NEW r \in Rows, CommandReads(c, r) PROVE Spends
  BY <1>1 DEF CommandReads, history, EnvEvents
<1>2. ASSUME NEW c \in Commands, Consume(c) PROVE Spends
  BY <1>2 DEF Consume, SetRow, NoCommand, EnvEvents
<1>3. ASSUME NEW c \in Commands, Publish(c) PROVE Spends
  BY <1>3 DEF Publish, NoCommand, history, EnvEvents
<1>4. ASSUME NEW c \in Commands, PublishFails(c) PROVE Spends
  BY <1>4 DEF PublishFails, Spend, history, EnvEvents
<1>5. ASSUME NEW c \in Commands, Compensate(c) PROVE Spends
  BY <1>5 DEF Compensate, SetRow, NoCommand, history, EnvEvents
<1>6. ASSUME NEW w \in Workers, NEW r \in Rows, PickRetry(w, r) PROVE Spends
  BY <1>6 DEF PickRetry, Goto, Blank, history, EnvEvents
<1>7. ASSUME NEW w \in Workers, Claim(w) PROVE Spends
  BY <1>7 DEF Claim, Goto, SetToken, history, EnvEvents
<1>8. ASSUME NEW w \in Workers, LoadExecution(w) PROVE Spends
  BY <1>8 DEF LoadExecution, Goto, history, EnvEvents
<1>9. ASSUME NEW w \in Workers, Reject(w) PROVE Spends
  BY <1>9 DEF Reject, Goto, SetRow, history, EnvEvents
<1>10. ASSUME NEW w \in Workers, SetUp(w) PROVE Spends
  BY <1>10 DEF SetUp, Goto, history, EnvEvents
<1>11. ASSUME NEW w \in Workers, SetUpThrows(w) PROVE Spends
  BY <1>11 DEF SetUpThrows, Goto, Spend, Blank, history, EnvEvents
<1>12. ASSUME NEW w \in Workers, PlayTurn(w) PROVE Spends
  BY <1>12 DEF PlayTurn, Goto, EnvEvents
<1>13. ASSUME NEW w \in Workers, EndTurn(w) PROVE Spends
  BY <1>13 DEF EndTurn, Goto, Reenterable, TurnResult, history, SetRow, SetToken, Aim,
       nonTerminalStatuses, EnvEvents
<1>14. ASSUME NEW w \in Workers, MarkNodeCancelled(w) PROVE Spends
  BY <1>14 DEF MarkNodeCancelled, Goto, SetRow, Aim, history, EnvEvents
<1>15. ASSUME NEW w \in Workers, GraphThrows(w) PROVE Spends
  BY <1>15 DEF GraphThrows, Goto, Aim, history, EnvEvents
<1>16. ASSUME NEW w \in Workers, GraphParks(w) PROVE Spends
  BY <1>16 DEF GraphParks, Goto, NonTerminal, history, nonTerminalStatuses, EnvEvents
<1>17. ASSUME NEW w \in Workers, GraphCompletes(w) PROVE Spends
  BY <1>17 DEF GraphCompletes, Goto, Aim, NonTerminal, history, nonTerminalStatuses,
       EnvEvents
<1>18. ASSUME NEW w \in Workers, CloseSpawnedRow(w) PROVE Spends
  BY <1>18 DEF CloseSpawnedRow, Goto, SetRow, history, EnvEvents
<1>19. ASSUME NEW w \in Workers, FinalizeReads(w) PROVE Spends
  BY <1>19 DEF FinalizeReads, Goto, history, EnvEvents
<1>20. ASSUME NEW w \in Workers, FinalizeWrites(w) PROVE Spends
  BY <1>20 DEF FinalizeWrites, Goto, NonTerminal, history, nonTerminalStatuses,
       EnvEvents
<1>21. ASSUME NEW w \in Workers, Announce(w) PROVE Spends
  BY <1>21 DEF Announce, Goto, history, EnvEvents
<1>22. ASSUME NEW w \in Workers, Ack(w) PROVE Spends
  BY <1>22 DEF Ack, Goto, Blank, history, EnvEvents
<1>23. CASE StopRunning
  BY <1>23 DEF StopRunning, Spend, history, EnvEvents
<1>24. CASE StopParked
  BY <1>24 DEF StopParked, Spend, history, EnvEvents
<1>25. ASSUME NEW w \in Workers, CrashWorker(w) PROVE Spends
  BY <1>25 DEF CrashWorker, Goto, Spend, Blank, history, EnvEvents
<1>26. ASSUME NEW c \in Commands, CrashGateway(c) PROVE Spends
  BY <1>26 DEF CrashGateway, Spend, NoCommand, history, EnvEvents
<1>27. CASE UNCHANGED vars
  BY <1>27 DEF vars, history, EnvEvents
<1>28. ASSUME NEW w \in Workers, TurnThrows(w) PROVE Spends
  BY <1>28 DEF TurnThrows, Goto, Aim, history, EnvEvents
<1>. QED
  BY <1>1, <1>2, <1>3, <1>4, <1>5, <1>6, <1>7, <1>8, <1>9, <1>10, <1>11, <1>12, <1>13,
     <1>14, <1>15, <1>16, <1>17, <1>18, <1>19, <1>20, <1>21, <1>22, <1>23, <1>24, <1>25,
     <1>26, <1>27, <1>28
  DEF Next, Gateway, Work, Environment

LEMMA SpendingOnce ==
  ASSUME Typed, NEW e \in EnvEvents, Spend(e)
  PROVE  \A f \in EnvEvents : budget'[f] = IF f = e THEN budget[e] - 1 ELSE budget[f]
<1>. QED
  BY DEF Spend, Typed, TypeOK

LEMMA StepSpent ==
  ASSUME Typed, Spent, [Next]_vars
  PROVE  Spent' /\ (Undisturbed' => Undisturbed)
<1>0. /\ \A e \in EnvEvents : budget[e] \in Nat /\ Budget[e] \in Nat /\ budget[e] <= Budget[e]
      /\ "crash" \in EnvEvents /\ "setup" \in EnvEvents
  BY BudgetAssumption DEF Typed, TypeOK, EnvEvents, Spent
<1>1. CASE budget' = budget
  BY <1>0, <1>1 DEF Spent, Undisturbed
<1>2. ASSUME NEW e \in EnvEvents, Spend(e) PROVE Spent' /\ (Undisturbed' => Undisturbed)
  <2>1. \A f \in EnvEvents : budget'[f] = IF f = e THEN budget[e] - 1 ELSE budget[f]
    BY <1>2, SpendingOnce
  <2>2. budget[e] > 0
    BY <1>2 DEF Spend
  <2>. QED
    BY <1>0, <2>1, <2>2 DEF Spent, Undisturbed
<1>. QED
  BY <1>1, <1>2, BudgetOnlySpent

\* A crash, or a set-up that throws, is remembered.
LEMMA Disturbs ==
  ASSUME Typed, Spent, Spend("crash") \/ Spend("setup") PROVE ~Undisturbed'
<1>0. /\ \A e \in EnvEvents : budget[e] \in Nat /\ Budget[e] \in Nat /\ budget[e] <= Budget[e]
      /\ "crash" \in EnvEvents /\ "setup" \in EnvEvents
  BY BudgetAssumption DEF Typed, TypeOK, EnvEvents, Spent
<1>1. ASSUME NEW e \in {"crash", "setup"}, Spend(e) PROVE ~Undisturbed'
  <2>1. budget'[e] = budget[e] - 1
    BY <1>0, <1>1, SpendingOnce
  <2>. QED
    BY <1>0, <2>1 DEF Undisturbed
<1>. QED
  BY <1>1
-------------------------------------------------------------------------------
\* The statuses the linked writes go by, and what a worker leaves to the others.
LEMMA Writable ==
  /\ NonTerminal <=> exec \in {"pending", "running", "waiting_for_input"}
  /\ Reenterable <=> exec \in {"pending", "running", "waiting_for_input", "failed"}
  BY DEF NonTerminal, Reenterable, nonTerminalStatuses, Status, Terminal

LEMMA OthersUntouched ==
  ASSUME Typed, NEW w \in Workers, Work(w)
  PROVE  \A v \in Workers : v # w => pc'[v] = pc[v] /\ loc'[v] = loc[v]
<1>. USE DEF Typed, TypeOK, Goto, Aim
<1>1. CASE EndTurn(w) \/ TurnThrows(w) \/ GraphThrows(w)
  BY <1>1 DEF EndTurn, TurnResult, TurnThrows, GraphThrows
<1>2. CASE \/ \E r \in Rows : PickRetry(w, r)
           \/ Claim(w) \/ LoadExecution(w) \/ Reject(w) \/ SetUp(w) \/ SetUpThrows(w)
           \/ PlayTurn(w) \/ MarkNodeCancelled(w)
  BY <1>2 DEF PickRetry, Claim, LoadExecution, Reject, SetUp, SetUpThrows, PlayTurn,
       MarkNodeCancelled
<1>3. CASE \/ GraphParks(w) \/ GraphCompletes(w) \/ CloseSpawnedRow(w)
           \/ FinalizeReads(w) \/ FinalizeWrites(w) \/ Announce(w) \/ Ack(w)
  BY <1>3 DEF GraphParks, GraphCompletes, CloseSpawnedRow, FinalizeReads,
       FinalizeWrites, Announce, Ack
<1>. QED
  BY <1>1, <1>2, <1>3 DEF Work

LEMMA InitAimed == Init => Aimed
  BY DEF Init, Aimed, Blank

LEMMA StepAimed ==
  ASSUME Typed, Aimed, [Next]_vars PROVE Aimed'
<1>0. /\ exec \in Status /\ rowStatus \in [Rows -> NodeStatus]
      /\ token \in [Rows -> {"none", "output", "input"}]
      /\ jobs \in [Rows -> {"none", "queued", "active"}]
      /\ cmd \in [Commands -> Command] /\ pc \in [Workers -> Label]
      /\ loc \in [Workers -> Local]
  BY DEF Typed, TypeOK
<1>1. ASSUME NEW c \in Commands, NEW r \in Rows, CommandReads(c, r) PROVE Aimed'
  BY <1>0, <1>1 DEF CommandReads, history, Aimed
<1>2. ASSUME NEW c \in Commands, Consume(c) PROVE Aimed'
  BY <1>0, <1>2 DEF Consume, SetRow, NoCommand, Aimed
<1>3. ASSUME NEW c \in Commands, Publish(c) PROVE Aimed'
  BY <1>0, <1>3 DEF Publish, NoCommand, history, Aimed
<1>4. ASSUME NEW c \in Commands, PublishFails(c) PROVE Aimed'
  BY <1>0, <1>4 DEF PublishFails, Spend, history, Aimed
<1>5. ASSUME NEW c \in Commands, Compensate(c) PROVE Aimed'
  BY <1>0, <1>5 DEF Compensate, SetRow, NoCommand, history, Aimed
<1>6. ASSUME NEW w \in Workers, NEW r \in Rows, PickRetry(w, r) PROVE Aimed'
  BY <1>0, <1>6 DEF PickRetry, Goto, Blank, history, Aimed
<1>7. ASSUME NEW w \in Workers, Claim(w) PROVE Aimed'
  BY <1>0, <1>7 DEF Claim, Goto, SetToken, history, Aimed
<1>8. ASSUME NEW w \in Workers, LoadExecution(w) PROVE Aimed'
  BY <1>0, <1>8 DEF LoadExecution, Goto, history, Aimed
<1>9. ASSUME NEW w \in Workers, Reject(w) PROVE Aimed'
  BY <1>0, <1>9 DEF Reject, Goto, SetRow, history, Aimed
<1>10. ASSUME NEW w \in Workers, SetUp(w) PROVE Aimed'
  BY <1>0, <1>10 DEF SetUp, Goto, history, Aimed
<1>11. ASSUME NEW w \in Workers, SetUpThrows(w) PROVE Aimed'
  BY <1>0, <1>11 DEF SetUpThrows, Goto, Spend, Blank, history, Aimed
<1>12. ASSUME NEW w \in Workers, PlayTurn(w) PROVE Aimed'
  BY <1>0, <1>12 DEF PlayTurn, Goto, Aimed
<1>13. ASSUME NEW w \in Workers, EndTurn(w) PROVE Aimed'
  <2>0. pc[w] = "turnEnd" /\ loc[w].goal # "completed"
    BY <1>13 DEF EndTurn, Aimed
  <2>1. exec' # "pending"
    BY <1>13 DEF EndTurn, TurnResult, Aimed
  <2>2. loc'[w].goal # "completed"
    BY <1>0, <2>0, <1>13 DEF EndTurn, TurnResult, Aim, Local
  <2>. QED
    BY <2>1, <2>2, <1>13, OthersUntouched DEF Work, Aimed
<1>14. ASSUME NEW w \in Workers, MarkNodeCancelled(w) PROVE Aimed'
  BY <1>0, <1>14 DEF MarkNodeCancelled, Goto, SetRow, Aim, history, Aimed
<1>15. ASSUME NEW w \in Workers, GraphThrows(w) PROVE Aimed'
  <2>1. exec' # "pending" /\ loc'[w].goal # "completed"
    BY <1>0, <1>15 DEF GraphThrows, Aim, Aimed, Local
  <2>. QED
    BY <2>1, <1>15, OthersUntouched DEF Work, Aimed
<1>16. ASSUME NEW w \in Workers, GraphParks(w) PROVE Aimed'
  BY <1>0, <1>16 DEF GraphParks, Goto, NonTerminal, history, nonTerminalStatuses, Aimed
<1>17. ASSUME NEW w \in Workers, GraphCompletes(w) PROVE Aimed'
  BY <1>0, <1>17 DEF GraphCompletes, Goto, Aim, NonTerminal, history,
       nonTerminalStatuses, Aimed
<1>18. ASSUME NEW w \in Workers, CloseSpawnedRow(w) PROVE Aimed'
  BY <1>0, <1>18 DEF CloseSpawnedRow, Goto, SetRow, history, Aimed
<1>19. ASSUME NEW w \in Workers, FinalizeReads(w) PROVE Aimed'
  <2>1. exec' # "pending" /\ pc[w] = "finalRead" /\ loc'[w].goal = loc[w].goal
    BY <1>0, <1>19 DEF FinalizeReads, Aimed, Local
  <2>. QED
    BY <2>1, <1>19, OthersUntouched DEF Work, Aimed
<1>20. ASSUME NEW w \in Workers, FinalizeWrites(w) PROVE Aimed'
  <2>1. pc[w] = "finalWrite" /\ loc'[w] = loc[w] /\ loc[w].goal # "pending"
    BY <1>0, <1>20 DEF FinalizeWrites, Local
  <2>2. exec' # "pending"
    BY <2>1, <1>20 DEF FinalizeWrites, Aimed
  <2>. QED
    BY <2>1, <2>2, <1>20, OthersUntouched DEF Work, Aimed
<1>21. ASSUME NEW w \in Workers, Announce(w) PROVE Aimed'
  BY <1>0, <1>21 DEF Announce, Goto, history, Aimed
<1>22. ASSUME NEW w \in Workers, Ack(w) PROVE Aimed'
  BY <1>0, <1>22 DEF Ack, Goto, Blank, history, Aimed
<1>23. CASE StopRunning
  BY <1>0, <1>23 DEF StopRunning, Spend, history, Aimed
<1>24. CASE StopParked
  BY <1>0, <1>24 DEF StopParked, Spend, history, Aimed
<1>25. ASSUME NEW w \in Workers, CrashWorker(w) PROVE Aimed'
  BY <1>0, <1>25 DEF CrashWorker, Goto, Spend, Blank, history, Aimed
<1>26. ASSUME NEW c \in Commands, CrashGateway(c) PROVE Aimed'
  BY <1>0, <1>26 DEF CrashGateway, Spend, NoCommand, history, Aimed
<1>27. CASE UNCHANGED vars
  BY <1>0, <1>27 DEF vars, history, Aimed
<1>28. ASSUME NEW w \in Workers, TurnThrows(w) PROVE Aimed'
  <2>1. exec' # "pending" /\ loc'[w].goal # "completed"
    BY <1>0, <1>28 DEF TurnThrows, Aim, Aimed, Local
  <2>. QED
    BY <2>1, <1>28, OthersUntouched DEF Work, Aimed
<1>. QED
  BY <1>1, <1>2, <1>3, <1>4, <1>5, <1>6, <1>7, <1>8, <1>9, <1>10, <1>11, <1>12, <1>13,
     <1>14, <1>15, <1>16, <1>17, <1>18, <1>19, <1>20, <1>21, <1>22, <1>23, <1>24, <1>25,
     <1>26, <1>27, <1>28
  DEF Next, Gateway, Work, Environment

-------------------------------------------------------------------------------
LEMMA InitCompleted == Init => CompletedOnce
<1> SUFFICES ASSUME Init PROVE CompletedOnce
  OBVIOUS
<1>1. Completions = {}
  BY DEF Init, Completions
<1>. QED
  BY <1>1 DEF Init, CompletedOnce, Completes

\* An announcement adds its own index to the completions, or none.
LEMMA Announcement ==
  ASSUME Typed, NEW e, announced' = Append(announced, e)
  PROVE  Completions' = Completions \cup (IF e = "completed" THEN {Len(announced) + 1} ELSE {})
<1>1. announced \in Seq(Terminal) /\ Len(announced) \in Nat
  BY DEF Typed, TypeOK
<1>2. /\ Len(announced') = Len(announced) + 1
      /\ \A i \in 1..Len(announced) : announced'[i] = announced[i]
      /\ announced'[Len(announced) + 1] = e
  BY <1>1
<1>3. \A i : i \in Completions' <=>
        \/ i \in Completions
        \/ i = Len(announced) + 1 /\ e = "completed"
  BY <1>1, <1>2 DEF Completions
<1>. QED
  BY <1>3

\* Most steps neither complete the execution nor announce that it completed.
LEMMA NothingCompletes ==
  ASSUME Typed, Spent, CompletedOnce, [Next]_vars, Completions' = Completions,
         exec' = "completed" => exec = "completed",
         \A w \in Workers : Completes(w)' <=> Completes(w)
  PROVE  CompletedOnce'
<1>1. exec = "completed" => exec' = "completed"
  BY StepRespectsEnd
<1>2. Undisturbed' => Undisturbed
  BY StepSpent
<1>. QED
  BY <1>1, <1>2 DEF CompletedOnce

LEMMA StepCompleted ==
  ASSUME Typed, Spent, Aimed, CompletedOnce, [Next]_vars PROVE CompletedOnce'
<1>0. /\ exec \in Status /\ rowStatus \in [Rows -> NodeStatus]
      /\ token \in [Rows -> {"none", "output", "input"}]
      /\ jobs \in [Rows -> {"none", "queued", "active"}]
      /\ cmd \in [Commands -> Command] /\ pc \in [Workers -> Label]
      /\ loc \in [Workers -> Local]
  BY DEF Typed, TypeOK
<1>. DEFINE Aside == /\ exec' = "completed" => exec = "completed"
                   /\ \A w \in Workers : Completes(w)' <=> Completes(w)
<1>1. announced' = announced /\ Aside => CompletedOnce'
  BY NothingCompletes DEF Completions
<1>2. ASSUME NEW c \in Commands, NEW r \in Rows, CommandReads(c, r) PROVE CompletedOnce'
  BY <1>0, <1>1, <1>2 DEF CommandReads, history, Completes
<1>3. ASSUME NEW c \in Commands, Consume(c) PROVE CompletedOnce'
  BY <1>0, <1>1, <1>3 DEF Consume, SetRow, NoCommand, Completes
<1>4. ASSUME NEW c \in Commands, Publish(c) PROVE CompletedOnce'
  BY <1>0, <1>1, <1>4 DEF Publish, NoCommand, history, Completes
<1>5. ASSUME NEW c \in Commands, PublishFails(c) PROVE CompletedOnce'
  BY <1>0, <1>1, <1>5 DEF PublishFails, Spend, history, Completes
<1>6. ASSUME NEW c \in Commands, Compensate(c) PROVE CompletedOnce'
  BY <1>0, <1>1, <1>6 DEF Compensate, SetRow, NoCommand, history, Completes
<1>7. ASSUME NEW w \in Workers, NEW r \in Rows, PickRetry(w, r) PROVE CompletedOnce'
  BY <1>0, <1>1, <1>7, OthersUntouched DEF PickRetry, Goto, Blank, history, Completes,
       Work
<1>8. ASSUME NEW w \in Workers, Claim(w) PROVE CompletedOnce'
  BY <1>0, <1>1, <1>8, OthersUntouched DEF Claim, Goto, SetToken, history, Completes,
       Work
<1>9. ASSUME NEW w \in Workers, LoadExecution(w) PROVE CompletedOnce'
  BY <1>0, <1>1, <1>9, OthersUntouched DEF LoadExecution, Goto, history, Completes, Work
<1>10. ASSUME NEW w \in Workers, Reject(w) PROVE CompletedOnce'
  BY <1>0, <1>1, <1>10, OthersUntouched DEF Reject, Goto, SetRow, history, Completes,
       Work
<1>11. ASSUME NEW w \in Workers, SetUp(w) PROVE CompletedOnce'
  BY <1>0, <1>1, <1>11, OthersUntouched DEF SetUp, Goto, history, Completes, Work
<1>12. ASSUME NEW w \in Workers, SetUpThrows(w) PROVE CompletedOnce'
  BY <1>0, <1>1, <1>12, OthersUntouched DEF SetUpThrows, Goto, Spend, Blank, history,
       Completes, Work
<1>13. ASSUME NEW w \in Workers, PlayTurn(w) PROVE CompletedOnce'
  BY <1>0, <1>1, <1>13, OthersUntouched DEF PlayTurn, Goto, Completes, Work
<1>14. ASSUME NEW w \in Workers, EndTurn(w) PROVE CompletedOnce'
  BY <1>0, <1>1, <1>14, OthersUntouched DEF EndTurn, Goto, Reenterable, TurnResult,
       history, SetRow, SetToken, Aim, nonTerminalStatuses, Completes, Work
<1>15. ASSUME NEW w \in Workers, MarkNodeCancelled(w) PROVE CompletedOnce'
  BY <1>0, <1>1, <1>15, OthersUntouched DEF MarkNodeCancelled, Goto, SetRow, Aim,
       history, Completes, Work
<1>16. ASSUME NEW w \in Workers, GraphThrows(w) PROVE CompletedOnce'
  BY <1>0, <1>1, <1>16, OthersUntouched DEF GraphThrows, Goto, Aim, history, Completes,
       Work
<1>17. ASSUME NEW w \in Workers, GraphParks(w) PROVE CompletedOnce'
  BY <1>0, <1>1, <1>17, OthersUntouched DEF GraphParks, Goto, NonTerminal, history,
       nonTerminalStatuses, Completes, Work
<1>18. ASSUME NEW w \in Workers, GraphCompletes(w) PROVE CompletedOnce'
  <2>1. CASE ~NonTerminal
    BY <1>0, <1>1, <1>18, <2>1, OthersUntouched DEF GraphCompletes, Goto, Completes, Work
  <2>2. CASE NonTerminal
    <3>1. Completions = {} /\ \A v \in Workers : ~Completes(v)
      BY <2>2, Writable DEF CompletedOnce
    <3>2. Completions' = Completions /\ exec' = "completed"
      BY <1>18, <2>2 DEF GraphCompletes, Completions
    <3>3. Completes(w)' /\ \A v \in Workers : Completes(v)' => v = w
      BY <1>0, <3>1, <1>18, <2>2, OthersUntouched
      DEF GraphCompletes, Goto, Aim, Completes, Work, Local
    <3>. QED
      BY <3>1, <3>2, <3>3 DEF CompletedOnce
  <2>. QED
    BY <2>1, <2>2
<1>19. ASSUME NEW w \in Workers, CloseSpawnedRow(w) PROVE CompletedOnce'
  BY <1>0, <1>1, <1>19, OthersUntouched DEF CloseSpawnedRow, Goto, SetRow, history,
       Completes, Work
<1>20. ASSUME NEW w \in Workers, FinalizeReads(w) PROVE CompletedOnce'
  BY <1>0, <1>1, <1>20, OthersUntouched DEF FinalizeReads, Goto, history, Completes,
       Work
<1>21. ASSUME NEW w \in Workers, FinalizeWrites(w) PROVE CompletedOnce'
  <2>1. /\ pc[w] = "finalWrite" /\ loc' = loc /\ announced' = announced
        /\ loc[w].goal # "completed"
    BY <1>21 DEF FinalizeWrites, Aimed
  <2>2. exec' = "completed" => exec = "completed"
    BY <1>21, <2>1 DEF FinalizeWrites
  <2>3. \A v \in Workers : Completes(v)' <=> Completes(v)
    BY <1>21, <2>1, OthersUntouched DEF Completes, Work
  <2>. QED
    BY <1>1, <2>1, <2>2, <2>3
<1>22. ASSUME NEW w \in Workers, Announce(w) PROVE CompletedOnce'
  <2>1. /\ pc[w] = "announce" /\ pc'[w] = "ack" /\ exec' = exec /\ loc' = loc
        /\ announced' = Append(announced, loc[w].goal)
    BY <1>0, <1>22 DEF Announce, Goto
  <2>2. \A v \in Workers : Completes(v)' <=> Completes(v) /\ v # w
    BY <2>1, <1>22, OthersUntouched DEF Completes, Work
  <2>3. CASE loc[w].goal # "completed"
    <3>1. Completions' = Completions
      BY <2>1, <2>3, Announcement
    <3>2. \A v \in Workers : Completes(v)' <=> Completes(v)
      BY <2>2, <2>3 DEF Completes
    <3>. QED
      BY <2>1, <3>1, <3>2, NothingCompletes
  <2>4. CASE loc[w].goal = "completed"
    <3>1. Completes(w) /\ Completions = {} /\ exec = "completed"
      BY <2>1, <2>4 DEF Completes, CompletedOnce
    <3>2. Completions' = {Len(announced) + 1}
      BY <2>1, <2>4, <3>1, Announcement
    <3>3. \A v \in Workers : ~Completes(v)'
      BY <2>2, <3>1 DEF CompletedOnce
    <3>. QED
      BY <2>1, <3>1, <3>2, <3>3 DEF CompletedOnce
  <2>. QED
    BY <2>3, <2>4
<1>23. ASSUME NEW w \in Workers, Ack(w) PROVE CompletedOnce'
  BY <1>0, <1>1, <1>23, OthersUntouched DEF Ack, Goto, Blank, history, Completes, Work
<1>24. CASE StopRunning
  BY <1>0, <1>1, <1>24 DEF StopRunning, Spend, history, Completes
<1>25. CASE StopParked
  <2>1. announced' = Append(announced, "cancelled")
    BY <1>25 DEF StopParked
  <2>2. Completions' = Completions \cup {}
    <3>1. \E e : e # "completed" /\ announced' = Append(announced, e)
      BY <2>1
    <3>. QED
      BY <3>1, Announcement
  <2>. QED
    BY <1>25, <2>2, NothingCompletes DEF StopParked, Completes
<1>26. ASSUME NEW w \in Workers, CrashWorker(w) PROVE CompletedOnce'
  <2>1. ~Undisturbed'
    BY <1>26, Disturbs DEF CrashWorker
  <2>2. \A v \in Workers : Completes(v)' => Completes(v)
    BY <1>0, <1>26 DEF CrashWorker, Goto, Completes
  <2>3. Completions' = Completions /\ exec' = exec
    BY <1>26 DEF CrashWorker, Completions
  <2>. QED
    BY <2>1, <2>2, <2>3 DEF CompletedOnce
<1>27. ASSUME NEW c \in Commands, CrashGateway(c) PROVE CompletedOnce'
  BY <1>0, <1>1, <1>27 DEF CrashGateway, Spend, NoCommand, history, Completes
<1>28. CASE UNCHANGED vars
  BY <1>0, <1>1, <1>28 DEF vars, history, Completes
<1>29. ASSUME NEW w \in Workers, TurnThrows(w) PROVE CompletedOnce'
  BY <1>0, <1>1, <1>29, OthersUntouched DEF TurnThrows, Goto, Aim, history, Completes,
       Work
<1>. QED
  BY <1>2, <1>3, <1>4, <1>5, <1>6, <1>7, <1>8, <1>9, <1>10, <1>11, <1>12, <1>13, <1>14,
     <1>15, <1>16, <1>17, <1>18, <1>19, <1>20, <1>21, <1>22, <1>23, <1>24, <1>25, <1>26,
     <1>27, <1>28, <1>29
  DEF Next, Gateway, Work, Environment

-------------------------------------------------------------------------------
\* A completion is announced once, by the worker whose write completed the execution and
\* never after a stop: runGraphAndFinalizeRetry emits only behind its guarded update.
THEOREM CompletionAnnouncedOnce == Spec => []CompletionAnnounced
<1>1. Init => Typed /\ Spent /\ Aimed /\ CompletedOnce
  BY InitTyped, InitSpent, InitAimed, InitCompleted
<1>2. Typed /\ Spent /\ Aimed /\ CompletedOnce /\ [Next]_vars =>
        (Typed /\ Spent /\ Aimed /\ CompletedOnce)'
  BY StepTyped, StepSpent, StepAimed, StepCompleted
<1>3. CompletedOnce => CompletionAnnounced
  <2> SUFFICES ASSUME CompletedOnce PROVE CompletionAnnounced
    OBVIOUS
  <2>1. Completions = {} \/ \E i : Completions = {i}
    BY DEF CompletedOnce
  <2>2. Cardinality(Completions) <= 1
    <3>1. CASE Completions = {}
      BY <3>1, FS_EmptySet
    <3>2. ASSUME NEW i, Completions = {i} PROVE Cardinality(Completions) = 1
      BY <3>2, FS_Singleton
    <3>. QED
      BY <2>1, <3>1, <3>2
  <2>3. Quiet => \A w \in Workers : ~Completes(w)
    BY DEF Quiet, Completes
  <2>. QED
    BY <2>2, <2>3 DEF CompletedOnce, CompletionAnnounced
<1>. QED
  BY <1>1, <1>2, <1>3, PTL DEF Spec
-------------------------------------------------------------------------------
\* A row that no retry spawned was there from the start, and stays.
LEMMA RootsStay ==
  ASSUME Typed, [Next]_vars PROVE Roots \subseteq Roots'
<1>0. /\ exec \in Status /\ rowStatus \in [Rows -> NodeStatus]
      /\ token \in [Rows -> {"none", "output", "input"}]
      /\ jobs \in [Rows -> {"none", "queued", "active"}]
      /\ cmd \in [Commands -> Command] /\ pc \in [Workers -> Label]
      /\ loc \in [Workers -> Local]
      /\ origin \in [Rows -> Rows \cup {0}]
  BY DEF Typed, TypeOK
<1>1. ASSUME NEW c \in Commands, NEW r \in Rows, CommandReads(c, r) PROVE Roots \subseteq Roots'
  BY <1>0, <1>1 DEF CommandReads, history, Roots
<1>2. ASSUME NEW c \in Commands, Consume(c) PROVE Roots \subseteq Roots'
  <2>1. CASE token[cmd[c].row] = "output"
    <3>1. PICK s \in Rows : Spawns(c, s)
      BY <1>2, <2>1, ConsumeCases
    <3>. QED
      BY <1>0, <3>1 DEF Spawns, Roots
  <2>2. CASE token[cmd[c].row] # "output"
    BY <1>2, <2>2, ConsumeRefused DEF Roots
  <2>. QED
    BY <2>1, <2>2
<1>3. ASSUME NEW c \in Commands, Publish(c) PROVE Roots \subseteq Roots'
  BY <1>0, <1>3 DEF Publish, NoCommand, history, Roots
<1>4. ASSUME NEW c \in Commands, PublishFails(c) PROVE Roots \subseteq Roots'
  BY <1>0, <1>4 DEF PublishFails, Spend, history, Roots
<1>5. ASSUME NEW c \in Commands, Compensate(c) PROVE Roots \subseteq Roots'
  BY <1>0, <1>5 DEF Compensate, SetRow, NoCommand, history, Roots
<1>6. ASSUME NEW w \in Workers, NEW r \in Rows, PickRetry(w, r) PROVE Roots \subseteq Roots'
  BY <1>0, <1>6 DEF PickRetry, Goto, Blank, history, Roots
<1>7. ASSUME NEW w \in Workers, Claim(w) PROVE Roots \subseteq Roots'
  BY <1>0, <1>7 DEF Claim, Goto, SetToken, history, Roots
<1>8. ASSUME NEW w \in Workers, LoadExecution(w) PROVE Roots \subseteq Roots'
  BY <1>0, <1>8 DEF LoadExecution, Goto, history, Roots
<1>9. ASSUME NEW w \in Workers, Reject(w) PROVE Roots \subseteq Roots'
  BY <1>0, <1>9 DEF Reject, Goto, SetRow, history, Roots
<1>10. ASSUME NEW w \in Workers, SetUp(w) PROVE Roots \subseteq Roots'
  BY <1>0, <1>10 DEF SetUp, Goto, history, Roots
<1>11. ASSUME NEW w \in Workers, SetUpThrows(w) PROVE Roots \subseteq Roots'
  BY <1>0, <1>11 DEF SetUpThrows, Goto, Spend, Blank, history, Roots
<1>12. ASSUME NEW w \in Workers, PlayTurn(w) PROVE Roots \subseteq Roots'
  BY <1>0, <1>12 DEF PlayTurn, Goto, Roots
<1>13. ASSUME NEW w \in Workers, EndTurn(w) PROVE Roots \subseteq Roots'
  BY <1>0, <1>13 DEF EndTurn, Goto, Reenterable, TurnResult, history, SetRow, SetToken,
       Aim, nonTerminalStatuses, Roots
<1>14. ASSUME NEW w \in Workers, MarkNodeCancelled(w) PROVE Roots \subseteq Roots'
  BY <1>0, <1>14 DEF MarkNodeCancelled, Goto, SetRow, Aim, history, Roots
<1>15. ASSUME NEW w \in Workers, GraphThrows(w) PROVE Roots \subseteq Roots'
  BY <1>0, <1>15 DEF GraphThrows, Goto, Aim, history, Roots
<1>16. ASSUME NEW w \in Workers, GraphParks(w) PROVE Roots \subseteq Roots'
  BY <1>0, <1>16 DEF GraphParks, Goto, NonTerminal, history, nonTerminalStatuses, Roots
<1>17. ASSUME NEW w \in Workers, GraphCompletes(w) PROVE Roots \subseteq Roots'
  BY <1>0, <1>17 DEF GraphCompletes, Goto, Aim, NonTerminal, history,
       nonTerminalStatuses, Roots
<1>18. ASSUME NEW w \in Workers, CloseSpawnedRow(w) PROVE Roots \subseteq Roots'
  <2>1. loc[w].goal # "absent"
    BY <1>0 DEF Local
  <2>. QED
    BY <1>0, <2>1, <1>18 DEF CloseSpawnedRow, SetRow, Roots, history
<1>19. ASSUME NEW w \in Workers, FinalizeReads(w) PROVE Roots \subseteq Roots'
  BY <1>0, <1>19 DEF FinalizeReads, Goto, history, Roots
<1>20. ASSUME NEW w \in Workers, FinalizeWrites(w) PROVE Roots \subseteq Roots'
  BY <1>0, <1>20 DEF FinalizeWrites, Goto, NonTerminal, history, nonTerminalStatuses,
       Roots
<1>21. ASSUME NEW w \in Workers, Announce(w) PROVE Roots \subseteq Roots'
  BY <1>0, <1>21 DEF Announce, Goto, history, Roots
<1>22. ASSUME NEW w \in Workers, Ack(w) PROVE Roots \subseteq Roots'
  BY <1>0, <1>22 DEF Ack, Goto, Blank, history, Roots
<1>23. CASE StopRunning
  BY <1>0, <1>23 DEF StopRunning, Spend, history, Roots
<1>24. CASE StopParked
  BY <1>0, <1>24 DEF StopParked, Spend, history, Roots
<1>25. ASSUME NEW w \in Workers, CrashWorker(w) PROVE Roots \subseteq Roots'
  BY <1>0, <1>25 DEF CrashWorker, Goto, Spend, Blank, history, Roots
<1>26. ASSUME NEW c \in Commands, CrashGateway(c) PROVE Roots \subseteq Roots'
  BY <1>0, <1>26 DEF CrashGateway, Spend, NoCommand, history, Roots
<1>27. CASE UNCHANGED vars
  BY <1>0, <1>27 DEF vars, history, Roots
<1>28. ASSUME NEW w \in Workers, TurnThrows(w) PROVE Roots \subseteq Roots'
  BY <1>0, <1>28 DEF TurnThrows, Goto, Aim, history, Roots
<1>. QED
  BY <1>1, <1>2, <1>3, <1>4, <1>5, <1>6, <1>7, <1>8, <1>9, <1>10, <1>11, <1>12, <1>13,
     <1>14, <1>15, <1>16, <1>17, <1>18, <1>19, <1>20, <1>21, <1>22, <1>23, <1>24, <1>25,
     <1>26, <1>27, <1>28
  DEF Next, Gateway, Work, Environment

LEMMA InitAttempt == Init => OneAttempt
<1> SUFFICES ASSUME Init, OneRoot PROVE OneAttempt
  BY DEF OneAttempt
<1>1. \A r \in Rows : token[r] # "none" => r \in Roots
  BY DEF Init, Roots
<1>2. \A w \in Workers : ~Attempts(w)
  BY DEF Init, Attempts, Serving
<1>. QED
  BY <1>1, <1>2 DEF Init, OneAttempt, OneRoot

LEMMA StepAttempt ==
  ASSUME Typed, OneAttempt, [Next]_vars PROVE OneAttempt'
<1>0. /\ exec \in Status /\ rowStatus \in [Rows -> NodeStatus]
      /\ token \in [Rows -> {"none", "output", "input"}]
      /\ jobs \in [Rows -> {"none", "queued", "active"}]
      /\ cmd \in [Commands -> Command] /\ pc \in [Workers -> Label]
      /\ loc \in [Workers -> Local]
  BY DEF Typed, TypeOK
<1>1. ASSUME \A r \in Rows : token'[r] # "none" => token[r] # "none",
             \A w \in Workers : Attempts(w)' => Attempts(w),
             exec' = "waiting_for_input" => exec = "waiting_for_input"
      PROVE  OneAttempt'
  BY <1>1, RootsStay DEF OneAttempt, OneRoot
<1>2. ASSUME NEW c \in Commands, NEW r \in Rows, CommandReads(c, r) PROVE OneAttempt'
  BY <1>0, <1>1, <1>2 DEF CommandReads, history, Attempts, Serving
<1>3. ASSUME NEW c \in Commands, Consume(c) PROVE OneAttempt'
  <2>1. CASE token[cmd[c].row] = "output"
    <3>1. PICK s \in Rows : Spawns(c, s)
      BY <1>3, <2>1, ConsumeCases
    <3>2. cmd[c].row \in Rows /\ token[cmd[c].row] # "none"
      BY <2>1, <3>1 DEF Spawns, Typed, Placed
    <3>3. \A r \in Rows : token'[r] # "none" => r = s \/ (token[r] # "none" /\ r # cmd[c].row)
      BY <1>0, <3>1 DEF Spawns
    <3>4. exec' = exec /\ \A v \in Workers : Attempts(v)' <=> Attempts(v)
      BY <3>1 DEF Spawns, Attempts
    <3>. QED
      BY <3>2, <3>3, <3>4, RootsStay DEF OneAttempt, OneRoot
  <2>2. CASE token[cmd[c].row] # "output"
    BY <1>1, <1>3, <2>2, ConsumeRefused DEF Attempts
  <2>. QED
    BY <2>1, <2>2
<1>4. ASSUME NEW c \in Commands, Publish(c) PROVE OneAttempt'
  BY <1>0, <1>1, <1>4 DEF Publish, NoCommand, history, Attempts, Serving
<1>5. ASSUME NEW c \in Commands, PublishFails(c) PROVE OneAttempt'
  BY <1>0, <1>1, <1>5 DEF PublishFails, Spend, history, Attempts, Serving
<1>6. ASSUME NEW c \in Commands, Compensate(c) PROVE OneAttempt'
  BY <1>0, <1>1, <1>6 DEF Compensate, SetRow, NoCommand, history, Attempts, Serving
<1>7. ASSUME NEW w \in Workers, NEW r \in Rows, PickRetry(w, r) PROVE OneAttempt'
  BY <1>0, <1>1, <1>7, OthersUntouched DEF PickRetry, Goto, Blank, history, Attempts,
       Serving, Work
<1>8. ASSUME NEW w \in Workers, Claim(w) PROVE OneAttempt'
  <2>1. CASE rowStatus[loc[w].row] = "running" /\ token[loc[w].row] = "input"
    <3>1. loc[w].row \in Rows /\ token[loc[w].row] # "none"
      BY <1>8, <2>1 DEF Claim, Typed, Placed
    <3>2. \A r \in Rows : token'[r] # "none" => token[r] # "none" /\ r # loc[w].row
      BY <1>0, <1>8, <2>1 DEF Claim, SetToken
    <3>3. \A v \in Workers : Attempts(v)' => Attempts(v) \/ v = w
      BY <1>8, OthersUntouched DEF Attempts, Work
    <3>4. exec' = exec
      BY <1>8 DEF Claim
    <3>. QED
      BY <3>1, <3>2, <3>3, <3>4, RootsStay DEF OneAttempt, OneRoot
  <2>2. CASE ~(rowStatus[loc[w].row] = "running" /\ token[loc[w].row] = "input")
    BY <1>0, <1>1, <1>8, <2>2, OthersUntouched DEF Claim, Goto, Attempts, Serving, Work
  <2>. QED
    BY <2>1, <2>2
<1>9. ASSUME NEW w \in Workers, LoadExecution(w) PROVE OneAttempt'
  BY <1>0, <1>1, <1>9, OthersUntouched DEF LoadExecution, Goto, history, Attempts,
       Serving, Work
<1>10. ASSUME NEW w \in Workers, Reject(w) PROVE OneAttempt'
  BY <1>0, <1>1, <1>10, OthersUntouched DEF Reject, Goto, SetRow, history, Attempts,
       Serving, Work
<1>11. ASSUME NEW w \in Workers, SetUp(w) PROVE OneAttempt'
  BY <1>0, <1>1, <1>11, OthersUntouched DEF SetUp, Goto, history, Attempts, Serving,
       Work
<1>12. ASSUME NEW w \in Workers, SetUpThrows(w) PROVE OneAttempt'
  BY <1>0, <1>1, <1>12, OthersUntouched DEF SetUpThrows, Goto, Spend, Blank, history,
       Attempts, Serving, Work
<1>13. ASSUME NEW w \in Workers, PlayTurn(w) PROVE OneAttempt'
  BY <1>0, <1>1, <1>13, OthersUntouched DEF PlayTurn, Goto, Attempts, Serving, Work
<1>14. ASSUME NEW w \in Workers, EndTurn(w) PROVE OneAttempt'
  <2>0. Attempts(w) /\ pc[w] = "turnEnd"
    BY <1>14 DEF EndTurn, Attempts, Serving
  <2>1. \A v \in Workers : Attempts(v)' => Attempts(v)
    BY <2>0, <1>14, OthersUntouched DEF Attempts, Work
  <2>2. CASE token' = token /\ (exec' = exec \/ exec' = "running")
    BY <1>1, <2>1, <2>2
  <2>3. CASE token' = token /\ exec' = "waiting_for_input" /\ pc'[w] = "ack"
    <3>1. ~Attempts(w)'
      BY <2>3 DEF Attempts, Serving
    <3>. QED
      BY <2>0, <2>1, <2>3, <3>1, RootsStay DEF OneAttempt, OneRoot
  <2>4. CASE /\ exec' = exec /\ pc'[w] = "close"
             /\ \A r \in Rows : r # loc[w].row => token'[r] = token[r]
    <3>1. ~Attempts(w)'
      BY <2>4 DEF Attempts, Serving
    <3>. QED
      BY <2>0, <2>1, <2>4, <3>1, RootsStay DEF OneAttempt, OneRoot
  <2>. QED
    BY <1>0, <2>2, <2>3, <2>4, <1>14 DEF EndTurn, TurnResult, SetToken, Goto
<1>15. ASSUME NEW w \in Workers, MarkNodeCancelled(w) PROVE OneAttempt'
  BY <1>0, <1>1, <1>15, OthersUntouched DEF MarkNodeCancelled, Goto, SetRow, Aim,
       history, Attempts, Serving, Work
<1>16. ASSUME NEW w \in Workers, GraphThrows(w) PROVE OneAttempt'
  BY <1>0, <1>1, <1>16, OthersUntouched DEF GraphThrows, Goto, Aim, history, Attempts,
       Serving, Work
<1>17. ASSUME NEW w \in Workers, GraphParks(w) PROVE OneAttempt'
  <2>1. Attempts(w) /\ token' = token
    BY <1>17 DEF GraphParks, Attempts
  <2>2. \A v \in Workers : Attempts(v)' => Attempts(v) /\ v # w
    BY <1>0, <1>17, OthersUntouched DEF GraphParks, Goto, Attempts, Serving, Work
  <2>. QED
    BY <2>1, <2>2, RootsStay DEF OneAttempt, OneRoot
<1>18. ASSUME NEW w \in Workers, GraphCompletes(w) PROVE OneAttempt'
  BY <1>0, <1>1, <1>18, OthersUntouched DEF GraphCompletes, Goto, Aim, NonTerminal,
       history, nonTerminalStatuses, Attempts, Serving, Work
<1>19. ASSUME NEW w \in Workers, CloseSpawnedRow(w) PROVE OneAttempt'
  BY <1>0, <1>1, <1>19, OthersUntouched DEF CloseSpawnedRow, Goto, SetRow, history,
       Attempts, Serving, Work
<1>20. ASSUME NEW w \in Workers, FinalizeReads(w) PROVE OneAttempt'
  BY <1>0, <1>1, <1>20, OthersUntouched DEF FinalizeReads, Goto, history, Attempts,
       Serving, Work
<1>21. ASSUME NEW w \in Workers, FinalizeWrites(w) PROVE OneAttempt'
  <2>1. exec' = "waiting_for_input" => exec = "waiting_for_input"
    BY <1>0, <1>21 DEF FinalizeWrites, Local
  <2>. QED
    BY <1>0, <1>1, <1>21, <2>1, OthersUntouched DEF FinalizeWrites, Goto, Attempts, Serving, Work
<1>22. ASSUME NEW w \in Workers, Announce(w) PROVE OneAttempt'
  BY <1>0, <1>1, <1>22, OthersUntouched DEF Announce, Goto, history, Attempts, Serving,
       Work
<1>23. ASSUME NEW w \in Workers, Ack(w) PROVE OneAttempt'
  BY <1>0, <1>1, <1>23, OthersUntouched DEF Ack, Goto, Blank, history, Attempts,
       Serving, Work
<1>24. CASE StopRunning
  BY <1>0, <1>1, <1>24 DEF StopRunning, Spend, history, Attempts, Serving
<1>25. CASE StopParked
  BY <1>0, <1>1, <1>25 DEF StopParked, Spend, history, Attempts, Serving
<1>26. ASSUME NEW w \in Workers, CrashWorker(w) PROVE OneAttempt'
  BY <1>0, <1>1, <1>26 DEF CrashWorker, Goto, Spend, Blank, history, Attempts, Serving
<1>27. ASSUME NEW c \in Commands, CrashGateway(c) PROVE OneAttempt'
  BY <1>0, <1>1, <1>27 DEF CrashGateway, Spend, NoCommand, history, Attempts, Serving
<1>28. CASE UNCHANGED vars
  BY <1>0, <1>1, <1>28 DEF vars, history, Attempts, Serving
<1>29. ASSUME NEW w \in Workers, TurnThrows(w) PROVE OneAttempt'
  BY <1>0, <1>1, <1>29, OthersUntouched DEF TurnThrows, Goto, Aim, history, Attempts,
       Serving, Work
<1>. QED
  BY <1>2, <1>3, <1>4, <1>5, <1>6, <1>7, <1>8, <1>9, <1>10, <1>11, <1>12, <1>13, <1>14,
     <1>15, <1>16, <1>17, <1>18, <1>19, <1>20, <1>21, <1>22, <1>23, <1>24, <1>25, <1>26,
     <1>27, <1>28, <1>29
  DEF Next, Gateway, Work, Environment


LEMMA OneBranchOneRoot == OneBranch => OneRoot
<1> SUFFICES ASSUME OneBranch PROVE OneRoot
  OBVIOUS
<1>1. IsFiniteSet(Rows)
  BY RowsAssumption, FS_Interval DEF Rows
<1>2. IsFiniteSet(Roots)
  BY <1>1, FS_Subset DEF Roots
<1>3. Cardinality(Roots) = 1
  BY DEF OneBranch, Roots
<1>. QED
  BY <1>2, <1>3, FS_Singleton DEF OneRoot

LEMMA AttemptsAlways == Spec => [](Typed /\ Spent /\ Aimed /\ OneAttempt)
<1>1. Init => Typed /\ Spent /\ Aimed /\ OneAttempt
  BY InitTyped, InitSpent, InitAimed, InitAttempt
<1>2. Typed /\ Spent /\ Aimed /\ OneAttempt /\ [Next]_vars =>
        (Typed /\ Spent /\ Aimed /\ OneAttempt)'
  BY StepTyped, StepSpent, StepAimed, StepAttempt
<1>. QED
  BY <1>1, <1>2, PTL DEF Spec

\* Of one failed row one retry is under way at a time, and none while the conversation
\* waits for its user: the token applyRetryLastTurn claims, or the worker that claimed
\* it, is all there is to start from.
THEOREM OneReentryAtATime == Spec => []OneReentry
<1>1. OneAttempt => OneReentry
  <2>1. \A w \in Workers : pc[w] \in Driving => Attempts(w)
    BY DEF Driving, Attempts, Serving
  <2>. QED
    BY <2>1, OneBranchOneRoot DEF OneAttempt, OneReentry
<1>. QED
  BY <1>1, AttemptsAlways, PTL

\* Every status write of a re-entry keeps to the transition table.
LEMMA StepFollows ==
  ASSUME Typed, Aimed, OneAttempt, OneRoot, [Next]_vars
  PROVE  exec' = exec \/ canTransition(exec, exec', TRUE)
<1>0. /\ exec \in Status /\ rowStatus \in [Rows -> NodeStatus]
      /\ token \in [Rows -> {"none", "output", "input"}]
      /\ jobs \in [Rows -> {"none", "queued", "active"}]
      /\ cmd \in [Commands -> Command] /\ pc \in [Workers -> Label]
      /\ loc \in [Workers -> Local]
  BY DEF Typed, TypeOK
<1>1. /\ exec # "pending"
      /\ \A s \in {"completed", "failed", "cancelled", "waiting_for_input"} :
           canTransition("running", s, TRUE)
      /\ \A s \in {"running", "failed", "cancelled"} : canTransition("waiting_for_input", s, TRUE)
      /\ \A s \in {"running", "waiting_for_input"} : canTransition("failed", s, TRUE)
  BY DEF Aimed, canTransition, ALLOWED_TRANSITIONS, RETRY_REENTRY, Status
<1>. DEFINE Follows == exec' = exec \/ canTransition(exec, exec', TRUE)
<1>2. ASSUME NEW c \in Commands, NEW r \in Rows, CommandReads(c, r) PROVE Follows
  BY <1>2 DEF CommandReads, history
<1>3. ASSUME NEW c \in Commands, Consume(c) PROVE Follows
  BY <1>3 DEF Consume, SetRow, NoCommand
<1>4. ASSUME NEW c \in Commands, Publish(c) PROVE Follows
  BY <1>4 DEF Publish, NoCommand, history
<1>5. ASSUME NEW c \in Commands, PublishFails(c) PROVE Follows
  BY <1>5 DEF PublishFails, Spend, history
<1>6. ASSUME NEW c \in Commands, Compensate(c) PROVE Follows
  BY <1>6 DEF Compensate, SetRow, NoCommand, history
<1>7. ASSUME NEW w \in Workers, NEW r \in Rows, PickRetry(w, r) PROVE Follows
  BY <1>7 DEF PickRetry, Goto, Blank, history
<1>8. ASSUME NEW w \in Workers, Claim(w) PROVE Follows
  BY <1>8 DEF Claim, Goto, SetToken, history
<1>9. ASSUME NEW w \in Workers, LoadExecution(w) PROVE Follows
  BY <1>9 DEF LoadExecution, Goto, history
<1>10. ASSUME NEW w \in Workers, Reject(w) PROVE Follows
  BY <1>10 DEF Reject, Goto, SetRow, history
<1>11. ASSUME NEW w \in Workers, SetUp(w) PROVE Follows
  BY <1>11 DEF SetUp, Goto, history
<1>12. ASSUME NEW w \in Workers, SetUpThrows(w) PROVE Follows
  BY <1>12 DEF SetUpThrows, Goto, Spend, Blank, history
<1>13. ASSUME NEW w \in Workers, PlayTurn(w) PROVE Follows
  BY <1>13 DEF PlayTurn, Goto
<1>14. ASSUME NEW w \in Workers, EndTurn(w) PROVE Follows
  <2>1. exec' # exec => exec' \in {"waiting_for_input", "running"} /\ Reenterable
    BY <1>14 DEF EndTurn, TurnResult
  <2>. QED
    BY <1>1, <2>1, Writable
<1>15. ASSUME NEW w \in Workers, MarkNodeCancelled(w) PROVE Follows
  BY <1>15 DEF MarkNodeCancelled, Goto, SetRow, Aim, history
<1>16. ASSUME NEW w \in Workers, GraphThrows(w) PROVE Follows
  BY <1>16 DEF GraphThrows, Goto, Aim, history
<1>17. ASSUME NEW w \in Workers, GraphParks(w) PROVE Follows
  BY <1>1, <1>17, Writable DEF GraphParks
<1>18. ASSUME NEW w \in Workers, GraphCompletes(w) PROVE Follows
  <2>1. exec' # exec => exec' = "completed" /\ NonTerminal /\ exec # "waiting_for_input"
    BY <1>18 DEF GraphCompletes, OneAttempt, Attempts
  <2>. QED
    BY <1>1, <2>1, Writable
<1>19. ASSUME NEW w \in Workers, CloseSpawnedRow(w) PROVE Follows
  BY <1>19 DEF CloseSpawnedRow, Goto, SetRow, history
<1>20. ASSUME NEW w \in Workers, FinalizeReads(w) PROVE Follows
  BY <1>20 DEF FinalizeReads, Goto, history
<1>21. ASSUME NEW w \in Workers, FinalizeWrites(w) PROVE Follows
  <2>1. exec' # exec => exec' \in {"failed", "cancelled"} /\ NonTerminal
    BY <1>0, <1>21 DEF FinalizeWrites, Aimed, Local
  <2>. QED
    BY <1>1, <2>1, Writable
<1>22. ASSUME NEW w \in Workers, Announce(w) PROVE Follows
  BY <1>22 DEF Announce, Goto, history
<1>23. ASSUME NEW w \in Workers, Ack(w) PROVE Follows
  BY <1>23 DEF Ack, Goto, Blank, history
<1>24. CASE StopRunning
  BY <1>1, <1>24 DEF StopRunning
<1>25. CASE StopParked
  BY <1>1, <1>25 DEF StopParked
<1>26. ASSUME NEW w \in Workers, CrashWorker(w) PROVE Follows
  BY <1>26 DEF CrashWorker, Goto, Spend, Blank, history
<1>27. ASSUME NEW c \in Commands, CrashGateway(c) PROVE Follows
  BY <1>27 DEF CrashGateway, Spend, NoCommand, history
<1>28. CASE UNCHANGED vars
  BY <1>28 DEF vars, history
<1>29. ASSUME NEW w \in Workers, TurnThrows(w) PROVE Follows
  BY <1>29 DEF TurnThrows, Goto, Aim, history
<1>. QED
  BY <1>2, <1>3, <1>4, <1>5, <1>6, <1>7, <1>8, <1>9, <1>10, <1>11, <1>12, <1>13, <1>14,
     <1>15, <1>16, <1>17, <1>18, <1>19, <1>20, <1>21, <1>22, <1>23, <1>24, <1>25, <1>26,
     <1>27, <1>28, <1>29
  DEF Next, Gateway, Work, Environment

\* With the opt-in a failed execution runs or parks again, and from there moves along
\* ALLOWED_TRANSITIONS only: nothing skips a status, nothing is written twice.
THEOREM ReentryFollowsTable == Spec => FollowsStatusMachine
<1>1. Typed /\ Aimed /\ OneAttempt /\ [Next]_vars =>
        [OneBranch => canTransition(exec, exec', TRUE)]_exec
  BY StepFollows, OneBranchOneRoot
<1>. QED
  BY <1>1, AttemptsAlways, PTL DEF Spec, FollowsStatusMachine

-------------------------------------------------------------------------------
LEMMA InitCloses == Init => Closes
<1> SUFFICES ASSUME Init PROVE Closes
  OBVIOUS
<1>1. RunHeld
  BY DEF Init, RunHeld
<1>2. Dispatched
  BY DEF Init, Dispatched, Issuing, OnHand, NoCommand
<1>3. RowsHeld
  BY DEF Init, RowsHeld
<1>. QED
  BY <1>1, <1>2, <1>3 DEF Closes

\* The execution: who leaves the graph parks it, completes it or goes on to end it.
LEMMA StepRunHeld ==
  ASSUME Typed, Spent, Aimed, RunHeld, [Next]_vars, Undisturbed' PROVE RunHeld'
<1>0. /\ exec \in Status /\ rowStatus \in [Rows -> NodeStatus]
      /\ token \in [Rows -> {"none", "output", "input"}]
      /\ jobs \in [Rows -> {"none", "queued", "active"}]
      /\ cmd \in [Commands -> Command] /\ pc \in [Workers -> Label]
      /\ loc \in [Workers -> Local]
  BY DEF Typed, TypeOK
<1>1. ASSUME exec' = "running" => exec = "running",
             \A v \in Workers : Runner(v) => Runner(v)'
      PROVE  RunHeld'
  BY <1>1 DEF RunHeld
<1>2. ASSUME NEW c \in Commands, NEW r \in Rows, CommandReads(c, r) PROVE RunHeld'
  BY <1>0, <1>1, <1>2 DEF CommandReads, history, Runner
<1>3. ASSUME NEW c \in Commands, Consume(c) PROVE RunHeld'
  BY <1>0, <1>1, <1>3 DEF Consume, SetRow, NoCommand, Runner
<1>4. ASSUME NEW c \in Commands, Publish(c) PROVE RunHeld'
  BY <1>0, <1>1, <1>4 DEF Publish, NoCommand, history, Runner
<1>5. ASSUME NEW c \in Commands, PublishFails(c) PROVE RunHeld'
  BY <1>0, <1>1, <1>5 DEF PublishFails, Spend, history, Runner
<1>6. ASSUME NEW c \in Commands, Compensate(c) PROVE RunHeld'
  BY <1>0, <1>1, <1>6 DEF Compensate, SetRow, NoCommand, history, Runner
<1>7. ASSUME NEW w \in Workers, NEW r \in Rows, PickRetry(w, r) PROVE RunHeld'
  BY <1>0, <1>1, <1>7, OthersUntouched DEF PickRetry, Goto, Blank, history, Runner, Work
<1>8. ASSUME NEW w \in Workers, Claim(w) PROVE RunHeld'
  BY <1>0, <1>1, <1>8, OthersUntouched DEF Claim, Goto, SetToken, history, Runner, Work
<1>9. ASSUME NEW w \in Workers, LoadExecution(w) PROVE RunHeld'
  BY <1>0, <1>1, <1>9, OthersUntouched DEF LoadExecution, Goto, history, Runner, Work
<1>10. ASSUME NEW w \in Workers, Reject(w) PROVE RunHeld'
  BY <1>0, <1>1, <1>10, OthersUntouched DEF Reject, Goto, SetRow, history, Runner, Work
<1>11. ASSUME NEW w \in Workers, SetUp(w) PROVE RunHeld'
  BY <1>0, <1>1, <1>11, OthersUntouched DEF SetUp, Goto, history, Runner, Work
<1>12. ASSUME NEW w \in Workers, SetUpThrows(w) PROVE RunHeld'
  BY <1>12, Disturbs DEF SetUpThrows
<1>13. ASSUME NEW w \in Workers, PlayTurn(w) PROVE RunHeld'
  BY <1>0, <1>1, <1>13, OthersUntouched DEF PlayTurn, Goto, Runner, Work
<1>14. ASSUME NEW w \in Workers, EndTurn(w) PROVE RunHeld'
  <2>1. CASE exec' = "running" /\ pc'[w] = "graph"
    BY <2>1 DEF RunHeld, Runner
  <2>2. CASE exec' # "running"
    BY <2>2 DEF RunHeld
  <2>3. CASE exec' = exec /\ pc[w] = "turnEnd"
    BY <1>1, <1>14, <2>3, OthersUntouched DEF Runner, Work
  <2>. QED
    BY <1>0, <1>14, <2>1, <2>2, <2>3 DEF EndTurn, TurnResult, Goto
<1>15. ASSUME NEW w \in Workers, MarkNodeCancelled(w) PROVE RunHeld'
  BY <1>0, <1>1, <1>15, OthersUntouched DEF MarkNodeCancelled, Goto, SetRow, Aim,
       history, Runner, Work
<1>16. ASSUME NEW w \in Workers, GraphThrows(w) PROVE RunHeld'
  BY <1>0, <1>1, <1>16, OthersUntouched DEF GraphThrows, Goto, Aim, history, Runner,
       Work
<1>17. ASSUME NEW w \in Workers, GraphParks(w) PROVE RunHeld'
  BY <1>17 DEF GraphParks, RunHeld
<1>18. ASSUME NEW w \in Workers, GraphCompletes(w) PROVE RunHeld'
  BY <1>18, Writable DEF GraphCompletes, RunHeld
<1>19. ASSUME NEW w \in Workers, CloseSpawnedRow(w) PROVE RunHeld'
  BY <1>0, <1>1, <1>19, OthersUntouched DEF CloseSpawnedRow, Goto, SetRow, history,
       Runner, Work
<1>20. ASSUME NEW w \in Workers, FinalizeReads(w) PROVE RunHeld'
  <2>0. loc[w].goal \in {"failed", "cancelled"} /\ pc[w] = "finalRead"
    BY <1>0, <1>20 DEF FinalizeReads, Aimed, Local
  <2>1. CASE exec # "running"
    BY <1>20, <2>1 DEF FinalizeReads, RunHeld
  <2>2. CASE exec = "running"
    <3>1. canTransition("running", "failed", FALSE) /\ canTransition("running", "cancelled", FALSE)
      BY DEF canTransition, ALLOWED_TRANSITIONS, Status
    <3>2. /\ pc'[w] = "finalWrite" /\ loc'[w].live = "running"
          /\ loc'[w].goal = loc[w].goal
      BY <1>0, <1>20, <2>0, <2>2, <3>1 DEF FinalizeReads, Goto, Local
    <3>. QED
      BY <2>0, <3>2 DEF RunHeld, Runner
  <2>. QED
    BY <2>1, <2>2
<1>21. ASSUME NEW w \in Workers, FinalizeWrites(w) PROVE RunHeld'
  <2>0. loc[w].goal # "running" /\ pc[w] = "finalWrite" /\ loc' = loc
    BY <1>0, <1>21 DEF FinalizeWrites, Local
  <2>1. CASE loc[w].live = loc[w].goal
    <3>1. ~Runner(w) /\ exec' = exec
      BY <1>21, <2>0, <2>1 DEF FinalizeWrites, Runner
    <3>. QED
      BY <1>1, <1>21, <2>0, <3>1, OthersUntouched DEF Runner, Work
  <2>2. CASE loc[w].live # loc[w].goal
    BY <1>21, <2>0, <2>2, Writable DEF FinalizeWrites, RunHeld
  <2>. QED
    BY <2>1, <2>2
<1>22. ASSUME NEW w \in Workers, Announce(w) PROVE RunHeld'
  BY <1>0, <1>1, <1>22, OthersUntouched DEF Announce, Goto, history, Runner, Work
<1>23. ASSUME NEW w \in Workers, Ack(w) PROVE RunHeld'
  BY <1>0, <1>1, <1>23, OthersUntouched DEF Ack, Goto, Blank, history, Runner, Work
<1>24. CASE StopRunning
  BY <1>0, <1>1, <1>24 DEF StopRunning, Spend, history, Runner
<1>25. CASE StopParked
  BY <1>0, <1>1, <1>25 DEF StopParked, Spend, history, Runner
<1>26. ASSUME NEW w \in Workers, CrashWorker(w) PROVE RunHeld'
  BY <1>26, Disturbs DEF CrashWorker
<1>27. ASSUME NEW c \in Commands, CrashGateway(c) PROVE RunHeld'
  BY <1>27, Disturbs DEF CrashGateway
<1>28. CASE UNCHANGED vars
  BY <1>0, <1>1, <1>28 DEF vars, history, Runner
<1>29. ASSUME NEW w \in Workers, TurnThrows(w) PROVE RunHeld'
  BY <1>0, <1>1, <1>29, OthersUntouched DEF TurnThrows, Goto, Aim, history, Runner,
       Work
<1>. QED
  BY <1>2, <1>3, <1>4, <1>5, <1>6, <1>7, <1>8, <1>9, <1>10, <1>11, <1>12, <1>13, <1>14,
     <1>15, <1>16, <1>17, <1>18, <1>19, <1>20, <1>21, <1>22, <1>23, <1>24, <1>25, <1>26,
     <1>27, <1>28, <1>29
  DEF Next, Gateway, Work, Environment

\* The job: it is queued by the command that spawned its row, and taken by one worker.
LEMMA StepDispatched ==
  ASSUME Typed, Spent, Dispatched, [Next]_vars, Undisturbed' PROVE Dispatched'
<1>0. /\ exec \in Status /\ rowStatus \in [Rows -> NodeStatus]
      /\ token \in [Rows -> {"none", "output", "input"}]
      /\ jobs \in [Rows -> {"none", "queued", "active"}]
      /\ cmd \in [Commands -> Command] /\ pc \in [Workers -> Label]
      /\ loc \in [Workers -> Local]
  BY DEF Typed, TypeOK
<1>1. ASSUME cmd' = cmd, jobs' = jobs,
             \A r \in Rows : rowStatus'[r] = "absent" => rowStatus[r] = "absent",
             \A w \in Workers, r \in Rows : OnHand(w, r)' => OnHand(w, r)
      PROVE  Dispatched'
  BY <1>1 DEF Dispatched, Issuing
<1>2. ASSUME NEW c \in Commands, NEW r \in Rows, CommandReads(c, r) PROVE Dispatched'
  BY <1>0, <1>2 DEF CommandReads, history, Dispatched, Issuing, OnHand
<1>3. ASSUME NEW c \in Commands, Consume(c) PROVE Dispatched'
  BY <1>0, <1>3 DEF Consume, SetRow, NoCommand, Dispatched, Issuing, OnHand
<1>4. ASSUME NEW c \in Commands, Publish(c) PROVE Dispatched'
  BY <1>0, <1>4 DEF Publish, NoCommand, history, Dispatched, Issuing, OnHand
<1>5. ASSUME NEW c \in Commands, PublishFails(c) PROVE Dispatched'
  BY <1>0, <1>5 DEF PublishFails, Spend, history, Dispatched, Issuing, OnHand
<1>6. ASSUME NEW c \in Commands, Compensate(c) PROVE Dispatched'
  BY <1>0, <1>6 DEF Compensate, SetRow, NoCommand, history, Dispatched, Issuing, OnHand
<1>7. ASSUME NEW w \in Workers, NEW r \in Rows, PickRetry(w, r) PROVE Dispatched'
  <2>1. jobs[r] = "queued" /\ rowStatus[r] # "absent" /\ cmd' = cmd /\ rowStatus' = rowStatus
    BY <1>7 DEF PickRetry, Dispatched
  <2>2. \A q \in Rows : jobs'[q] = IF q = r THEN "active" ELSE jobs[q]
    BY <1>0, <1>7 DEF PickRetry
  <2>3. /\ \A v \in Workers : ~OnHand(v, r)
        /\ \A c \in Commands : ~Issuing(c, r)
    BY <2>1 DEF Dispatched
  <2>4. /\ loc'[w].row = r
        /\ \A v \in Workers : v # w => pc'[v] = pc[v] /\ loc'[v] = loc[v]
    BY <1>0, <1>7 DEF PickRetry, Goto, Blank
  <2>5. \A v \in Workers, q \in Rows : OnHand(v, q)' => OnHand(v, q) \/ (v = w /\ q = r)
    BY <2>4 DEF OnHand
  <2>6. \A c \in Commands, q \in Rows : Issuing(c, q)' <=> Issuing(c, q)
    BY <2>1 DEF Issuing
  <2>. QED
    BY <2>1, <2>2, <2>3, <2>5, <2>6 DEF Dispatched
<1>8. ASSUME NEW w \in Workers, Claim(w) PROVE Dispatched'
  BY <1>0, <1>8, OthersUntouched DEF Claim, Goto, SetToken, history, Dispatched,
       Issuing, OnHand, Work
<1>9. ASSUME NEW w \in Workers, LoadExecution(w) PROVE Dispatched'
  BY <1>0, <1>9, OthersUntouched DEF LoadExecution, Goto, history, Dispatched, Issuing,
       OnHand, Work
<1>10. ASSUME NEW w \in Workers, Reject(w) PROVE Dispatched'
  BY <1>0, <1>10, OthersUntouched DEF Reject, Goto, SetRow, history, Dispatched,
       Issuing, OnHand, Work
<1>11. ASSUME NEW w \in Workers, SetUp(w) PROVE Dispatched'
  BY <1>0, <1>11, OthersUntouched DEF SetUp, Goto, history, Dispatched, Issuing, OnHand,
       Work
<1>12. ASSUME NEW w \in Workers, SetUpThrows(w) PROVE Dispatched'
  BY <1>12, Disturbs DEF SetUpThrows
<1>13. ASSUME NEW w \in Workers, PlayTurn(w) PROVE Dispatched'
  BY <1>0, <1>13, OthersUntouched DEF PlayTurn, Goto, Dispatched, Issuing, OnHand, Work
<1>14. ASSUME NEW w \in Workers, EndTurn(w) PROVE Dispatched'
  <2>1. \A v \in Workers : loc'[v].row = loc[v].row /\ (pc'[v] # "idle" => pc[v] # "idle")
    BY <1>0, <1>14 DEF EndTurn, TurnResult, Goto, Aim, Local
  <2>2. \A r \in Rows : rowStatus'[r] = "absent" => rowStatus[r] = "absent"
    BY <1>0, <1>14 DEF EndTurn, TurnResult, SetRow, Local
  <2>3. cmd' = cmd /\ jobs' = jobs
    BY <1>14 DEF EndTurn
  <2>. QED
    BY <1>1, <2>1, <2>2, <2>3 DEF OnHand
<1>15. ASSUME NEW w \in Workers, MarkNodeCancelled(w) PROVE Dispatched'
  BY <1>0, <1>15, OthersUntouched DEF MarkNodeCancelled, Goto, SetRow, Aim, history,
       Dispatched, Issuing, OnHand, Work
<1>16. ASSUME NEW w \in Workers, GraphThrows(w) PROVE Dispatched'
  <2>1. \A v \in Workers : loc'[v].row = loc[v].row /\ (pc'[v] # "idle" => pc[v] # "idle")
    BY <1>0, <1>16 DEF GraphThrows, Goto, Aim, Local
  <2>2. \A r \in Rows : rowStatus'[r] = "absent" => rowStatus[r] = "absent"
    BY <1>0, <1>16 DEF GraphThrows, SetRow, Local
  <2>3. cmd' = cmd /\ jobs' = jobs
    BY <1>16 DEF GraphThrows
  <2>. QED
    BY <1>1, <2>1, <2>2, <2>3 DEF OnHand
<1>17. ASSUME NEW w \in Workers, GraphParks(w) PROVE Dispatched'
  BY <1>0, <1>17, OthersUntouched DEF GraphParks, Goto, NonTerminal, history,
       nonTerminalStatuses, Dispatched, Issuing, OnHand, Work
<1>18. ASSUME NEW w \in Workers, GraphCompletes(w) PROVE Dispatched'
  <2>1. \A v \in Workers : loc'[v].row = loc[v].row /\ (pc'[v] # "idle" => pc[v] # "idle")
    BY <1>0, <1>18 DEF GraphCompletes, Goto, Aim, Local
  <2>2. \A r \in Rows : rowStatus'[r] = "absent" => rowStatus[r] = "absent"
    BY <1>0, <1>18 DEF GraphCompletes, SetRow, Local
  <2>3. cmd' = cmd /\ jobs' = jobs
    BY <1>18 DEF GraphCompletes
  <2>. QED
    BY <1>1, <2>1, <2>2, <2>3 DEF OnHand
<1>19. ASSUME NEW w \in Workers, CloseSpawnedRow(w) PROVE Dispatched'
  <2>1. \A v \in Workers : loc'[v].row = loc[v].row /\ (pc'[v] # "idle" => pc[v] # "idle")
    BY <1>0, <1>19 DEF CloseSpawnedRow, Goto, Local
  <2>2. \A r \in Rows : rowStatus'[r] = "absent" => rowStatus[r] = "absent"
    BY <1>0, <1>19 DEF CloseSpawnedRow, SetRow, Local
  <2>3. cmd' = cmd /\ jobs' = jobs
    BY <1>19 DEF CloseSpawnedRow
  <2>. QED
    BY <1>1, <2>1, <2>2, <2>3 DEF OnHand
<1>20. ASSUME NEW w \in Workers, FinalizeReads(w) PROVE Dispatched'
  BY <1>0, <1>20, OthersUntouched DEF FinalizeReads, Goto, history, Dispatched, Issuing,
       OnHand, Work
<1>21. ASSUME NEW w \in Workers, FinalizeWrites(w) PROVE Dispatched'
  BY <1>0, <1>21, OthersUntouched DEF FinalizeWrites, Goto, NonTerminal, history,
       nonTerminalStatuses, Dispatched, Issuing, OnHand, Work
<1>22. ASSUME NEW w \in Workers, Announce(w) PROVE Dispatched'
  BY <1>0, <1>22, OthersUntouched DEF Announce, Goto, history, Dispatched, Issuing,
       OnHand, Work
<1>23. ASSUME NEW w \in Workers, Ack(w) PROVE Dispatched'
  BY <1>0, <1>23, OthersUntouched DEF Ack, Goto, Blank, history, Dispatched, Issuing,
       OnHand, Work
<1>24. CASE StopRunning
  BY <1>0, <1>24 DEF StopRunning, Spend, history, Dispatched, Issuing, OnHand
<1>25. CASE StopParked
  BY <1>0, <1>25 DEF StopParked, Spend, history, Dispatched, Issuing, OnHand
<1>26. ASSUME NEW w \in Workers, CrashWorker(w) PROVE Dispatched'
  BY <1>26, Disturbs DEF CrashWorker
<1>27. ASSUME NEW c \in Commands, CrashGateway(c) PROVE Dispatched'
  BY <1>27, Disturbs DEF CrashGateway
<1>28. CASE UNCHANGED vars
  BY <1>0, <1>28 DEF vars, history, Dispatched, Issuing, OnHand
<1>29. ASSUME NEW w \in Workers, TurnThrows(w) PROVE Dispatched'
  <2>1. \A v \in Workers : loc'[v].row = loc[v].row /\ (pc'[v] # "idle" => pc[v] # "idle")
    BY <1>0, <1>29 DEF TurnThrows, Goto, Aim, Local
  <2>2. \A r \in Rows : rowStatus'[r] = "absent" => rowStatus[r] = "absent"
    BY <1>0, <1>29 DEF TurnThrows, SetRow, Local
  <2>3. cmd' = cmd /\ jobs' = jobs
    BY <1>29 DEF TurnThrows
  <2>. QED
    BY <1>1, <2>1, <2>2, <2>3 DEF OnHand
<1>. QED
  BY <1>2, <1>3, <1>4, <1>5, <1>6, <1>7, <1>8, <1>9, <1>10, <1>11, <1>12, <1>13, <1>14,
     <1>15, <1>16, <1>17, <1>18, <1>19, <1>20, <1>21, <1>22, <1>23, <1>24, <1>25, <1>26,
     <1>27, <1>28, <1>29
  DEF Next, Gateway, Work, Environment


\* The row: a worker that leaves it has ended it.
LEMMA StepRowsHeld ==
  ASSUME Typed, OneToken, Spent, Dispatched, RowsHeld, [Next]_vars, Undisturbed'
  PROVE  RowsHeld'
<1>0. /\ exec \in Status /\ rowStatus \in [Rows -> NodeStatus]
      /\ token \in [Rows -> {"none", "output", "input"}]
      /\ jobs \in [Rows -> {"none", "queued", "active"}]
      /\ cmd \in [Commands -> Command] /\ pc \in [Workers -> Label]
      /\ loc \in [Workers -> Local]
  BY DEF Typed, TypeOK
<1>1. ASSUME \A r \in Rows : rowStatus'[r] = "running" =>
               rowStatus[r] = "running" /\ (RowHeld(r) => RowHeld(r)')
      PROVE  RowsHeld'
  BY <1>1 DEF RowsHeld
<1>2. ASSUME NEW c \in Commands, NEW r \in Rows, CommandReads(c, r) PROVE RowsHeld'
  BY <1>0, <1>1, <1>2 DEF CommandReads, history, RowHeld, Issuing, Serving
<1>3. ASSUME NEW c \in Commands, Consume(c) PROVE RowsHeld'
  <2>1. CASE token[cmd[c].row] = "output"
    <3>1. PICK s \in Rows : Spawns(c, s)
      BY <1>3, <2>1, ConsumeCases
    <3>2. /\ cmd[c].row \in Rows /\ cmd[c].row # s
          /\ cmd'[c].at = "publish" /\ cmd'[c].row = s
          /\ \A d \in Commands : d # c => cmd'[d] = cmd[d]
      <4>1. cmd[c].row \in Rows
        BY <3>1 DEF Spawns, Typed, Placed
      <4>2. cmd[c].row # s
        BY <2>1, <3>1, <4>1 DEF Spawns, OneToken, TokenHeld
      <4>. QED
        BY <1>0, <3>1, <4>1, <4>2 DEF Spawns
    <3>3. /\ token'[s] = "input"
          /\ \A q \in Rows : token[q] = "input" => token'[q] = "input"
      BY <1>0, <2>1, <3>1, <3>2 DEF Spawns
    <3>4. RowHeld(s)'
      BY <3>2, <3>3 DEF RowHeld, Issuing
    <3>5. ASSUME NEW q \in Rows, RowHeld(q) PROVE RowHeld(q)'
      <4>1. \A d \in Commands : Issuing(d, q) => Issuing(d, q)'
        BY <3>1, <3>2 DEF Spawns, Issuing
      <4>. QED
        BY <3>1, <3>3, <3>5, <4>1 DEF Spawns, RowHeld
    <3>6. \A q \in Rows : q # s => rowStatus'[q] = rowStatus[q]
      BY <1>0, <3>1 DEF Spawns
    <3>. QED
      BY <3>4, <3>5, <3>6 DEF RowsHeld
  <2>2. CASE token[cmd[c].row] # "output"
    <3>1. \A d \in Commands, q \in Rows : Issuing(d, q) => Issuing(d, q)'
      BY <1>0, <1>3, <2>2, ConsumeRefused DEF Consume, Issuing
    <3>. QED
      BY <1>1, <1>3, <2>2, <3>1, ConsumeRefused DEF RowHeld
  <2>. QED
    BY <2>1, <2>2
<1>4. ASSUME NEW c \in Commands, Publish(c) PROVE RowsHeld'
  BY <1>0, <1>1, <1>4 DEF Publish, NoCommand, history, RowHeld, Issuing, Serving
<1>5. ASSUME NEW c \in Commands, PublishFails(c) PROVE RowsHeld'
  BY <1>0, <1>1, <1>5 DEF PublishFails, Spend, history, RowHeld, Issuing, Serving
<1>6. ASSUME NEW c \in Commands, Compensate(c) PROVE RowsHeld'
  BY <1>0, <1>1, <1>6 DEF Compensate, SetRow, NoCommand, history, RowHeld, Issuing,
       Serving
<1>7. ASSUME NEW w \in Workers, NEW r \in Rows, PickRetry(w, r) PROVE RowsHeld'
  BY <1>0, <1>1, <1>7, OthersUntouched DEF PickRetry, Goto, Blank, history, RowHeld,
       Issuing, Serving, Work
<1>8. ASSUME NEW w \in Workers, Claim(w) PROVE RowsHeld'
  BY <1>0, <1>1, <1>8, OthersUntouched DEF Claim, Goto, SetToken, history, RowHeld,
       Issuing, Serving, Work
<1>9. ASSUME NEW w \in Workers, LoadExecution(w) PROVE RowsHeld'
  BY <1>0, <1>1, <1>9, OthersUntouched DEF LoadExecution, Goto, history, RowHeld,
       Issuing, Serving, Work
<1>10. ASSUME NEW w \in Workers, Reject(w) PROVE RowsHeld'
  BY <1>0, <1>1, <1>10, OthersUntouched DEF Reject, Goto, SetRow, history, RowHeld,
       Issuing, Serving, Work
<1>11. ASSUME NEW w \in Workers, SetUp(w) PROVE RowsHeld'
  BY <1>0, <1>1, <1>11, OthersUntouched DEF SetUp, Goto, history, RowHeld, Issuing,
       Serving, Work
<1>12. ASSUME NEW w \in Workers, SetUpThrows(w) PROVE RowsHeld'
  BY <1>12, Disturbs DEF SetUpThrows
<1>13. ASSUME NEW w \in Workers, PlayTurn(w) PROVE RowsHeld'
  BY <1>0, <1>1, <1>13, OthersUntouched DEF PlayTurn, Goto, RowHeld, Issuing, Serving,
       Work
<1>14. ASSUME NEW w \in Workers, EndTurn(w) PROVE RowsHeld'
  BY <1>0, <1>1, <1>14, OthersUntouched DEF EndTurn, Goto, Reenterable, TurnResult,
       history, SetRow, SetToken, Aim, nonTerminalStatuses, RowHeld, Issuing, Serving,
       Work
<1>15. ASSUME NEW w \in Workers, MarkNodeCancelled(w) PROVE RowsHeld'
  BY <1>0, <1>1, <1>15, OthersUntouched DEF MarkNodeCancelled, Goto, SetRow, Aim,
       history, RowHeld, Issuing, Serving, Work
<1>16. ASSUME NEW w \in Workers, GraphThrows(w) PROVE RowsHeld'
  BY <1>0, <1>1, <1>16, OthersUntouched DEF GraphThrows, Goto, Aim, history, RowHeld,
       Issuing, Serving, Work
<1>17. ASSUME NEW w \in Workers, GraphParks(w) PROVE RowsHeld'
  BY <1>0, <1>1, <1>17, OthersUntouched DEF GraphParks, Goto, NonTerminal, history,
       nonTerminalStatuses, RowHeld, Issuing, Serving, Work
<1>18. ASSUME NEW w \in Workers, GraphCompletes(w) PROVE RowsHeld'
  BY <1>0, <1>1, <1>18, OthersUntouched DEF GraphCompletes, Goto, Aim, NonTerminal,
       history, nonTerminalStatuses, RowHeld, Issuing, Serving, Work
<1>19. ASSUME NEW w \in Workers, CloseSpawnedRow(w) PROVE RowsHeld'
  <2>1. pc[w] = "close" /\ loc[w].row \in Rows /\ loc[w].goal # "running"
    BY <1>0, <1>19 DEF CloseSpawnedRow, Local, Typed, Placed
  <2>2. rowStatus'[loc[w].row] # "running"
    BY <1>0, <1>19, <2>1 DEF CloseSpawnedRow, SetRow, NodeStatus
  <2>. QED
    BY <1>0, <1>1, <1>19, <2>1, <2>2, OthersUntouched DEF CloseSpawnedRow, Goto, SetRow,
       history, RowHeld, RowsHeld, Issuing, Serving, Work
<1>20. ASSUME NEW w \in Workers, FinalizeReads(w) PROVE RowsHeld'
  BY <1>0, <1>1, <1>20, OthersUntouched DEF FinalizeReads, Goto, history, RowHeld,
       Issuing, Serving, Work
<1>21. ASSUME NEW w \in Workers, FinalizeWrites(w) PROVE RowsHeld'
  BY <1>0, <1>1, <1>21, OthersUntouched DEF FinalizeWrites, Goto, NonTerminal, history,
       nonTerminalStatuses, RowHeld, Issuing, Serving, Work
<1>22. ASSUME NEW w \in Workers, Announce(w) PROVE RowsHeld'
  BY <1>0, <1>1, <1>22, OthersUntouched DEF Announce, Goto, history, RowHeld, Issuing,
       Serving, Work
<1>23. ASSUME NEW w \in Workers, Ack(w) PROVE RowsHeld'
  <2>1. /\ pc[w] = "ack" /\ loc[w].row \in Rows /\ OnHand(w, loc[w].row)
        /\ rowStatus' = rowStatus /\ token' = token /\ cmd' = cmd
    BY <1>23 DEF Ack, OnHand, Typed, Placed
  <2>2. \A r \in Rows : jobs[r] = "queued" => jobs'[r] = "queued"
    <3>1. jobs[loc[w].row] = "active"
      BY <2>1 DEF Dispatched
    <3>. QED
      BY <1>0, <3>1, <1>23 DEF Ack
  <2>3. \A v \in Workers : v # w => pc'[v] = pc[v] /\ loc'[v] = loc[v]
    BY <1>23, OthersUntouched DEF Work
  <2>4. \A r \in Rows : RowHeld(r) => RowHeld(r)'
    BY <2>1, <2>2, <2>3 DEF RowHeld, Issuing, Serving
  <2>. QED
    BY <1>1, <2>1, <2>4
<1>24. CASE StopRunning
  BY <1>0, <1>1, <1>24 DEF StopRunning, Spend, history, RowHeld, Issuing, Serving
<1>25. CASE StopParked
  BY <1>0, <1>1, <1>25 DEF StopParked, Spend, history, RowHeld, Issuing, Serving
<1>26. ASSUME NEW w \in Workers, CrashWorker(w) PROVE RowsHeld'
  BY <1>26, Disturbs DEF CrashWorker
<1>27. ASSUME NEW c \in Commands, CrashGateway(c) PROVE RowsHeld'
  BY <1>27, Disturbs DEF CrashGateway
<1>28. CASE UNCHANGED vars
  BY <1>0, <1>1, <1>28 DEF vars, history, RowHeld, Issuing, Serving
<1>29. ASSUME NEW w \in Workers, TurnThrows(w) PROVE RowsHeld'
  BY <1>0, <1>1, <1>29, OthersUntouched DEF TurnThrows, Goto, Aim, history, RowHeld,
       Issuing, Serving, Work
<1>. QED
  BY <1>2, <1>3, <1>4, <1>5, <1>6, <1>7, <1>8, <1>9, <1>10, <1>11, <1>12, <1>13, <1>14,
     <1>15, <1>16, <1>17, <1>18, <1>19, <1>20, <1>21, <1>22, <1>23, <1>24, <1>25, <1>26,
     <1>27, <1>28, <1>29
  DEF Next, Gateway, Work, Environment

LEMMA StepCloses ==
  ASSUME Typed, OneToken, Spent, Aimed, Closes, [Next]_vars PROVE Closes'
<1>. QED
  BY StepSpent, StepRunHeld, StepDispatched, StepRowsHeld DEF Closes

\* Nothing crashed and no set-up threw: when nothing is left to run, whatever was spawned
\* is closed and the execution parked or ended, although publications failed, turns and
\* drives of the graph threw and the user stopped: compensateSpawnedRow and the end of
\* applyRetryLastTurn between them leave nothing behind.
THEOREM ReentryCloses == Spec => []ClosedWhenQuiet
<1>1. Init => Typed /\ OneToken /\ Spent /\ Aimed /\ Closes
  BY InitTyped, InitSpent, InitAimed, InitCloses
<1>2. Typed /\ OneToken /\ Spent /\ Aimed /\ Closes /\ [Next]_vars =>
        (Typed /\ OneToken /\ Spent /\ Aimed /\ Closes)'
  BY StepTyped, StepOneToken, StepSpent, StepAimed, StepCloses
<1>3. Closes => ClosedWhenQuiet
  <2> SUFFICES ASSUME Closes, Undisturbed, Quiet
               PROVE  exec # "running" /\ \A r \in Rows : rowStatus[r] # "running"
    BY DEF ClosedWhenQuiet
  <2>1. \A w \in Workers : ~Runner(w)
    BY DEF Quiet, Runner
  <2>2. \A r \in Rows : ~RowHeld(r)
    BY DEF Quiet, RowHeld, Issuing, Serving
  <2>. QED
    BY <2>1, <2>2 DEF Closes, RunHeld, RowsHeld
<1>. QED
  BY <1>1, <1>2, <1>3, PTL DEF Spec
===============================================================================
