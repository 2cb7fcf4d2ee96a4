---------------------------- MODULE RetryTurn_proof ----------------------------
(***************************************************************************)
(* Safety of RetryTurn, for any number of workers, commands and rows, and  *)
(* for any number of crashes, failed publications and stops.               *)
(***************************************************************************)
EXTENDS RetryTurn, TLAPS

\* A worker with a job, and a command under way, hold a row.
Placed ==
  /\ \A w \in Workers : pc[w] # "idle" => loc[w].row \in Rows
  /\ \A c \in Commands : cmd[c].at # "idle" => cmd[c].row \in Rows

Typed == TypeOK /\ Placed

\* A worker at one of these labels took the token of its row and has not ended the turn.
Serving == {"load", "reject", "setup", "turn", "turnEnd"}
Serves(w, r) == pc[w] \in Serving /\ loc[w].row = r

Unspawned(r) == \A q \in Rows : origin[q] # r

\* A row that holds a token is served by nobody and no row was spawned for it; with
\* the token in its input its turn was not played.
TokenHeld ==
  \A r \in Rows :
    /\ token[r] # "none" =>
         rowStatus[r] # "absent" /\ Unspawned(r) /\ \A w \in Workers : ~Serves(w, r)
    /\ token[r] = "input" => turns[r] = 0

\* A row is served by one worker, before its turn is played and before it can be retried.
ServedByOne ==
  \A w \in Workers, r \in Rows : Serves(w, r) =>
    /\ rowStatus[r] # "absent" /\ Unspawned(r)
    /\ pc[w] # "turnEnd" => turns[r] = 0
    /\ \A v \in Workers : Serves(v, r) => v = w

AbsentUntouched ==
  \A r \in Rows : rowStatus[r] = "absent" => turns[r] = 0 /\ Unspawned(r)

OneToken == TokenHeld /\ ServedByOne /\ AbsentUntouched /\ TurnOnce /\ RetryOnce

USE DEF Rows
-------------------------------------------------------------------------------
LEMMA InitTyped == Init => Typed /\ OneToken
<1> SUFFICES ASSUME Init PROVE Typed /\ OneToken
  OBVIOUS
<1> USE RowsAssumption, BudgetAssumption
<1>1. PICK F \in SUBSET FirstRows :
        /\ rowStatus = [r \in Rows |-> IF r \in F THEN "failed" ELSE "absent"]
        /\ token = [r \in Rows |-> IF r \in F THEN "output" ELSE "none"]
  BY DEF Init
<1>2. TypeOK
  <2>1. cmd \in [Commands -> Command]
    BY DEF Init, Command, NoCommand
  <2>2. loc \in [Workers -> Local]
    BY DEF Init, Local, Blank, Status
  <2>3. rowStatus \in [Rows -> NodeStatus] /\ token \in [Rows -> {"none", "output", "input"}]
    BY <1>1 DEF NodeStatus
  <2>. QED
    BY <2>1, <2>2, <2>3 DEF Init, TypeOK, Status, Label
<1>3. Placed
  BY DEF Init, Placed, NoCommand
<1>4. TokenHeld /\ ServedByOne /\ AbsentUntouched
  BY <1>1 DEF Init, TokenHeld, ServedByOne, AbsentUntouched, Unspawned, Serves, Serving
<1>5. TurnOnce /\ RetryOnce
  BY DEF Init, TurnOnce, RetryOnce
<1>. QED
  BY <1>2, <1>3, <1>4, <1>5 DEF Typed, OneToken

\* The ways the actions update what a worker remembers, and the others' functions.
LEMMA Updates ==
  ASSUME TypeOK, NEW w \in Workers
  PROVE  /\ \A l \in Label : Goto(w, l) => pc' \in [Workers -> Label]
         /\ \A g \in {"failed", "cancelled", "completed"} :
              Aim(w, g) => loc' \in [Workers -> Local] /\ \A v \in Workers : loc'[v].row = loc[v].row
         /\ \A s \in Status : [loc EXCEPT ![w].live = s] \in [Workers -> Local]
         /\ \A x \in Local : [loc EXCEPT ![w] = x] \in [Workers -> Local]
         /\ Blank \in Local
         /\ \A r \in Rows : [Blank EXCEPT !.row = r] \in Local
<1>1. Blank \in Local /\ \A r \in Rows : [Blank EXCEPT !.row = r] \in Local
  BY DEF Blank, Local, Status
<1>2. loc \in [Workers -> Local] /\ pc \in [Workers -> Label]
  BY DEF TypeOK
<1>3. \A s \in Status : [loc EXCEPT ![w].live = s] \in [Workers -> Local]
  BY <1>2 DEF Local
<1>4. \A g \in {"failed", "cancelled", "completed"} :
        Aim(w, g) => loc' \in [Workers -> Local] /\ \A v \in Workers : loc'[v].row = loc[v].row
  BY <1>2 DEF Local, Aim
<1>5. \A x \in Local : [loc EXCEPT ![w] = x] \in [Workers -> Local]
  BY <1>2
<1>6. \A l \in Label : Goto(w, l) => pc' \in [Workers -> Label]
  BY <1>2 DEF Goto
<1>. QED
  BY <1>1, <1>3, <1>4, <1>5, <1>6

LEMMA Spending ==
  ASSUME TypeOK, NEW e \in EnvEvents, Spend(e)
  PROVE  budget' \in [EnvEvents -> Nat]
<1>1. budget[e] - 1 \in Nat
  BY DEF Spend, TypeOK
<1>. QED
  BY <1>1 DEF Spend, TypeOK

\* What a command does that finds its token.
Spawns(c, s) ==
  /\ cmd[c].at = "consume" /\ token[cmd[c].row] = "output"
  /\ rowStatus[s] = "absent"
  /\ rowStatus' = [rowStatus EXCEPT ![s] = "running"]
  /\ token' = [token EXCEPT ![cmd[c].row] = "none", ![s] = "input"]
  /\ origin' = [origin EXCEPT ![s] = cmd[c].row]
  /\ cmd' = [cmd EXCEPT ![c] = [at |-> "publish", row |-> s]]
  /\ UNCHANGED <<exec, turns, jobs, pc, loc, announced, budget>>

LEMMA ConsumeCases ==
  ASSUME NEW c \in Commands, Consume(c), token[cmd[c].row] = "output"
  PROVE  \E s \in Rows : Spawns(c, s)
<1>. QED
  BY DEF Consume, Spawns, SetRow

LEMMA ConsumeRefused ==
  ASSUME NEW c \in Commands, Consume(c), token[cmd[c].row] # "output"
  PROVE  /\ cmd' = [cmd EXCEPT ![c] = NoCommand]
         /\ UNCHANGED <<exec, rowStatus, token, origin, turns, jobs, pc, loc, announced, budget>>
<1>. QED
  BY DEF Consume, SetRow

\* Every action keeps the state typed, and what a worker or a command holds a row.
LEMMA StepTyped == Typed /\ [Next]_vars => Typed'
<1> SUFFICES ASSUME Typed, [Next]_vars PROVE Typed'
  OBVIOUS
<1> USE RowsAssumption, BudgetAssumption DEF Typed
<1>1. ASSUME NEW c \in Commands, NEW r \in Rows, CommandReads(c, r) PROVE Typed'
  <2>1. cmd' \in [Commands -> Command]
    BY <1>1 DEF CommandReads, TypeOK, Placed, Command, NoCommand
  <2>2. TypeOK'
    BY <1>1, <2>1 DEF CommandReads, history, TypeOK, Placed
  <2>3. Placed'
    BY <1>1 DEF CommandReads, Placed, TypeOK, NoCommand, Spend
  <2>. QED
    BY <2>2, <2>3 DEF Typed
<1>2. ASSUME NEW c \in Commands, Consume(c) PROVE Typed'
  <2>1. CASE token[cmd[c].row] = "output"
    <3>1. PICK s \in Rows : Spawns(c, s)
      BY <1>2, <2>1, ConsumeCases
    <3>2. cmd' \in [Commands -> Command]
      <4>1. [at |-> "publish", row |-> s] \in Command
        BY DEF Command
      <4>. QED
        BY <3>1, <4>1 DEF Spawns, TypeOK
    <3>3. TypeOK'
      <4>1. cmd[c].row \in Rows
        BY <3>1 DEF Spawns, Placed
      <4>2. rowStatus' \in [Rows -> NodeStatus]
        BY <3>1 DEF Spawns, TypeOK, NodeStatus
      <4>3. token' \in [Rows -> {"none", "output", "input"}]
        <5>1. [token EXCEPT ![cmd[c].row] = "none"] \in [Rows -> {"none", "output", "input"}]
          BY <4>1 DEF TypeOK
        <5>. QED
          BY <3>1, <5>1 DEF Spawns
      <4>4. origin' \in [Rows -> Rows \cup {0}]
        BY <3>1, <4>1 DEF Spawns, TypeOK
      <4>. QED
        BY <3>1, <3>2, <4>2, <4>3, <4>4 DEF Spawns, TypeOK
    <3>4. Placed'
      <4>1. \A d \in Commands : cmd'[d] = IF d = c THEN [at |-> "publish", row |-> s] ELSE cmd[d]
        BY <3>1 DEF Spawns, TypeOK
      <4>. QED
        BY <3>1, <4>1 DEF Spawns, Placed
    <3>. QED
      BY <3>3, <3>4 DEF Typed
  <2>2. CASE token[cmd[c].row] # "output"
    <3>1. /\ cmd' = [cmd EXCEPT ![c] = NoCommand]
          /\ UNCHANGED <<exec, rowStatus, token, origin, turns, jobs, pc, loc, announced, budget>>
      BY <1>2, <2>2, ConsumeRefused
    <3>2. cmd' \in [Commands -> Command]
      BY <3>1 DEF TypeOK, Command, NoCommand
    <3>3. TypeOK'
      BY <3>1, <3>2 DEF TypeOK
    <3>4. Placed'
      BY <3>1 DEF Placed, TypeOK, NoCommand
    <3>. QED
      BY <3>3, <3>4 DEF Typed
  <2>. QED
    BY <2>1, <2>2
<1>3. ASSUME NEW c \in Commands, Publish(c) PROVE Typed'
  <2>1. cmd' \in [Commands -> Command]
    BY <1>3 DEF Publish, TypeOK, Placed, Command, NoCommand
  <2>2. TypeOK'
    BY <1>3, <2>1 DEF Publish, history, TypeOK, Placed
  <2>3. Placed'
    BY <1>3 DEF Publish, Placed, TypeOK, NoCommand, Spend
  <2>. QED
    BY <2>2, <2>3 DEF Typed
<1>4. ASSUME NEW c \in Commands, PublishFails(c) PROVE Typed'
  <2>1. budget' \in [EnvEvents -> Nat]
    BY <1>4, Spending DEF PublishFails, EnvEvents
  <2>2. cmd' \in [Commands -> Command]
    BY <1>4 DEF PublishFails, TypeOK, Placed, Command, NoCommand
  <2>3. TypeOK'
    BY <1>4, <2>1, <2>2 DEF PublishFails, history, TypeOK, Placed
  <2>4. Placed'
    BY <1>4 DEF PublishFails, Placed, TypeOK, NoCommand, Spend
  <2>. QED
    BY <2>3, <2>4 DEF Typed
<1>5. ASSUME NEW c \in Commands, Compensate(c) PROVE Typed'
  <2>1. cmd' \in [Commands -> Command]
    BY <1>5 DEF Compensate, TypeOK, Placed, Command, NoCommand
  <2>2. TypeOK'
    BY <1>5, <2>1 DEF Compensate, history, TypeOK, Placed, SetRow, NodeStatus
  <2>3. Placed'
    BY <1>5 DEF Compensate, Placed, TypeOK, NoCommand, Spend
  <2>. QED
    BY <2>2, <2>3 DEF Typed
<1>6. ASSUME NEW w \in Workers, NEW r \in Rows, PickRetry(w, r) PROVE Typed'
  <2>1. loc' \in [Workers -> Local] /\ pc' \in [Workers -> Label]
    BY <1>6, Updates DEF PickRetry, TypeOK, Label
  <2>2. TypeOK'
    BY <1>6, <2>1 DEF PickRetry, history, TypeOK, Placed
  <2>3. Placed'
    BY <1>6, Updates DEF PickRetry, Placed, TypeOK, Goto, Blank, Spend
  <2>. QED
    BY <2>2, <2>3 DEF Typed
<1>7. ASSUME NEW w \in Workers, Claim(w) PROVE Typed'
  <2>1. loc' \in [Workers -> Local] /\ pc' \in [Workers -> Label]
    BY <1>7, Updates DEF Claim, TypeOK, Label
  <2>2. TypeOK'
    BY <1>7, <2>1 DEF Claim, history, TypeOK, Placed, SetToken
  <2>3. Placed'
    BY <1>7, Updates DEF Claim, Placed, TypeOK, Goto, Blank, Spend
  <2>. QED
    BY <2>2, <2>3 DEF Typed
<1>8. ASSUME NEW w \in Workers, LoadExecution(w) PROVE Typed'
  <2>1. loc' \in [Workers -> Local] /\ pc' \in [Workers -> Label]
    BY <1>8, Updates DEF LoadExecution, TypeOK, Label
  <2>2. TypeOK'
    BY <1>8, <2>1 DEF LoadExecution, history, TypeOK, Placed
  <2>3. Placed'
    BY <1>8, Updates DEF LoadExecution, Placed, TypeOK, Goto, Blank, Spend
  <2>. QED
    BY <2>2, <2>3 DEF Typed
<1>9. ASSUME NEW w \in Workers, Reject(w) PROVE Typed'
  <2>1. loc' \in [Workers -> Local] /\ pc' \in [Workers -> Label]
    BY <1>9, Updates DEF Reject, TypeOK, Label
  <2>2. TypeOK'
    BY <1>9, <2>1 DEF Reject, history, TypeOK, Placed, SetRow, NodeStatus
  <2>3. Placed'
    BY <1>9, Updates DEF Reject, Placed, TypeOK, Goto, Blank, Spend
  <2>. QED
    BY <2>2, <2>3 DEF Typed
<1>10. ASSUME NEW w \in Workers, SetUp(w) PROVE Typed'
  <2>1. loc' \in [Workers -> Local] /\ pc' \in [Workers -> Label]
    BY <1>10, Updates DEF SetUp, TypeOK, Label
  <2>2. TypeOK'
    BY <1>10, <2>1 DEF SetUp, history, TypeOK, Placed
  <2>3. Placed'
    BY <1>10, Updates DEF SetUp, Placed, TypeOK, Goto, Blank, Spend
  <2>. QED
    BY <2>2, <2>3 DEF Typed
<1>11. ASSUME NEW w \in Workers, SetUpThrows(w) PROVE Typed'
  <2>1. budget' \in [EnvEvents -> Nat]
    BY <1>11, Spending DEF SetUpThrows, EnvEvents
  <2>2. loc' \in [Workers -> Local] /\ pc' \in [Workers -> Label]
    BY <1>11, Updates DEF SetUpThrows, TypeOK, Label
  <2>3. TypeOK'
    BY <1>11, <2>1, <2>2 DEF SetUpThrows, history, TypeOK, Placed
  <2>4. Placed'
    BY <1>11, Updates DEF SetUpThrows, Placed, TypeOK, Goto, Blank, Spend
  <2>. QED
    BY <2>3, <2>4 DEF Typed
<1>12. ASSUME NEW w \in Workers, PlayTurn(w) PROVE Typed'
  <2>1. loc' \in [Workers -> Local] /\ pc' \in [Workers -> Label]
    BY <1>12, Updates DEF PlayTurn, TypeOK, Label
  <2>2. TypeOK'
    <3>1. loc[w].row \in Rows /\ turns \in [Rows -> Nat]
      BY <1>12 DEF PlayTurn, TypeOK, Placed
    <3>2. [turns EXCEPT ![loc[w].row] = @ + 1] \in [Rows -> Nat]
      BY <3>1
    <3>3. turns' \in [Rows -> Nat]
      BY <1>12, <3>1, <3>2 DEF PlayTurn, Goto
    <3>. QED
      BY <1>12, <2>1, <3>3 DEF PlayTurn, TypeOK
  <2>3. Placed'
    BY <1>12, Updates DEF PlayTurn, Placed, TypeOK, Goto, Blank, Spend
  <2>. QED
    BY <2>2, <2>3 DEF Typed
<1>13. ASSUME NEW w \in Workers, EndTurn(w) PROVE Typed'
  <2>1. loc' \in [Workers -> Local] /\ pc' \in [Workers -> Label]
    BY <1>13, Updates DEF EndTurn, TypeOK, Label, TurnResult
  <2>2. TypeOK'
    BY <1>13, <2>1 DEF EndTurn, history, TypeOK, Placed, TurnResult, SetRow, SetToken, NodeStatus, Status
  <2>3. Placed'
    BY <1>13, Updates DEF EndTurn, Placed, TypeOK, Goto, Blank, Spend, TurnResult
  <2>. QED
    BY <2>2, <2>3 DEF Typed
<1>14. ASSUME NEW w \in Workers, MarkNodeCancelled(w) PROVE Typed'
  <2>1. loc' \in [Workers -> Local] /\ pc' \in [Workers -> Label]
    BY <1>14, Updates DEF MarkNodeCancelled, TypeOK, Label
  <2>2. TypeOK'
    BY <1>14, <2>1 DEF MarkNodeCancelled, history, TypeOK, Placed, SetRow, NodeStatus
  <2>3. Placed'
    BY <1>14, Updates DEF MarkNodeCancelled, Placed, TypeOK, Goto, Blank, Spend
  <2>. QED
    BY <2>2, <2>3 DEF Typed
<1>15. ASSUME NEW w \in Workers, GraphThrows(w) PROVE Typed'
  <2>1. loc' \in [Workers -> Local] /\ pc' \in [Workers -> Label]
    BY <1>15, Updates DEF GraphThrows, TypeOK, Label
  <2>2. TypeOK'
    BY <1>15, <2>1 DEF GraphThrows, history, TypeOK, Placed
  <2>3. Placed'
    BY <1>15, Updates DEF GraphThrows, Placed, TypeOK, Goto, Blank, Spend
  <2>. QED
    BY <2>2, <2>3 DEF Typed
<1>16. ASSUME NEW w \in Workers, GraphParks(w) PROVE Typed'
  <2>1. loc' \in [Workers -> Local] /\ pc' \in [Workers -> Label]
    BY <1>16, Updates DEF GraphParks, TypeOK, Label
  <2>2. TypeOK'
    BY <1>16, <2>1 DEF GraphParks, history, TypeOK, Placed, Status
  <2>3. Placed'
    BY <1>16, Updates DEF GraphParks, Placed, TypeOK, Goto, Blank, Spend
  <2>. QED
    BY <2>2, <2>3 DEF Typed
<1>17. ASSUME NEW w \in Workers, GraphCompletes(w) PROVE Typed'
  <2>1. loc' \in [Workers -> Local] /\ pc' \in [Workers -> Label]
    BY <1>17, Updates DEF GraphCompletes, TypeOK, Label
  <2>2. TypeOK'
    BY <1>17, <2>1 DEF GraphCompletes, history, TypeOK, Placed, Status
  <2>3. Placed'
    BY <1>17, Updates DEF GraphCompletes, Placed, TypeOK, Goto, Blank, Spend
  <2>. QED
    BY <2>2, <2>3 DEF Typed
<1>18. ASSUME NEW w \in Workers, CloseSpawnedRow(w) PROVE Typed'
  <2>1. loc' \in [Workers -> Local] /\ pc' \in [Workers -> Label]
    BY <1>18, Updates DEF CloseSpawnedRow, TypeOK, Label
  <2>2. TypeOK'
    <3>1. loc[w].row \in Rows /\ loc[w].goal \in NodeStatus
      BY <1>18 DEF CloseSpawnedRow, Placed, TypeOK, Local, NodeStatus
    <3>2. \/ rowStatus' = [rowStatus EXCEPT ![loc[w].row] = loc[w].goal]
          \/ rowStatus' = rowStatus
      BY <1>18 DEF CloseSpawnedRow, SetRow
    <3>3. rowStatus \in [Rows -> NodeStatus]
      BY DEF Typed, TypeOK
    <3>4. rowStatus' \in [Rows -> NodeStatus]
      BY <3>1, <3>2, <3>3
    <3>. QED
      BY <1>18, <2>1, <3>4 DEF CloseSpawnedRow, history, TypeOK
  <2>3. Placed'
    BY <1>18, Updates DEF CloseSpawnedRow, Placed, TypeOK, Goto, Blank, Spend
  <2>. QED
    BY <2>2, <2>3 DEF Typed
<1>19. ASSUME NEW w \in Workers, FinalizeReads(w) PROVE Typed'
  <2>1. loc' \in [Workers -> Local] /\ pc' \in [Workers -> Label]
    BY <1>19, Updates DEF FinalizeReads, TypeOK, Label
  <2>2. TypeOK'
    BY <1>19, <2>1 DEF FinalizeReads, history, TypeOK, Placed
  <2>3. Placed'
    BY <1>19, Updates DEF FinalizeReads, Placed, TypeOK, Goto, Blank, Spend
  <2>. QED
    BY <2>2, <2>3 DEF Typed
<1>20. ASSUME NEW w \in Workers, FinalizeWrites(w) PROVE Typed'
  <2>1. loc' \in [Workers -> Local] /\ pc' \in [Workers -> Label]
    BY <1>20, Updates DEF FinalizeWrites, TypeOK, Label
  <2>2. TypeOK'
    BY <1>20, <2>1 DEF FinalizeWrites, history, TypeOK, Placed, Status, Local
  <2>3. Placed'
    BY <1>20, Updates DEF FinalizeWrites, Placed, TypeOK, Goto, Blank, Spend
  <2>. QED
    BY <2>2, <2>3 DEF Typed
<1>21. ASSUME NEW w \in Workers, Announce(w) PROVE Typed'
  <2>1. loc' \in [Workers -> Local] /\ pc' \in [Workers -> Label]
    BY <1>21, Updates DEF Announce, TypeOK, Label, Terminal
  <2>2. TypeOK'
    BY <1>21, <2>1 DEF Announce, history, TypeOK, Placed, Terminal, Local
  <2>3. Placed'
    BY <1>21, Updates DEF Announce, Placed, TypeOK, Goto, Blank, Spend
  <2>. QED
    BY <2>2, <2>3 DEF Typed
<1>22. ASSUME NEW w \in Workers, Ack(w) PROVE Typed'
  <2>1. loc' \in [Workers -> Local] /\ pc' \in [Workers -> Label]
    BY <1>22, Updates DEF Ack, TypeOK, Label
  <2>2. TypeOK'
    BY <1>22, <2>1 DEF Ack, history, TypeOK, Placed
  <2>3. Placed'
    BY <1>22, Updates DEF Ack, Placed, TypeOK, Goto, Blank, Spend
  <2>. QED
    BY <2>2, <2>3 DEF Typed
<1>23. CASE StopRunning
  <2>1. budget' \in [EnvEvents -> Nat]
    BY <1>23, Spending DEF StopRunning, EnvEvents
  <2>2. TypeOK'
    BY <1>23, <2>1 DEF StopRunning, history, TypeOK, Placed, Status
  <2>3. Placed'
    BY <1>23 DEF StopRunning, Placed, TypeOK, NoCommand, Spend
  <2>. QED
    BY <2>2, <2>3 DEF Typed
<1>24. CASE StopParked
  <2>1. budget' \in [EnvEvents -> Nat]
    BY <1>24, Spending DEF StopParked, EnvEvents
  <2>2. TypeOK'
    BY <1>24, <2>1 DEF StopParked, history, TypeOK, Placed, Status, NodeStatus, Terminal
  <2>3. Placed'
    BY <1>24 DEF StopParked, Placed, TypeOK, NoCommand, Spend
  <2>. QED
    BY <2>2, <2>3 DEF Typed
<1>25. ASSUME NEW w \in Workers, CrashWorker(w) PROVE Typed'
  <2>1. budget' \in [EnvEvents -> Nat]
    BY <1>25, Spending DEF CrashWorker, EnvEvents
  <2>2. loc' \in [Workers -> Local] /\ pc' \in [Workers -> Label]
    BY <1>25, Updates DEF CrashWorker, TypeOK, Label
  <2>3. TypeOK'
    BY <1>25, <2>1, <2>2 DEF CrashWorker, history, TypeOK, Placed
  <2>4. Placed'
    BY <1>25, Updates DEF CrashWorker, Placed, TypeOK, Goto, Blank, Spend
  <2>. QED
    BY <2>3, <2>4 DEF Typed
<1>26. ASSUME NEW c \in Commands, CrashGateway(c) PROVE Typed'
  <2>1. budget' \in [EnvEvents -> Nat]
    BY <1>26, Spending DEF CrashGateway, EnvEvents
  <2>2. cmd' \in [Commands -> Command]
    BY <1>26 DEF CrashGateway, TypeOK, Placed, Command, NoCommand
  <2>3. TypeOK'
    BY <1>26, <2>1, <2>2 DEF CrashGateway, history, TypeOK, Placed
  <2>4. Placed'
    BY <1>26 DEF CrashGateway, Placed, TypeOK, NoCommand, Spend
  <2>. QED
    BY <2>3, <2>4 DEF Typed
<1>27. CASE UNCHANGED vars
  BY <1>27 DEF vars, history, Typed, TypeOK, Placed
<1>28. ASSUME NEW w \in Workers, TurnThrows(w) PROVE Typed'
  <2>1. loc' \in [Workers -> Local] /\ pc' \in [Workers -> Label]
    BY <1>28, Updates DEF TurnThrows, TypeOK, Label
  <2>2. TypeOK'
    BY <1>28, <2>1 DEF TurnThrows, history, TypeOK, Placed
  <2>3. Placed'
    BY <1>28, Updates DEF TurnThrows, Placed, TypeOK, Goto, Blank, Spend
  <2>. QED
    BY <2>2, <2>3 DEF Typed
<1>. QED
  BY <1>1, <1>2, <1>3, <1>4, <1>5, <1>6, <1>7, <1>8, <1>9, <1>10, <1>11, <1>12, <1>13,
     <1>14, <1>15, <1>16, <1>17, <1>18, <1>19, <1>20, <1>21, <1>22, <1>23, <1>24,
     <1>25, <1>26, <1>27, <1>28
  DEF Next, Gateway, Work, Environment
-------------------------------------------------------------------------------
\* An action that leaves tokens, origins and turns alone, inserts no row and brings no
\* worker to serve one, keeps the invariant.
Bystanding ==
  /\ UNCHANGED <<token, origin, turns>>
  /\ \A r \in Rows : rowStatus'[r] = "absent" => rowStatus[r] = "absent"
  /\ \A w \in Workers : pc'[w] \in Serving =>
       /\ pc[w] \in Serving /\ loc'[w].row = loc[w].row
       /\ pc[w] = "turnEnd" => pc'[w] = "turnEnd"

LEMMA Bystander ==
  ASSUME OneToken, Bystanding PROVE OneToken'
<1>1. \A w \in Workers, r \in Rows : Serves(w, r)' =>
        Serves(w, r) /\ (pc'[w] # "turnEnd" => pc[w] # "turnEnd")
  BY DEF Serves, Bystanding
<1>2. \A r \in Rows : Unspawned(r)' <=> Unspawned(r)
  BY DEF Unspawned, Bystanding
<1>3. TokenHeld'
  BY <1>1, <1>2 DEF OneToken, TokenHeld, Bystanding
<1>4. ServedByOne'
  BY <1>1, <1>2 DEF OneToken, ServedByOne, Bystanding
<1>5. AbsentUntouched'
  BY <1>2 DEF OneToken, AbsentUntouched, Bystanding
<1>6. TurnOnce' /\ RetryOnce'
  BY DEF OneToken, TurnOnce, RetryOnce, Bystanding
<1>. QED
  BY <1>3, <1>4, <1>5, <1>6 DEF OneToken

\* Four actions touch a token or the turn behind it: the command that spawns a row ...
LEMMA SpawnKeeps ==
  ASSUME OneToken, Typed, NEW c \in Commands, NEW s \in Rows, Spawns(c, s)
  PROVE  OneToken'
<1> DEFINE r == cmd[c].row
<1>1. r \in Rows /\ token[r] = "output" /\ rowStatus[s] = "absent"
  BY DEF Spawns, Typed, Placed
<1>2. rowStatus[r] # "absent" /\ Unspawned(r) /\ \A w \in Workers : ~Serves(w, r)
  BY <1>1 DEF OneToken, TokenHeld
<1>3. turns[s] = 0 /\ Unspawned(s) /\ \A w \in Workers : ~Serves(w, s)
  BY <1>1 DEF OneToken, AbsentUntouched, ServedByOne
<1>4. /\ r # s
      /\ \A q \in Rows : token'[q] = IF q = s THEN "input" ELSE IF q = r THEN "none" ELSE token[q]
      /\ \A q \in Rows : origin'[q] = IF q = s THEN r ELSE origin[q]
      /\ \A q \in Rows : rowStatus'[q] = IF q = s THEN "running" ELSE rowStatus[q]
      /\ turns' = turns /\ pc' = pc /\ loc' = loc
  BY <1>1, <1>2 DEF Spawns, Typed, TypeOK
<1> HIDE DEF r
<1>5. \A w \in Workers, q \in Rows : Serves(w, q)' <=> Serves(w, q)
  BY <1>4 DEF Serves
<1>6. \A q \in Rows : q # r /\ Unspawned(q) => Unspawned(q)'
  BY <1>4 DEF Unspawned
<1>7. TokenHeld'
  BY <1>2, <1>3, <1>4, <1>5, <1>6 DEF OneToken, TokenHeld
<1>8. ServedByOne'
  BY <1>2, <1>4, <1>5, <1>6 DEF OneToken, ServedByOne
<1>9. AbsentUntouched'
  BY <1>2, <1>4, <1>6 DEF OneToken, AbsentUntouched
<1>10. TurnOnce'
  BY <1>4 DEF OneToken, TurnOnce
<1>11. RetryOnce'
  <2>1. \A p, q \in Rows : origin[p] = origin[q] /\ origin[q] # 0 => p = q
    BY DEF OneToken, RetryOnce
  <2>2. \A q \in Rows : origin[q] # r
    BY <1>2 DEF Unspawned
  <2>. QED
    BY <1>4, <2>1, <2>2 DEF RetryOnce
<1>. QED
  BY <1>7, <1>8, <1>9, <1>10, <1>11 DEF OneToken

\* ... the delivery that claims the token of its row ...
LEMMA ClaimKeeps ==
  ASSUME OneToken, Typed, NEW w \in Workers, pc[w] = "claim",
         token[loc[w].row] = "input", SetToken(loc[w].row, "none"), Goto(w, "load"),
         UNCHANGED <<rowStatus, origin, turns, loc>>
  PROVE  OneToken'
<1>1. PICK r \in Rows : r = loc[w].row
  BY DEF Typed, Placed
<1>2. /\ rowStatus[r] # "absent" /\ Unspawned(r) /\ turns[r] = 0
      /\ \A v \in Workers : ~Serves(v, r)
  BY <1>1 DEF OneToken, TokenHeld
<1>3. /\ \A q \in Rows : token'[q] = IF q = r THEN "none" ELSE token[q]
      /\ \A v \in Workers : pc'[v] = IF v = w THEN "load" ELSE pc[v]
  BY <1>1 DEF SetToken, Goto, Typed, TypeOK
<1>4. \A v \in Workers, q \in Rows : Serves(v, q)' => Serves(v, q) \/ (v = w /\ q = r)
  BY <1>1, <1>3 DEF Serves
<1>5. \A q \in Rows : Unspawned(q)' <=> Unspawned(q)
  BY DEF Unspawned
<1>6. TokenHeld'
  BY <1>3, <1>4, <1>5 DEF OneToken, TokenHeld
<1>7. ServedByOne'
  <2>1. ASSUME NEW v \in Workers, NEW q \in Rows, Serves(v, q)', q # r
        PROVE  Serves(v, q) /\ pc'[v] = pc[v]
    BY <1>3, <1>4, <2>1 DEF Serves, Serving
  <2>2. \A v \in Workers : Serves(v, r)' => v = w
    BY <1>1, <1>2, <1>4
  <2>. QED
    BY <1>2, <1>4, <1>5, <2>1, <2>2 DEF OneToken, ServedByOne
<1>8. AbsentUntouched' /\ TurnOnce' /\ RetryOnce'
  BY <1>5 DEF OneToken, AbsentUntouched, TurnOnce, RetryOnce
<1>. QED
  BY <1>6, <1>7, <1>8 DEF OneToken

\* ... the worker that plays the turn ...
LEMMA TurnKeeps ==
  ASSUME OneToken, Typed, NEW w \in Workers, pc[w] = "turn", Goto(w, "turnEnd"),
         turns' = [turns EXCEPT ![loc[w].row] = @ + 1],
         UNCHANGED <<rowStatus, token, origin, loc>>
  PROVE  OneToken'
<1> DEFINE r == loc[w].row
<1>1. r \in Rows /\ Serves(w, r)
  BY DEF Typed, Placed, Serves, Serving
<1>2. /\ rowStatus[r] # "absent" /\ Unspawned(r) /\ turns[r] = 0
      /\ \A v \in Workers : Serves(v, r) => v = w
  BY <1>1 DEF OneToken, ServedByOne
<1>3. /\ \A q \in Rows : turns'[q] = IF q = r THEN 1 ELSE turns[q]
      /\ \A v \in Workers : pc'[v] = IF v = w THEN "turnEnd" ELSE pc[v]
  BY <1>1, <1>2 DEF Goto, Typed, TypeOK
<1> HIDE DEF r
<1>4. \A v \in Workers, q \in Rows : Serves(v, q)' <=> Serves(v, q)
  BY <1>3 DEF Serves, Serving
<1>5. \A q \in Rows : Unspawned(q)' <=> Unspawned(q)
  BY DEF Unspawned
<1>6. TokenHeld'
  BY <1>1, <1>3, <1>4, <1>5 DEF OneToken, TokenHeld
<1>7. ServedByOne'
  <2>1. ASSUME NEW v \in Workers, NEW q \in Rows, Serves(v, q), pc'[v] # "turnEnd"
        PROVE  pc'[v] = pc[v] /\ turns'[q] = turns[q]
    BY <1>2, <1>3, <2>1
  <2>. QED
    BY <1>4, <1>5, <2>1 DEF OneToken, ServedByOne
<1>8. AbsentUntouched'
  BY <1>2, <1>3, <1>5 DEF OneToken, AbsentUntouched
<1>9. TurnOnce' /\ RetryOnce'
  BY <1>3 DEF OneToken, TurnOnce, RetryOnce
<1>. QED
  BY <1>6, <1>7, <1>8, <1>9 DEF OneToken

\* ... and the worker whose turn failed with a retryable error, which leaves a new token.
LEMMA FailedTurnKeeps ==
  ASSUME OneToken, Typed, NEW w \in Workers, pc[w] = "turnEnd", Goto(w, "close"),
         Aim(w, "failed"), SetRow(loc[w].row, "failed"),
         NEW where \in {"none", "output"}, SetToken(loc[w].row, where),
         UNCHANGED <<origin, turns>>
  PROVE  OneToken'
<1>1. PICK r \in Rows : r = loc[w].row /\ Serves(w, r)
  BY DEF Typed, Placed, Serves, Serving
<1>2. /\ rowStatus[r] # "absent" /\ Unspawned(r)
      /\ \A v \in Workers : Serves(v, r) => v = w
  BY <1>1 DEF OneToken, ServedByOne
<1>3. /\ \A q \in Rows : token'[q] = IF q = r THEN where ELSE token[q]
      /\ \A q \in Rows : rowStatus'[q] = IF q = r THEN "failed" ELSE rowStatus[q]
      /\ \A v \in Workers : pc'[v] = IF v = w THEN "close" ELSE pc[v]
  BY <1>1 DEF Goto, SetToken, SetRow, Typed, TypeOK
<1>4. \A v \in Workers : loc'[v].row = loc[v].row
  BY Updates DEF Typed
<1>5. \A v \in Workers, q \in Rows : Serves(v, q)' => Serves(v, q) /\ v # w /\ pc'[v] = pc[v]
  BY <1>1, <1>3, <1>4 DEF Serves, Serving
<1>6. \A v \in Workers : ~Serves(v, r)'
  BY <1>1, <1>2, <1>5
<1>7. \A q \in Rows : Unspawned(q)' <=> Unspawned(q)
  BY DEF Unspawned
<1>8. TokenHeld'
  BY <1>2, <1>3, <1>5, <1>6, <1>7 DEF OneToken, TokenHeld
<1>9. ServedByOne'
  BY <1>3, <1>5, <1>7 DEF OneToken, ServedByOne
<1>10. AbsentUntouched' /\ TurnOnce' /\ RetryOnce'
  BY <1>2, <1>3, <1>7 DEF OneToken, AbsentUntouched, TurnOnce, RetryOnce
<1>. QED
  BY <1>8, <1>9, <1>10 DEF OneToken

\* Every action either keeps its hands off the token or is one of those four.
LEMMA StepOneToken == OneToken /\ Typed /\ [Next]_vars => OneToken'
<1> SUFFICES ASSUME OneToken, Typed, [Next]_vars PROVE OneToken'
  OBVIOUS
<1> USE Bystander
<1>1. ASSUME NEW c \in Commands, NEW r \in Rows, CommandReads(c, r) PROVE OneToken'
  BY <1>1 DEF CommandReads, history, Bystanding
<1>2. ASSUME NEW c \in Commands, Consume(c) PROVE OneToken'
  <2>1. CASE token[cmd[c].row] = "output"
    BY <1>2, <2>1, ConsumeCases, SpawnKeeps
  <2>2. CASE token[cmd[c].row] # "output"
    BY <1>2, <2>2, ConsumeRefused DEF Bystanding
  <2>. QED
    BY <2>1, <2>2
<1>3. ASSUME NEW c \in Commands, Publish(c) PROVE OneToken'
  BY <1>3 DEF Publish, history, Bystanding
<1>4. ASSUME NEW c \in Commands, PublishFails(c) PROVE OneToken'
  BY <1>4 DEF PublishFails, history, Bystanding
<1>5. ASSUME NEW c \in Commands, Compensate(c) PROVE OneToken'
  BY <1>5 DEF Compensate, SetRow, Typed, TypeOK, history, Bystanding
<1>6. ASSUME NEW w \in Workers, NEW r \in Rows, PickRetry(w, r) PROVE OneToken'
  BY <1>6 DEF PickRetry, Goto, Serving, Typed, TypeOK, history, Bystanding
<1>7. ASSUME NEW w \in Workers, Claim(w) PROVE OneToken'
  <2>1. CASE rowStatus[loc[w].row] = "running" /\ token[loc[w].row] = "input"
    BY <1>7, <2>1, ClaimKeeps DEF Claim, history
  <2>2. CASE ~(rowStatus[loc[w].row] = "running" /\ token[loc[w].row] = "input")
    BY <1>7, <2>2 DEF Claim, Goto, Serving, Typed, TypeOK, history, Bystanding
  <2>. QED
    BY <2>1, <2>2
<1>8. ASSUME NEW w \in Workers, LoadExecution(w) PROVE OneToken'
  BY <1>8 DEF LoadExecution, Goto, Serving, Typed, TypeOK, history, Bystanding
<1>9. ASSUME NEW w \in Workers, Reject(w) PROVE OneToken'
  BY <1>9 DEF Reject, SetRow, Aim, Goto, Serving, Typed, TypeOK, history, Bystanding
<1>10. ASSUME NEW w \in Workers, SetUp(w) PROVE OneToken'
  BY <1>10 DEF SetUp, Goto, Serving, Typed, TypeOK, history, Bystanding
<1>11. ASSUME NEW w \in Workers, SetUpThrows(w) PROVE OneToken'
  BY <1>11 DEF SetUpThrows, Goto, Serving, Typed, TypeOK, history, Bystanding
<1>12. ASSUME NEW w \in Workers, PlayTurn(w) PROVE OneToken'
  <2>1. CASE exec = "cancelled"
    BY <1>12, <2>1 DEF PlayTurn, Goto, Serving, Typed, TypeOK, Bystanding
  <2>2. CASE exec # "cancelled"
    BY <1>12, <2>2, TurnKeeps DEF PlayTurn
  <2>. QED
    BY <2>1, <2>2
<1>13. ASSUME NEW w \in Workers, EndTurn(w) PROVE OneToken'
  <2>1. CASE ~Reenterable
    BY <1>13, <2>1 DEF EndTurn, Goto, Serving, Typed, TypeOK, history, Bystanding
  <2>2. CASE Reenterable
    <3>1. TurnResult(w) /\ pc[w] = "turnEnd" /\ origin' = origin /\ turns' = turns
      BY <1>13, <2>2 DEF EndTurn, history
    <3>2. ASSUME SetRow(loc[w].row, "failed"), Goto(w, "close"), Aim(w, "failed"),
                 NEW where \in {"none", "output"}, SetToken(loc[w].row, where)
          PROVE  OneToken'
      BY <3>1, <3>2, FailedTurnKeeps
    <3>3. ASSUME NEW s \in {"waiting_for_input", "completed"}, SetRow(loc[w].row, s),
                 NEW l \in {"ack", "graph"}, Goto(w, l), UNCHANGED <<token, loc>>
          PROVE  OneToken'
      <4>1. \A r \in Rows : rowStatus'[r] = "absent" => rowStatus[r] = "absent"
        BY <3>3 DEF SetRow, Typed, TypeOK
      <4>2. \A v \in Workers : pc'[v] \in Serving => pc'[v] = pc[v]
        BY <3>3 DEF Goto, Serving, Typed, TypeOK
      <4>. QED
        BY <3>1, <3>3, <4>1, <4>2 DEF Bystanding
    <3>. QED
      BY <3>1, <3>2, <3>3 DEF TurnResult
  <2>. QED
    BY <2>1, <2>2
<1>14. ASSUME NEW w \in Workers, MarkNodeCancelled(w) PROVE OneToken'
  BY <1>14 DEF MarkNodeCancelled, SetRow, Aim, Goto, Serving, Typed, TypeOK, history, Bystanding
<1>15. ASSUME NEW w \in Workers, GraphThrows(w) PROVE OneToken'
  BY <1>15 DEF GraphThrows, Aim, Goto, Serving, Typed, TypeOK, history, Bystanding
<1>16. ASSUME NEW w \in Workers, GraphParks(w) PROVE OneToken'
  BY <1>16 DEF GraphParks, Goto, Serving, Typed, TypeOK, history, Bystanding
<1>17. ASSUME NEW w \in Workers, GraphCompletes(w) PROVE OneToken'
  BY <1>17 DEF GraphCompletes, Aim, Goto, Serving, Typed, TypeOK, history, Bystanding
<1>18. ASSUME NEW w \in Workers, CloseSpawnedRow(w) PROVE OneToken'
  <2>1. loc[w].goal \in {"failed", "cancelled", "completed"}
    BY DEF Typed, TypeOK, Local
  <2>2. \A r \in Rows : rowStatus'[r] = "absent" => rowStatus[r] = "absent"
    BY <1>18, <2>1 DEF CloseSpawnedRow, SetRow, Typed, TypeOK
  <2>. QED
    BY <1>18, <2>2 DEF CloseSpawnedRow, Goto, Serving, Typed, TypeOK, history, Bystanding
<1>19. ASSUME NEW w \in Workers, FinalizeReads(w) PROVE OneToken'
  BY <1>19 DEF FinalizeReads, Goto, Serving, Typed, TypeOK, history, Bystanding
<1>20. ASSUME NEW w \in Workers, FinalizeWrites(w) PROVE OneToken'
  BY <1>20 DEF FinalizeWrites, Goto, Serving, Typed, TypeOK, history, Bystanding
<1>21. ASSUME NEW w \in Workers, Announce(w) PROVE OneToken'
  BY <1>21 DEF Announce, Goto, Serving, Typed, TypeOK, history, Bystanding
<1>22. ASSUME NEW w \in Workers, Ack(w) PROVE OneToken'
  BY <1>22 DEF Ack, Goto, Serving, Typed, TypeOK, history, Bystanding
<1>23. CASE StopRunning
  BY <1>23 DEF StopRunning, history, Bystanding
<1>24. CASE StopParked
  BY <1>24 DEF StopParked, Typed, TypeOK, history, Bystanding
<1>25. ASSUME NEW w \in Workers, CrashWorker(w) PROVE OneToken'
  BY <1>25 DEF CrashWorker, Goto, Serving, Typed, TypeOK, history, Bystanding
<1>26. ASSUME NEW c \in Commands, CrashGateway(c) PROVE OneToken'
  BY <1>26 DEF CrashGateway, history, Bystanding
<1>27. CASE UNCHANGED vars
  BY <1>27 DEF vars, history, Bystanding
<1>28. ASSUME NEW w \in Workers, TurnThrows(w) PROVE OneToken'
  BY <1>28 DEF TurnThrows, Aim, Goto, Serving, Typed, TypeOK, history, Bystanding
<1>. QED
  BY <1>1, <1>2, <1>3, <1>4, <1>5, <1>6, <1>7, <1>8, <1>9, <1>10, <1>11, <1>12, <1>13,
     <1>14, <1>15, <1>16, <1>17, <1>18, <1>19, <1>20, <1>21, <1>22, <1>23, <1>24,
     <1>25, <1>26, <1>27, <1>28
  DEF Next, Gateway, Work, Environment
-------------------------------------------------------------------------------
\* Every reachable state of the retry is of its type: no status, label or remembered
\* row outside the sets the code uses, whatever fails and whoever stops.
THEOREM TypeCorrect == Spec => []TypeOK
<1>1. Typed => TypeOK
  BY DEF Typed
<1>. QED
  BY <1>1, InitTyped, StepTyped, PTL DEF Spec

\* The model is called at most once for one retry: the claim of _retryState in
\* applyRetryLastTurn refuses every delivery but the first, across crashes, throws
\* before the handler's try, and redeliveries of the job.
THEOREM TurnPlayedOnce == Spec => []TurnOnce
<1>1. OneToken => TurnOnce
  BY DEF OneToken
<1>. QED
  BY <1>1, InitTyped, StepTyped, StepOneToken, PTL DEF Spec

\* However many commands race on one failed row, and whenever they come, one new row is
\* spawned for it: the transaction of the gateway takes the token it spawns for.
THEOREM RetriedOnce == Spec => []RetryOnce
<1>1. OneToken => RetryOnce
  BY DEF OneToken
<1>. QED
  BY <1>1, InitTyped, StepTyped, StepOneToken, PTL DEF Spec

LEMMA StepRespectsEnd ==
  ASSUME [Next]_vars, exec \in {"completed", "cancelled"} PROVE exec' = exec
<1>1. ~Reenterable /\ ~NonTerminal
  BY DEF Reenterable, NonTerminal, nonTerminalStatuses, Status, Terminal
<1>2. ASSUME NEW c \in Commands, Gateway(c) PROVE exec' = exec
  BY <1>2 DEF Gateway, CommandReads, Consume, Publish, PublishFails, Compensate
<1>3. ASSUME NEW w \in Workers, Work(w) PROVE exec' = exec
  <2>1. CASE EndTurn(w) \/ GraphParks(w) \/ GraphCompletes(w) \/ FinalizeWrites(w)
    BY <1>1, <2>1 DEF EndTurn, GraphParks, GraphCompletes, FinalizeWrites
  <2>2. CASE \/ \E r \in Rows : PickRetry(w, r)
             \/ Claim(w) \/ LoadExecution(w) \/ Reject(w) \/ SetUp(w) \/ SetUpThrows(w)
             \/ PlayTurn(w) \/ TurnThrows(w) \/ MarkNodeCancelled(w) \/ GraphThrows(w)
    BY <2>2 DEF PickRetry, Claim, LoadExecution, Reject, SetUp, SetUpThrows, PlayTurn,
                TurnThrows, MarkNodeCancelled, GraphThrows
  <2>3. CASE CloseSpawnedRow(w) \/ FinalizeReads(w) \/ Announce(w) \/ Ack(w)
    BY <2>3 DEF CloseSpawnedRow, FinalizeReads, Announce, Ack
  <2>. QED
    BY <1>3, <2>1, <2>2, <2>3 DEF Work
<1>4. CASE Environment
  BY <1>4 DEF Environment, StopRunning, StopParked, CrashWorker, CrashGateway
<1>5. CASE UNCHANGED vars
  BY <1>5 DEF vars
<1>. QED
  BY <1>2, <1>3, <1>4, <1>5 DEF Next

\* An execution that completed, or that the user stopped while its retry was under way,
\* stays so: the linked writes and the guarded updates of a re-entry leave it alone.
THEOREM ReentryFinal == Spec => ReentryRespectsEnd
<1>1. [Next]_vars => [(exec \in {"completed", "cancelled"}) => exec' = exec]_exec
  BY StepRespectsEnd
<1>. QED
  BY <1>1, PTL DEF Spec, ReentryRespectsEnd
===============================================================================
