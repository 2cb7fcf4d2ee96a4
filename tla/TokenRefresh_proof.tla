-------------------------- MODULE TokenRefresh_proof --------------------------
(***************************************************************************)
(* Proofs about TokenRefresh, for any number of pods, workers and tokens.  *)
(*                                                                         *)
(* Two invariants.  InHandInv: unless a grant overlapped a refresh, only   *)
(* one actor has a token to save, it is the newest and nobody else has     *)
(* seen it.  KeyedInv: as long as only keyed refreshes take part, one      *)
(* worker at a time refreshes, with the token of the row.                  *)
(***************************************************************************)
EXTENDS TokenRefresh, TLAPS

\* Nothing is newer than the newest token.
Bounded ==
  /\ newest >= 1 /\ rowToken <= newest
  /\ \A a \in Actors : token[a] <= newest /\ got[a] <= newest

\* What an actor has to save is new to everybody else.
SaverAlone ==
  overlapped \/ \A a \in Actors : pc[a] = "save" =>
    /\ got[a] = newest /\ grant = 0 /\ rowToken < newest
    /\ \A b \in Actors : token[b] < newest /\ (pc[b] = "save" => b = a)

\* So is a token that the callback has to save.
GrantNew ==
  grant # 0 =>
    /\ grant = newest /\ rowToken < newest
    /\ \A a \in Actors : token[a] < newest /\ got[a] < newest

InHandInv == TypeOK /\ Bounded /\ SaverAlone /\ GrantNew /\ NewestInHand

\* While nothing but keyed refreshes took part.
KeyedAlone ==
  ~exposed =>
    /\ rowStatus = "connected" /\ grant = 0
    /\ \A p \in Pods : /\ job[p] \notin {"waiting", "active"}
                       /\ pc[p] \notin {"exchange", "save", "demote"}
    /\ \A w \in Workers : pc[w] # "idle" =>
         /\ on[w] = Keyed /\ job[Keyed] = "active"
         /\ pc[w] \in {"exchange", "save"}
         /\ pc[w] = "exchange" => token[w] = rowToken
         /\ pc[w] = "save" => got[w] = newest
         /\ \A v \in Workers : pc[v] # "idle" => v = w
    /\ (\A w \in Workers : pc[w] # "save") => rowToken = newest

KeyedInv == TypeOK /\ KeyedAlone

USE DEF Actors, Jobs, Tokens
-------------------------------------------------------------------------------
LEMMA InitInvs == Init => InHandInv /\ KeyedAlone
<1> SUFFICES ASSUME Init PROVE InHandInv /\ KeyedAlone
  OBVIOUS
<1> USE RefreshAssumption
<1>1. TypeOK
  <2>1. /\ newest \in Tokens /\ agedUpTo \in Tokens /\ rowToken \in Tokens
        /\ grant \in Tokens
    BY DEF Init
  <2>2. /\ job \in [Jobs -> JobState] /\ pc \in [Actors -> Label]
        /\ on \in [Actors -> Jobs \cup {NoJob}]
    BY DEF Init, Label, JobState
  <2>3. /\ token \in [Actors -> Tokens] /\ got \in [Actors -> Tokens]
        /\ kind \in [Actors -> {"call", "ping"}] /\ tried \in [Actors -> BOOLEAN]
        /\ attempt \in [Actors -> 0..MaxRateLimitRetries]
    BY DEF Init
  <2>4. /\ \A w \in Workers : pc[w] # "idle" => on[w] \in Jobs
        /\ \A p \in Pods : pc[p] = "wait" => on[p] \in Jobs
    BY DEF Init
  <2>. QED
    BY <2>1, <2>2, <2>3, <2>4 DEF Init, TypeOK
<1>2. Bounded /\ SaverAlone /\ GrantNew /\ NewestInHand
  BY DEF Init, Bounded, SaverAlone, GrantNew, NewestInHand, InHand
<1>3. KeyedAlone
  BY DEF Init, KeyedAlone
<1> QED
  BY <1>1, <1>2, <1>3 DEF InHandInv

LEMMA RestType ==
  ASSUME TypeOK, NEW a \in Actors, Rest(a)
  PROVE  /\ pc' \in [Actors -> Label] /\ token' \in [Actors -> Tokens]
         /\ got' \in [Actors -> Tokens] /\ on' \in [Actors -> Jobs \cup {NoJob}]
         /\ kind' \in [Actors -> {"call", "ping"}] /\ tried' \in [Actors -> BOOLEAN]
         /\ attempt' \in [Actors -> 0..MaxRateLimitRetries]
         /\ \A w \in Workers : pc'[w] # "idle" => on'[w] \in Jobs
         /\ \A p \in Pods : pc'[p] = "wait" => on'[p] \in Jobs
BY RefreshAssumption DEF TypeOK, Rest, Goto, Label

LEMMA TypeStep == TypeOK /\ [Next]_vars => TypeOK'
<1> SUFFICES ASSUME TypeOK, [Next]_vars PROVE TypeOK'
  OBVIOUS
<1> USE RefreshAssumption DEF TypeOK, Goto, Rest, Spend, Label, JobState,
        provider, row, local, history, EnvEvents
<1>1. ASSUME NEW p \in Pods, Begin(p, "call") \/ Begin(p, "ping") PROVE TypeOK'
  BY <1>1 DEF Begin
<1>2. ASSUME NEW p \in Pods, EnsureFresh(p) PROVE TypeOK'
  BY <1>2 DEF EnsureFresh, Add
<1>3. ASSUME NEW p \in Pods, JobCompleted(p) PROVE TypeOK'
  BY <1>3 DEF JobCompleted
<1>4. ASSUME NEW p \in Pods, WaitFails(p) PROVE TypeOK'
  <2>1. CASE Rest(p)
    BY <2>1, <1>4, RestType DEF WaitFails
  <2>2. CASE Goto(p, "reread") /\ UNCHANGED local
    BY <2>2, <1>4 DEF WaitFails
  <2>. QED
    BY <2>1, <2>2, <1>4 DEF WaitFails
<1>5. ASSUME NEW p \in Pods, Reread(p) PROVE TypeOK'
  BY <1>5 DEF Reread
<1>6. ASSUME NEW p \in Pods, ApiEnds(p) PROVE TypeOK'
  BY <1>6 DEF ApiEnds
<1>7. ASSUME NEW p \in Pods, ApiRefuses(p) PROVE TypeOK'
  BY <1>7 DEF ApiRefuses, Add
<1>8. ASSUME NEW p \in Pods, ApiThrottles(p) PROVE TypeOK'
  BY <1>8 DEF ApiThrottles
<1>9. ASSUME NEW w \in Workers, NEW j \in Jobs, PickJob(w, j) PROVE TypeOK'
  BY <1>9 DEF PickJob
<1>10. ASSUME NEW a \in Actors, Exchange(a) PROVE TypeOK'
  BY <1>10 DEF Exchange
<1>11. ASSUME NEW a \in Actors, ExchangeFails(a) PROVE TypeOK'
  <2>1. job' \in [Jobs -> JobState]
    BY <1>11 DEF ExchangeFails, Fail
  <2>2. newest' \in Tokens /\ budget' \in [EnvEvents -> Nat]
    <3>1. CASE UNCHANGED <<newest, lost, exposed, budget>>
      BY <3>1
    <3>2. CASE newest < MaxToken /\ newest' = newest + 1 /\ Spend("loseAnswer")
      BY <3>2
    <3>. QED
      BY <3>1, <3>2, <1>11 DEF ExchangeFails
  <2>4. lost' \in BOOLEAN /\ exposed' \in BOOLEAN
    <3>1. lost' \in {lost, TRUE} /\ exposed' \in {exposed, TRUE}
      BY <1>11 DEF ExchangeFails
    <3>. QED
      BY <3>1
  <2>3. Rest(a)
    BY <1>11 DEF ExchangeFails, Fail
  <2>. QED
    BY <2>1, <2>2, <2>3, <2>4, <1>11, RestType DEF ExchangeFails
<1>12. ASSUME NEW a \in Actors, Save(a) PROVE TypeOK'
  <2>1. CASE Rest(a)
    BY <2>1, <1>12, RestType DEF Save, Saved
  <2>2. CASE a \in Pods /\ ~Rest(a)
    BY <2>2, <1>12 DEF Save, Saved
  <2>. QED
    BY <2>1, <2>2, <1>12 DEF Save, Saved
<1>13. ASSUME NEW a \in Actors, Demote(a) PROVE TypeOK'
  <2>1. job' \in [Jobs -> JobState] /\ Rest(a)
    BY <1>13 DEF Demote, Fail
  <2>. QED
    BY <2>1, <1>13, RestType DEF Demote
<1>14. ASSUME NEW j \in Jobs, Forget(j) PROVE TypeOK'
  BY <1>14 DEF Forget
<1>15. ASSUME NEW w \in Workers, Crash(w) PROVE TypeOK'
  BY <1>15 DEF Crash
<1>16. CASE Age
  BY <1>16 DEF Age
<1>17. CASE BackgroundRefresh
  BY <1>17 DEF BackgroundRefresh
<1>18. CASE ExchangeCode
  BY <1>18 DEF ExchangeCode
<1>19. CASE SaveGrant
  BY <1>19 DEF SaveGrant
<1>20. CASE UNCHANGED vars
  BY <1>20 DEF vars
<1> QED
  BY <1>1, <1>2, <1>3, <1>4, <1>5, <1>6, <1>7, <1>8, <1>9, <1>10, <1>11,
     <1>12, <1>13, <1>14, <1>15, <1>16, <1>17, <1>18, <1>19, <1>20
     DEF Next, Call, Refresh

LEMMA BoundedStep == InHandInv /\ [Next]_vars => Bounded'
<1> SUFFICES ASSUME InHandInv, [Next]_vars PROVE Bounded'
  OBVIOUS
<1> USE RefreshAssumption DEF InHandInv, TypeOK, Bounded, GrantNew, Goto, provider, row, local
<1>1. ASSUME NEW p \in Pods, Begin(p, "call") \/ Begin(p, "ping") PROVE Bounded'
  BY <1>1 DEF Begin
<1>2. ASSUME NEW p \in Pods, EnsureFresh(p) PROVE Bounded'
  BY <1>2 DEF EnsureFresh, Add
<1>3. ASSUME NEW p \in Pods, JobCompleted(p) PROVE Bounded'
  BY <1>3 DEF JobCompleted
<1>4. ASSUME NEW p \in Pods, WaitFails(p) PROVE Bounded'
  BY <1>4 DEF WaitFails, Rest
<1>5. ASSUME NEW p \in Pods, Reread(p) PROVE Bounded'
  BY <1>5 DEF Reread
<1>6. ASSUME NEW p \in Pods, ApiEnds(p) PROVE Bounded'
  BY <1>6 DEF ApiEnds, Rest
<1>7. ASSUME NEW p \in Pods, ApiRefuses(p) PROVE Bounded'
  BY <1>7 DEF ApiRefuses, Add
<1>8. ASSUME NEW p \in Pods, ApiThrottles(p) PROVE Bounded'
  BY <1>8 DEF ApiThrottles
<1>9. ASSUME NEW w \in Workers, NEW j \in Jobs, PickJob(w, j) PROVE Bounded'
  BY <1>9 DEF PickJob
<1>10. ASSUME NEW a \in Actors, Exchange(a) PROVE Bounded'
  BY <1>10 DEF Exchange
<1>11. ASSUME NEW a \in Actors, ExchangeFails(a) PROVE Bounded'
  BY <1>11 DEF ExchangeFails, Fail, Rest
<1>12. ASSUME NEW a \in Actors, Save(a) PROVE Bounded'
  BY <1>12 DEF Save, Saved, Rest
<1>13. ASSUME NEW a \in Actors, Demote(a) PROVE Bounded'
  BY <1>13 DEF Demote, Fail, Rest
<1>14. ASSUME NEW j \in Jobs, Forget(j) PROVE Bounded'
  BY <1>14 DEF Forget
<1>15. ASSUME NEW w \in Workers, Crash(w) PROVE Bounded'
  BY <1>15 DEF Crash, Rest
<1>16. CASE Age
  BY <1>16 DEF Age
<1>17. CASE BackgroundRefresh
  BY <1>17 DEF BackgroundRefresh
<1>18. CASE ExchangeCode
  BY <1>18 DEF ExchangeCode
<1>19. CASE SaveGrant
  BY <1>19 DEF SaveGrant
<1>20. CASE UNCHANGED vars
  BY <1>20 DEF vars
<1> QED
  BY <1>1, <1>2, <1>3, <1>4, <1>5, <1>6, <1>7, <1>8, <1>9, <1>10, <1>11,
     <1>12, <1>13, <1>14, <1>15, <1>16, <1>17, <1>18, <1>19, <1>20
     DEF Next, Call, Refresh

\* The token an actor has to save stays the newest: the next exchange would need it.
LEMMA SaverStep == InHandInv /\ [Next]_vars => SaverAlone'
<1> SUFFICES ASSUME InHandInv, [Next]_vars PROVE SaverAlone'
  OBVIOUS
<1> USE RefreshAssumption
    DEF InHandInv, TypeOK, Bounded, SaverAlone, GrantNew, Goto, provider, row, local, history
<1>1. ASSUME NEW p \in Pods, Begin(p, "call") \/ Begin(p, "ping") PROVE SaverAlone'
  BY <1>1 DEF Begin
<1>2. ASSUME NEW p \in Pods, EnsureFresh(p) PROVE SaverAlone'
  BY <1>2 DEF EnsureFresh, Add
<1>3. ASSUME NEW p \in Pods, JobCompleted(p) PROVE SaverAlone'
  BY <1>3 DEF JobCompleted
<1>4. ASSUME NEW p \in Pods, WaitFails(p) PROVE SaverAlone'
  BY <1>4 DEF WaitFails, Rest
<1>5. ASSUME NEW p \in Pods, Reread(p) PROVE SaverAlone'
  BY <1>5 DEF Reread
<1>6. ASSUME NEW p \in Pods, ApiEnds(p) PROVE SaverAlone'
  BY <1>6 DEF ApiEnds, Rest
<1>7. ASSUME NEW p \in Pods, ApiRefuses(p) PROVE SaverAlone'
  BY <1>7 DEF ApiRefuses, Add
<1>8. ASSUME NEW p \in Pods, ApiThrottles(p) PROVE SaverAlone'
  BY <1>8 DEF ApiThrottles
<1>9. ASSUME NEW w \in Workers, NEW j \in Jobs, PickJob(w, j) PROVE SaverAlone'
  BY <1>9 DEF PickJob
<1>10. ASSUME NEW a \in Actors, Exchange(a) PROVE SaverAlone'
  BY <1>10 DEF Exchange
<1>11. ASSUME NEW a \in Actors, ExchangeFails(a) PROVE SaverAlone'
  BY <1>11 DEF ExchangeFails, Fail, Rest
<1>12. ASSUME NEW a \in Actors, Save(a) PROVE SaverAlone'
  BY <1>12 DEF Save, Saved, Rest
<1>13. ASSUME NEW a \in Actors, Demote(a) PROVE SaverAlone'
  BY <1>13 DEF Demote, Fail, Rest
<1>14. ASSUME NEW j \in Jobs, Forget(j) PROVE SaverAlone'
  BY <1>14 DEF Forget
<1>15. ASSUME NEW w \in Workers, Crash(w) PROVE SaverAlone'
  BY <1>15 DEF Crash, Rest
<1>16. CASE Age
  BY <1>16 DEF Age
<1>17. CASE BackgroundRefresh
  BY <1>17 DEF BackgroundRefresh
<1>18. CASE ExchangeCode
  BY <1>18 DEF ExchangeCode
<1>19. CASE SaveGrant
  BY <1>19 DEF SaveGrant
<1>20. CASE UNCHANGED vars
  BY <1>20 DEF vars
<1> QED
  BY <1>1, <1>2, <1>3, <1>4, <1>5, <1>6, <1>7, <1>8, <1>9, <1>10, <1>11,
     <1>12, <1>13, <1>14, <1>15, <1>16, <1>17, <1>18, <1>19, <1>20
     DEF Next, Call, Refresh

LEMMA GrantStep == InHandInv /\ [Next]_vars => GrantNew'
<1> SUFFICES ASSUME InHandInv, [Next]_vars PROVE GrantNew'
  OBVIOUS
<1> USE RefreshAssumption DEF InHandInv, TypeOK, Bounded, GrantNew, Goto, provider, row, local
<1>1. ASSUME NEW p \in Pods, Begin(p, "call") \/ Begin(p, "ping") PROVE GrantNew'
  BY <1>1 DEF Begin
<1>2. ASSUME NEW p \in Pods, EnsureFresh(p) PROVE GrantNew'
  BY <1>2 DEF EnsureFresh, Add
<1>3. ASSUME NEW p \in Pods, JobCompleted(p) PROVE GrantNew'
  BY <1>3 DEF JobCompleted
<1>4. ASSUME NEW p \in Pods, WaitFails(p) PROVE GrantNew'
  BY <1>4 DEF WaitFails, Rest
<1>5. ASSUME NEW p \in Pods, Reread(p) PROVE GrantNew'
  BY <1>5 DEF Reread
<1>6. ASSUME NEW p \in Pods, ApiEnds(p) PROVE GrantNew'
  BY <1>6 DEF ApiEnds, Rest
<1>7. ASSUME NEW p \in Pods, ApiRefuses(p) PROVE GrantNew'
  BY <1>7 DEF ApiRefuses, Add
<1>8. ASSUME NEW p \in Pods, ApiThrottles(p) PROVE GrantNew'
  BY <1>8 DEF ApiThrottles
<1>9. ASSUME NEW w \in Workers, NEW j \in Jobs, PickJob(w, j) PROVE GrantNew'
  BY <1>9 DEF PickJob
<1>10. ASSUME NEW a \in Actors, Exchange(a) PROVE GrantNew'
  BY <1>10 DEF Exchange
<1>11. ASSUME NEW a \in Actors, ExchangeFails(a) PROVE GrantNew'
  BY <1>11 DEF ExchangeFails, Fail, Rest
<1>12. ASSUME NEW a \in Actors, Save(a) PROVE GrantNew'
  BY <1>12 DEF Save, Saved, Rest
<1>13. ASSUME NEW a \in Actors, Demote(a) PROVE GrantNew'
  BY <1>13 DEF Demote, Fail, Rest
<1>14. ASSUME NEW j \in Jobs, Forget(j) PROVE GrantNew'
  BY <1>14 DEF Forget
<1>15. ASSUME NEW w \in Workers, Crash(w) PROVE GrantNew'
  BY <1>15 DEF Crash, Rest
<1>16. CASE Age
  BY <1>16 DEF Age
<1>17. CASE BackgroundRefresh
  BY <1>17 DEF BackgroundRefresh
<1>18. CASE ExchangeCode
  BY <1>18 DEF ExchangeCode
<1>19. CASE SaveGrant
  BY <1>19 DEF SaveGrant
<1>20. CASE UNCHANGED vars
  BY <1>20 DEF vars
<1> QED
  BY <1>1, <1>2, <1>3, <1>4, <1>5, <1>6, <1>7, <1>8, <1>9, <1>10, <1>11,
     <1>12, <1>13, <1>14, <1>15, <1>16, <1>17, <1>18, <1>19, <1>20
     DEF Next, Call, Refresh

LEMMA InHandStep == InHandInv /\ [Next]_vars => NewestInHand'
<1> SUFFICES ASSUME InHandInv, [Next]_vars PROVE NewestInHand'
  OBVIOUS
<1> USE RefreshAssumption
    DEF InHandInv, TypeOK, Bounded, SaverAlone, GrantNew, NewestInHand, InHand, Goto,
        provider, row, local, history
<1>1. ASSUME NEW p \in Pods, Begin(p, "call") \/ Begin(p, "ping") PROVE NewestInHand'
  BY <1>1 DEF Begin
<1>2. ASSUME NEW p \in Pods, EnsureFresh(p) PROVE NewestInHand'
  BY <1>2 DEF EnsureFresh, Add
<1>3. ASSUME NEW p \in Pods, JobCompleted(p) PROVE NewestInHand'
  BY <1>3 DEF JobCompleted
<1>4. ASSUME NEW p \in Pods, WaitFails(p) PROVE NewestInHand'
  BY <1>4 DEF WaitFails, Rest
<1>5. ASSUME NEW p \in Pods, Reread(p) PROVE NewestInHand'
  BY <1>5 DEF Reread
<1>6. ASSUME NEW p \in Pods, ApiEnds(p) PROVE NewestInHand'
  BY <1>6 DEF ApiEnds, Rest
<1>7. ASSUME NEW p \in Pods, ApiRefuses(p) PROVE NewestInHand'
  BY <1>7 DEF ApiRefuses, Add
<1>8. ASSUME NEW p \in Pods, ApiThrottles(p) PROVE NewestInHand'
  BY <1>8 DEF ApiThrottles
<1>9. ASSUME NEW w \in Workers, NEW j \in Jobs, PickJob(w, j) PROVE NewestInHand'
  BY <1>9 DEF PickJob
<1>10. ASSUME NEW a \in Actors, Exchange(a) PROVE NewestInHand'
  BY <1>10 DEF Exchange
<1>11. ASSUME NEW a \in Actors, ExchangeFails(a) PROVE NewestInHand'
  BY <1>11 DEF ExchangeFails, Fail, Rest
<1>12. ASSUME NEW a \in Actors, Save(a) PROVE NewestInHand'
  BY <1>12 DEF Save, Saved, Rest
<1>13. ASSUME NEW a \in Actors, Demote(a) PROVE NewestInHand'
  BY <1>13 DEF Demote, Fail, Rest
<1>14. ASSUME NEW j \in Jobs, Forget(j) PROVE NewestInHand'
  BY <1>14 DEF Forget
<1>15. ASSUME NEW w \in Workers, Crash(w) PROVE NewestInHand'
  BY <1>15 DEF Crash, Rest
<1>16. CASE Age
  BY <1>16 DEF Age
<1>17. CASE BackgroundRefresh
  BY <1>17 DEF BackgroundRefresh
<1>18. CASE ExchangeCode
  BY <1>18 DEF ExchangeCode
<1>19. CASE SaveGrant
  BY <1>19 DEF SaveGrant
<1>20. CASE UNCHANGED vars
  BY <1>20 DEF vars
<1> QED
  BY <1>1, <1>2, <1>3, <1>4, <1>5, <1>6, <1>7, <1>8, <1>9, <1>10, <1>11,
     <1>12, <1>13, <1>14, <1>15, <1>16, <1>17, <1>18, <1>19, <1>20
     DEF Next, Call, Refresh

LEMMA KeyedStep == KeyedInv /\ [Next]_vars => KeyedAlone'
<1> SUFFICES ASSUME KeyedInv, [Next]_vars PROVE KeyedAlone'
  OBVIOUS
<1> USE RefreshAssumption
    DEF KeyedInv, TypeOK, KeyedAlone, Goto, provider, row, local, history
<1>1. ASSUME NEW p \in Pods, Begin(p, "call") \/ Begin(p, "ping") PROVE KeyedAlone'
  BY <1>1 DEF Begin
<1>2. ASSUME NEW p \in Pods, EnsureFresh(p) PROVE KeyedAlone'
  BY <1>2 DEF EnsureFresh, Add
<1>3. ASSUME NEW p \in Pods, JobCompleted(p) PROVE KeyedAlone'
  BY <1>3 DEF JobCompleted
<1>4. ASSUME NEW p \in Pods, WaitFails(p) PROVE KeyedAlone'
  BY <1>4 DEF WaitFails, Rest
<1>5. ASSUME NEW p \in Pods, Reread(p) PROVE KeyedAlone'
  BY <1>5 DEF Reread
<1>6. ASSUME NEW p \in Pods, ApiEnds(p) PROVE KeyedAlone'
  BY <1>6 DEF ApiEnds, Rest
<1>7. ASSUME NEW p \in Pods, ApiRefuses(p) PROVE KeyedAlone'
  BY <1>7 DEF ApiRefuses, Add
<1>8. ASSUME NEW p \in Pods, ApiThrottles(p) PROVE KeyedAlone'
  BY <1>8 DEF ApiThrottles
<1>9. ASSUME NEW w \in Workers, NEW j \in Jobs, PickJob(w, j) PROVE KeyedAlone'
  BY <1>9 DEF PickJob
<1>10. ASSUME NEW a \in Actors, Exchange(a) PROVE KeyedAlone'
  BY <1>10 DEF Exchange
<1>11. ASSUME NEW a \in Actors, ExchangeFails(a) PROVE KeyedAlone'
  BY <1>11 DEF ExchangeFails, Fail, Rest
<1>12. ASSUME NEW a \in Actors, Save(a) PROVE KeyedAlone'
  BY <1>12 DEF Save, Saved, Rest
<1>13. ASSUME NEW a \in Actors, Demote(a) PROVE KeyedAlone'
  BY <1>13 DEF Demote, Fail, Rest
<1>14. ASSUME NEW j \in Jobs, Forget(j) PROVE KeyedAlone'
  BY <1>14 DEF Forget
<1>15. ASSUME NEW w \in Workers, Crash(w) PROVE KeyedAlone'
  BY <1>15 DEF Crash, Rest
<1>16. CASE Age
  BY <1>16 DEF Age
<1>17. CASE BackgroundRefresh
  BY <1>17 DEF BackgroundRefresh
<1>18. CASE ExchangeCode
  BY <1>18 DEF ExchangeCode
<1>19. CASE SaveGrant
  BY <1>19 DEF SaveGrant
<1>20. CASE UNCHANGED vars
  BY <1>20 DEF vars
<1> QED
  BY <1>1, <1>2, <1>3, <1>4, <1>5, <1>6, <1>7, <1>8, <1>9, <1>10, <1>11,
     <1>12, <1>13, <1>14, <1>15, <1>16, <1>17, <1>18, <1>19, <1>20
     DEF Next, Call, Refresh
-------------------------------------------------------------------------------
THEOREM InHandInvariance == Spec => []InHandInv
<1>1. Init => InHandInv
  BY InitInvs
<1>2. InHandInv /\ [Next]_vars => InHandInv'
  BY TypeStep, BoundedStep, SaverStep, GrantStep, InHandStep DEF InHandInv
<1> QED
  BY <1>1, <1>2, PTL DEF Spec

\* The refresh protocol is well typed.
THEOREM TypeCorrect == Spec => []TypeOK
<1>1. InHandInv => TypeOK
  BY DEF InHandInv
<1> QED
  BY <1>1, InHandInvariance, PTL

\* Queue workers, connection tests and the OAuth callback together never leave the
\* integration without the token its provider accepts, but for an answer that was
\* lost and for a save that comes after a grant it overlapped.
THEOREM NewestAlwaysInHand == Spec => []NewestInHand
<1>1. InHandInv => NewestInHand
  BY DEF InHandInv
<1> QED
  BY <1>1, InHandInvariance, PTL

\* The shared job id is enough for proactive and background refreshes: they never
\* present a spent token, so they never demote the integration.
THEOREM KeyedAlwaysSafe == Spec => []KeyedNeverDemotes
<1>1. Init => KeyedInv
  BY InitInvs DEF KeyedInv, InHandInv
<1>2. KeyedInv /\ [Next]_vars => KeyedInv'
  BY TypeStep, KeyedStep DEF KeyedInv
<1>3. KeyedInv => KeyedNeverDemotes
  BY DEF KeyedInv, KeyedAlone, KeyedNeverDemotes
<1> QED
  BY <1>1, <1>2, <1>3, PTL DEF Spec
===============================================================================
