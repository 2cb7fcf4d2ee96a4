--------------------------- MODULE Admission_proof ---------------------------
(***************************************************************************)
(* Proofs about Admission, for any number of workers, executions,          *)
(* workflows and workspaces and any caps.                                  *)
(*                                                                         *)
(* The argument: a worker inside the admission transaction holds the lock  *)
(* of its workspace (LockHeld), so between the count of an execution and   *)
(* its commit nobody else admits one of the same workspace, hence of the   *)
(* same workflow, and what was counted can only shrink (CommitFits).       *)
(***************************************************************************)
EXTENDS Admission, FiniteSetTheorems, TLAPS

LockHeld ==
  \A w \in Workers : pc[w] \in InTransaction => holder[WsOf(on[w])] = w

CommitFits ==
  \A w \in Workers : pc[w] = "commit" =>
    status[on[w]] = "pending" /\ Room(Admitted, on[w])

ResumedStarted == \A e \in resumed : status[e] # "pending"

\* A worker between two jobs holds none; one that drives a segment left the
\* queue behind.
HandsMatch ==
  \A w \in Workers :
    /\ pc[w] = "idle" => on[w] = Nothing
    /\ pc[w] = "segment" => status[on[w]] # "pending"

IInv ==
  /\ TypeOK /\ LockHeld /\ CommitFits /\ CapsHeld /\ ResumedStarted
  /\ HandsMatch /\ PendingHasJob
-------------------------------------------------------------------------------
(* Counting.                                                               *)

\* A smaller set of executions has no more members of a workspace or workflow.
LEMMA FewerFit ==
  ASSUME NEW S \in SUBSET Executions, NEW T \in SUBSET S
  PROVE  /\ \A s \in Workspaces :
              /\ Cardinality({e \in T : WsOf(e) = s}) \in Nat
              /\ Cardinality({e \in S : WsOf(e) = s}) \in Nat
              /\ Cardinality({e \in T : WsOf(e) = s})
                   <= Cardinality({e \in S : WsOf(e) = s})
         /\ \A f \in Workflows :
              /\ Cardinality({e \in T : WorkflowOf[e] = f}) \in Nat
              /\ Cardinality({e \in S : WorkflowOf[e] = f}) \in Nat
              /\ Cardinality({e \in T : WorkflowOf[e] = f})
                   <= Cardinality({e \in S : WorkflowOf[e] = f})
<1>1. IsFiniteSet(S)
  BY FS_Subset, AdmissionAssumption
<1>2. ASSUME NEW A, NEW B, A \subseteq B, B \subseteq S
      PROVE  /\ Cardinality(A) \in Nat /\ Cardinality(B) \in Nat
             /\ Cardinality(A) <= Cardinality(B)
  <2>1. IsFiniteSet(B)
    BY <1>1, <1>2, FS_Subset
  <2>2. IsFiniteSet(A) /\ Cardinality(A) <= Cardinality(B)
    BY <2>1, <1>2, FS_Subset
  <2> QED
    BY <2>1, <2>2, FS_CardinalityType
<1>3. \A s \in Workspaces :
        /\ {e \in T : WsOf(e) = s} \subseteq {e \in S : WsOf(e) = s}
        /\ {e \in S : WsOf(e) = s} \subseteq S
  OBVIOUS
<1>4. \A f \in Workflows :
        /\ {e \in T : WorkflowOf[e] = f} \subseteq {e \in S : WorkflowOf[e] = f}
        /\ {e \in S : WorkflowOf[e] = f} \subseteq S
  OBVIOUS
<1> QED
  BY <1>2, <1>3, <1>4

\* The workspace and the workflow of an execution, and their caps, are what they
\* should be.
LEMMA PlacesType ==
  ASSUME NEW e \in Executions
  PROVE  /\ WorkflowOf[e] \in Workflows /\ WsOf(e) \in Workspaces
         /\ WfCap[WorkflowOf[e]] \in Nat /\ WsCap[WsOf(e)] \in Nat
BY AdmissionAssumption DEF WsOf

\* Room among some executions is room among fewer.
LEMMA RoomShrinks ==
  ASSUME NEW S \in SUBSET Executions, NEW T \in SUBSET S, NEW e \in Executions,
         Room(S, e)
  PROVE  Room(T, e)
<1>1. /\ Cardinality({x \in T : WsOf(x) = WsOf(e)}) \in Nat
      /\ Cardinality({x \in S : WsOf(x) = WsOf(e)}) \in Nat
      /\ Cardinality({x \in T : WsOf(x) = WsOf(e)})
           <= Cardinality({x \in S : WsOf(x) = WsOf(e)})
      /\ Cardinality({x \in T : WorkflowOf[x] = WorkflowOf[e]}) \in Nat
      /\ Cardinality({x \in S : WorkflowOf[x] = WorkflowOf[e]}) \in Nat
      /\ Cardinality({x \in T : WorkflowOf[x] = WorkflowOf[e]})
           <= Cardinality({x \in S : WorkflowOf[x] = WorkflowOf[e]})
  BY FewerFit, PlacesType
<1> QED
  BY <1>1, PlacesType DEF Room

\* Adding an execution that there is room for keeps within the caps.
LEMMA AddedFits ==
  ASSUME NEW S \in SUBSET Executions, NEW T \in SUBSET Executions,
         NEW e \in Executions, T \subseteq S \cup {e}, Room(S, e),
         \A s \in Workspaces : Cardinality({x \in S : WsOf(x) = s}) <= WsCap[s],
         \A f \in Workflows : Cardinality({x \in S : WorkflowOf[x] = f}) <= WfCap[f]
  PROVE  /\ \A s \in Workspaces : Cardinality({x \in T : WsOf(x) = s}) <= WsCap[s]
         /\ \A f \in Workflows : Cardinality({x \in T : WorkflowOf[x] = f}) <= WfCap[f]
<1>1. /\ \A s \in Workspaces : WsCap[s] \in Nat
      /\ \A f \in Workflows : WfCap[f] \in Nat
  BY AdmissionAssumption
<1>2. ASSUME NEW A, NEW B, B \subseteq S, A \subseteq B \cup {e}
      PROVE  /\ Cardinality(A) \in Nat /\ Cardinality(B) \in Nat
             /\ Cardinality(A) <= Cardinality(B) + 1
             /\ e \notin A => Cardinality(A) <= Cardinality(B)
  <2>1. IsFiniteSet(B)
    BY <1>2, FS_Subset, AdmissionAssumption
  <2>2. /\ IsFiniteSet(B \cup {e})
        /\ Cardinality(B \cup {e}) = Cardinality(B)
             \/ Cardinality(B \cup {e}) = Cardinality(B) + 1
    BY <2>1, FS_AddElement
  <2>3. IsFiniteSet(A) /\ Cardinality(A) <= Cardinality(B \cup {e})
    BY <2>2, <1>2, FS_Subset
  <2>4. e \notin A => A \subseteq B
    BY <1>2
  <2>5. e \notin A => Cardinality(A) <= Cardinality(B)
    BY <2>1, <2>4, FS_Subset
  <2>6. Cardinality(A) \in Nat /\ Cardinality(B) \in Nat
        /\ Cardinality(B \cup {e}) \in Nat
    BY <2>1, <2>2, <2>3, FS_CardinalityType
  <2> QED
    BY <2>2, <2>3, <2>5, <2>6
<1>3. ASSUME NEW s \in Workspaces
      PROVE  Cardinality({x \in T : WsOf(x) = s}) <= WsCap[s]
  <2> DEFINE A == {x \in T : WsOf(x) = s}
             B == {x \in S : WsOf(x) = s}
  <2>1. B \subseteq S /\ A \subseteq B \cup {e}
    OBVIOUS
  <2>2. CASE WsOf(e) = s
    <3>1. Cardinality(B) < WsCap[s]
      BY <2>2 DEF Room
    <3>2. /\ Cardinality(A) \in Nat /\ Cardinality(B) \in Nat
          /\ Cardinality(A) <= Cardinality(B) + 1
      BY <2>1, <1>2
    <3> HIDE DEF A, B
    <3>3. Cardinality(A) <= WsCap[s]
      BY <3>1, <3>2, <1>1
    <3> QED
      BY <3>3 DEF A
  <2>3. CASE WsOf(e) # s
    <3>1. e \notin A
      BY <2>3
    <3>2. /\ Cardinality(A) \in Nat /\ Cardinality(B) \in Nat
          /\ Cardinality(A) <= Cardinality(B)
      BY <3>1, <2>1, <1>2
    <3>3. Cardinality(B) <= WsCap[s]
      OBVIOUS
    <3> HIDE DEF A, B
    <3>4. Cardinality(A) <= WsCap[s]
      BY <3>2, <3>3, <1>1
    <3> QED
      BY <3>4 DEF A
  <2> QED
    BY <2>2, <2>3
<1>4. ASSUME NEW f \in Workflows
      PROVE  Cardinality({x \in T : WorkflowOf[x] = f}) <= WfCap[f]
  <2> DEFINE A == {x \in T : WorkflowOf[x] = f}
             B == {x \in S : WorkflowOf[x] = f}
  <2>1. B \subseteq S /\ A \subseteq B \cup {e}
    OBVIOUS
  <2>2. CASE WorkflowOf[e] = f
    <3>1. Cardinality(B) < WfCap[f]
      BY <2>2 DEF Room
    <3>2. /\ Cardinality(A) \in Nat /\ Cardinality(B) \in Nat
          /\ Cardinality(A) <= Cardinality(B) + 1
      BY <2>1, <1>2
    <3> HIDE DEF A, B
    <3>3. Cardinality(A) <= WfCap[f]
      BY <3>1, <3>2, <1>1
    <3> QED
      BY <3>3 DEF A
  <2>3. CASE WorkflowOf[e] # f
    <3>1. e \notin A
      BY <2>3
    <3>2. /\ Cardinality(A) \in Nat /\ Cardinality(B) \in Nat
          /\ Cardinality(A) <= Cardinality(B)
      BY <3>1, <2>1, <1>2
    <3>3. Cardinality(B) <= WfCap[f]
      OBVIOUS
    <3> HIDE DEF A, B
    <3>4. Cardinality(A) <= WfCap[f]
      BY <3>2, <3>3, <1>1
    <3> QED
      BY <3>4 DEF A
  <2> QED
    BY <2>2, <2>3
<1> QED
  BY <1>3, <1>4
-------------------------------------------------------------------------------
(* The invariant.                                                          *)

LEMMA InitIInv == Init => IInv
<1> SUFFICES ASSUME Init PROVE IInv
  OBVIOUS
<1>1. PICK batch \in Batches :
        /\ status = [e \in Executions |-> IF e \in batch THEN "pending" ELSE "ended"]
        /\ queued = [e \in Executions |-> IF e \in batch THEN 1 ELSE 0]
  BY DEF Init
<1>2. TypeOK
  BY <1>1, AdmissionAssumption DEF Init, TypeOK, Status, Label, InTransaction
<1>3. LockHeld /\ CommitFits /\ ResumedStarted /\ HandsMatch /\ PendingHasJob
  BY <1>1 DEF Init, LockHeld, CommitFits, ResumedStarted, HandsMatch,
              PendingHasJob, InTransaction
<1>4. CapsHeld
  <2>1. Admitted = {}
    BY <1>1 DEF Admitted, Running
  <2>2. /\ \A s \in Workspaces : {e \in Admitted : WsOf(e) = s} = {}
        /\ \A f \in Workflows : {e \in Admitted : WorkflowOf[e] = f} = {}
    BY <2>1
  <2>3. \A s \in Workspaces : Cardinality({e \in Admitted : WsOf(e) = s}) = 0
    BY <2>2, FS_EmptySet, Zenon
  <2>4. \A f \in Workflows : Cardinality({e \in Admitted : WorkflowOf[e] = f}) = 0
    BY <2>2, FS_EmptySet, Zenon
  <2>5. /\ \A s \in Workspaces : 0 <= WsCap[s]
        /\ \A f \in Workflows : 0 <= WfCap[f]
    BY AdmissionAssumption
  <2>. QED
    BY <2>3, <2>4, <2>5, Zenon DEF CapsHeld
<1> QED
  BY <1>2, <1>3, <1>4 DEF IInv

LEMMA TypeStep == IInv /\ [Next]_vars => TypeOK'
<1> SUFFICES ASSUME IInv, [Next]_vars PROVE TypeOK'
  OBVIOUS
<1> USE DEF IInv, TypeOK, Goto, SetStatus, Unlock, env, Status, SegmentEnd, Label,
            InTransaction
<1>0. \A e \in Executions : WsOf(e) \in Workspaces
  BY PlacesType
<1>1. ASSUME NEW w \in Workers, NEW e \in Executions, PickJob(w, e) PROVE TypeOK'
  <2>1. pc' \in [Workers -> Label] /\ pc' = [pc EXCEPT ![w] = pc'[w]]
    BY <1>1 DEF PickJob
  <2>2. queued' \in [Executions -> Nat]
    BY <1>1 DEF PickJob
  <2>3. on' = [on EXCEPT ![w] = e]
    BY <1>1 DEF PickJob
  <2>. QED
    BY <2>1, <2>2, <2>3, <1>1 DEF PickJob
<1>2. ASSUME NEW w \in Workers, QueueWaitTimeout(w) PROVE TypeOK'
  BY <1>2 DEF QueueWaitTimeout
<1>3. ASSUME NEW w \in Workers, Lock(w) PROVE TypeOK'
  BY <1>3, <1>0 DEF Lock
<1>4. ASSUME NEW w \in Workers, CountAndUpdate(w) PROVE TypeOK'
  BY <1>4 DEF CountAndUpdate
<1>5. ASSUME NEW w \in Workers, Commit(w) PROVE TypeOK'
  BY <1>5 DEF Commit
<1>6. ASSUME NEW w \in Workers, CommitNothing(w) PROVE TypeOK'
  BY <1>6 DEF CommitNothing
<1>7. ASSUME NEW w \in Workers, Defer(w) PROVE TypeOK'
  BY <1>7 DEF Defer
<1>8. ASSUME NEW w \in Workers, SegmentEnds(w) PROVE TypeOK'
  BY <1>8 DEF SegmentEnds
<1>9. ASSUME NEW w \in Workers, Ack(w) PROVE TypeOK'
  BY <1>9 DEF Ack
<1>10. ASSUME NEW w \in Workers, Crash(w) PROVE TypeOK'
  BY <1>10 DEF Crash
<1>11. ASSUME NEW e \in Executions, Resume(e) PROVE TypeOK'
  BY <1>11 DEF Resume
<1>12. ASSUME NEW e \in Executions, ResumedSegmentEnds(e) PROVE TypeOK'
  BY <1>12 DEF ResumedSegmentEnds
<1>13. ASSUME NEW e \in Executions, Stop(e) PROVE TypeOK'
  BY <1>13 DEF Stop
<1>14. CASE UNCHANGED vars
  BY <1>14 DEF vars
<1> QED
  BY <1>1, <1>2, <1>3, <1>4, <1>5, <1>6, <1>7, <1>8, <1>9, <1>10, <1>11, <1>12,
     <1>13, <1>14 DEF Next, Work

\* Nothing takes the lock from a worker inside its transaction.
LEMMA LockStep == IInv /\ [Next]_vars => LockHeld'
<1> SUFFICES ASSUME IInv, [Next]_vars PROVE LockHeld'
  OBVIOUS
<1> USE DEF IInv, TypeOK, LockHeld, Goto, Unlock, Label, InTransaction, WsOf
<1>0. \A e \in Executions : WsOf(e) \in Workspaces
  BY PlacesType
<1>1. ASSUME NEW w \in Workers, NEW e \in Executions, PickJob(w, e) PROVE LockHeld'
  BY <1>1 DEF PickJob
<1>2. ASSUME NEW w \in Workers, QueueWaitTimeout(w) PROVE LockHeld'
  BY <1>2 DEF QueueWaitTimeout
<1>3. ASSUME NEW w \in Workers, Lock(w) PROVE LockHeld'
  <2>1. \A v \in Workers : v # w /\ pc[v] \in InTransaction =>
          WsOf(on[v]) # WsOf(on[w])
    BY <1>3, AdmissionAssumption DEF Lock
  <2>. QED
    BY <2>1, <1>3, <1>0 DEF Lock
<1>4. ASSUME NEW w \in Workers, CountAndUpdate(w) PROVE LockHeld'
  BY <1>4 DEF CountAndUpdate
<1>5. ASSUME NEW w \in Workers, Commit(w) PROVE LockHeld'
  BY <1>5, <1>0 DEF Commit
<1>6. ASSUME NEW w \in Workers, CommitNothing(w) PROVE LockHeld'
  BY <1>6, <1>0 DEF CommitNothing
<1>7. ASSUME NEW w \in Workers, Defer(w) PROVE LockHeld'
  BY <1>7 DEF Defer
<1>8. ASSUME NEW w \in Workers, SegmentEnds(w) PROVE LockHeld'
  BY <1>8 DEF SegmentEnds
<1>9. ASSUME NEW w \in Workers, Ack(w) PROVE LockHeld'
  BY <1>9 DEF Ack
<1>10. ASSUME NEW w \in Workers, Crash(w) PROVE LockHeld'
  BY <1>10, <1>0 DEF Crash
<1>11. ASSUME NEW e \in Executions, Resume(e) \/ ResumedSegmentEnds(e) \/ Stop(e)
       PROVE LockHeld'
  BY <1>11 DEF Resume, ResumedSegmentEnds, Stop
<1>12. CASE UNCHANGED vars
  BY <1>12 DEF vars
<1> QED
  BY <1>1, <1>2, <1>3, <1>4, <1>5, <1>6, <1>7, <1>8, <1>9, <1>10, <1>11, <1>12
     DEF Next, Work

\* What a step does to the committed status and to the resumed executions: only
\* the commit of an admission makes an execution run that no continuation resumed.
LEMMA AdmittedStep ==
  ASSUME IInv, [Next]_vars
  PROVE  \/ Admitted' \subseteq Admitted
         \/ \E w \in Workers : Commit(w) /\ Admitted' \subseteq Admitted \cup {on[w]}
<1> USE DEF IInv, TypeOK, Admitted, Running, SetStatus, Status, SegmentEnd
<1>1. ASSUME NEW w \in Workers, Commit(w)
      PROVE  Admitted' \subseteq Admitted \cup {on[w]}
  BY <1>1 DEF Commit, env
<1>2. ASSUME NEW w \in Workers, QueueWaitTimeout(w) \/ SegmentEnds(w)
      PROVE  Admitted' \subseteq Admitted
  BY <1>2 DEF QueueWaitTimeout, SegmentEnds, env
<1>3. ASSUME NEW e \in Executions, Resume(e) \/ ResumedSegmentEnds(e) \/ Stop(e)
      PROVE  Admitted' \subseteq Admitted
  BY <1>3 DEF Resume, ResumedSegmentEnds, Stop, env
<1>4. ASSUME UNCHANGED <<status, resumed>> PROVE Admitted' \subseteq Admitted
  BY <1>4
<1>5. \/ UNCHANGED <<status, resumed>>
      \/ \E w \in Workers : Commit(w) \/ QueueWaitTimeout(w) \/ SegmentEnds(w)
      \/ \E e \in Executions : Resume(e) \/ ResumedSegmentEnds(e) \/ Stop(e)
  BY DEF Next, Work, vars, env, PickJob, Lock, CountAndUpdate, CommitNothing, Defer,
         Ack, Crash
<1> QED
  BY <1>1, <1>2, <1>3, <1>4, <1>5

LEMMA CapsStep == IInv /\ [Next]_vars => CapsHeld'
<1> SUFFICES ASSUME IInv, [Next]_vars PROVE CapsHeld'
  OBVIOUS
<1>1. Admitted \in SUBSET Executions /\ Admitted' \in SUBSET Executions
  BY DEF Admitted, Running
<1>2. CASE Admitted' \subseteq Admitted
  <2>1. /\ \A s \in Workspaces : Cardinality({e \in Admitted : WsOf(e) = s}) <= WsCap[s]
        /\ \A f \in Workflows : Cardinality({e \in Admitted : WorkflowOf[e] = f}) <= WfCap[f]
    BY DEF IInv, CapsHeld
  <2>2. /\ \A s \in Workspaces : WsCap[s] \in Nat
        /\ \A f \in Workflows : WfCap[f] \in Nat
    BY AdmissionAssumption
  <2> DEFINE A == Admitted'
  <2>3. A \in SUBSET Admitted
    BY <1>2
  <2> HIDE DEF A
  <2>4. /\ \A s \in Workspaces : Cardinality({e \in A : WsOf(e) = s}) <= WsCap[s]
        /\ \A f \in Workflows : Cardinality({e \in A : WorkflowOf[e] = f}) <= WfCap[f]
    <3>1. ASSUME NEW s \in Workspaces
          PROVE  Cardinality({e \in A : WsOf(e) = s}) <= WsCap[s]
      <4>1. /\ Cardinality({e \in A : WsOf(e) = s}) \in Nat
            /\ Cardinality({e \in Admitted : WsOf(e) = s}) \in Nat
            /\ Cardinality({e \in A : WsOf(e) = s})
                 <= Cardinality({e \in Admitted : WsOf(e) = s})
        BY <1>1, <2>3, FewerFit
      <4> QED
        BY <4>1, <2>1, <2>2
    <3>2. ASSUME NEW f \in Workflows
          PROVE  Cardinality({e \in A : WorkflowOf[e] = f}) <= WfCap[f]
      <4>1. /\ Cardinality({e \in A : WorkflowOf[e] = f}) \in Nat
            /\ Cardinality({e \in Admitted : WorkflowOf[e] = f}) \in Nat
            /\ Cardinality({e \in A : WorkflowOf[e] = f})
                 <= Cardinality({e \in Admitted : WorkflowOf[e] = f})
        BY <1>1, <2>3, FewerFit
      <4> QED
        BY <4>1, <2>1, <2>2
    <3> QED
      BY <3>1, <3>2
  <2> QED
    BY <2>4 DEF A, CapsHeld, WsOf
<1>3. ASSUME NEW w \in Workers, Commit(w), Admitted' \subseteq Admitted \cup {on[w]}
      PROVE  CapsHeld'
  <2>1. on[w] \in Executions /\ Room(Admitted, on[w])
    BY <1>3 DEF IInv, TypeOK, CommitFits, Commit
  <2>2. /\ \A s \in Workspaces : Cardinality({x \in Admitted : WsOf(x) = s}) <= WsCap[s]
        /\ \A f \in Workflows : Cardinality({x \in Admitted : WorkflowOf[x] = f}) <= WfCap[f]
    BY DEF IInv, CapsHeld
  <2> DEFINE A == Admitted'
  <2>3. A \in SUBSET Executions /\ A \subseteq Admitted \cup {on[w]}
    BY <1>1, <1>3
  <2> HIDE DEF A
  <2>4. /\ \A s \in Workspaces : Cardinality({x \in A : WsOf(x) = s}) <= WsCap[s]
        /\ \A f \in Workflows : Cardinality({x \in A : WorkflowOf[x] = f}) <= WfCap[f]
    BY <1>1, <2>1, <2>2, <2>3, AddedFits
  <2> QED
    BY <2>4 DEF A, CapsHeld, WsOf
<1> QED
  BY <1>2, <1>3, AdmittedStep

\* What an admission counted still holds when it commits: whoever else commits
\* meanwhile holds the lock of another workspace.
LEMMA CommitStep == IInv /\ [Next]_vars => CommitFits'
<1> SUFFICES ASSUME IInv, [Next]_vars, NEW v \in Workers, pc'[v] = "commit"
             PROVE  status'[on'[v]] = "pending" /\ Room(Admitted, on[v])' /\ on'[v] = on[v]
  BY DEF CommitFits, Room, WsOf, Admitted, Running
<1> DEFINE e == on[v]
<1>1. Admitted \in SUBSET Executions /\ Admitted' \in SUBSET Executions
  BY DEF Admitted, Running
<1>2. ASSUME pc[v] = "count", CountAndUpdate(v)
      PROVE  status'[on'[v]] = "pending" /\ Room(Admitted, on[v])' /\ on'[v] = on[v]
  <2>1. e \in Executions /\ status[e] = "pending" /\ Room(Running, e)
    BY <1>2 DEF CountAndUpdate, Goto, IInv, TypeOK
  <2>2. Admitted \in SUBSET Running /\ Running \in SUBSET Executions
    BY DEF Admitted, Running
  <2>3. Room(Admitted, e)
    BY <2>1, <2>2, RoomShrinks
  <2>. QED
    BY <1>2, <2>1, <2>3 DEF CountAndUpdate, env, Room, WsOf, Admitted, Running
<1>3. ASSUME pc[v] = "commit", on'[v] = on[v], Admitted' \subseteq Admitted,
             status'[e] = status[e]
      PROVE  status'[on'[v]] = "pending" /\ Room(Admitted, on[v])' /\ on'[v] = on[v]
  <2>1. e \in Executions /\ status[e] = "pending" /\ Room(Admitted, e)
    BY <1>3 DEF IInv, TypeOK, CommitFits
  <2> DEFINE A == Admitted'
  <2>2. A \in SUBSET Admitted
    BY <1>3
  <2> HIDE DEF A
  <2>3. Room(A, e)
    BY <1>1, <2>1, <2>2, RoomShrinks
  <2> QED
    BY <1>3, <2>1, <2>3 DEF A, Room, WsOf
<1>4. ASSUME NEW w \in Workers, w # v, pc[v] = "commit", Commit(w),
             Admitted' \subseteq Admitted \cup {on[w]}
      PROVE  status'[on'[v]] = "pending" /\ Room(Admitted, on[v])' /\ on'[v] = on[v]
  <2>1. /\ e \in Executions /\ status[e] = "pending" /\ Room(Admitted, e)
        /\ on[w] \in Executions
    BY <1>4 DEF IInv, TypeOK, CommitFits, Commit
  <2>2. WsOf(on[w]) # WsOf(e)
    BY <1>4, AdmissionAssumption DEF IInv, LockHeld, Commit, InTransaction
  <2>3. WorkflowOf[on[w]] # WorkflowOf[e]
    BY <2>2 DEF WsOf
  <2> DEFINE A == Admitted' B == {x \in A : x # on[w]}
  <2>4. B \in SUBSET Admitted
    BY <1>4
  <2>5. Room(B, e)
    <3> HIDE DEF B
    <3> QED
      BY <1>1, <2>1, <2>4, RoomShrinks
  <2>6. /\ {x \in A : WsOf(x) = WsOf(e)} = {x \in B : WsOf(x) = WsOf(e)}
        /\ {x \in A : WorkflowOf[x] = WorkflowOf[e]}
             = {x \in B : WorkflowOf[x] = WorkflowOf[e]}
    BY <2>2, <2>3
  <2>7. Room(A, e)
    <3> HIDE DEF A, B
    <3> QED
      BY <2>5, <2>6 DEF Room
  <2>8. status'[e] = "pending" /\ on'[v] = on[v]
    BY <1>4, <2>1, <2>2 DEF Commit, SetStatus, env, IInv, TypeOK
  <2> QED
    BY <2>7, <2>8 DEF Room, WsOf
<1>5. \/ pc[v] = "count" /\ CountAndUpdate(v)
      \/ pc[v] = "commit" /\ on'[v] = on[v] /\ status'[e] = status[e]
      \/ pc[v] = "commit" /\ \E w \in Workers \ {v} : Commit(w)
  <2> USE DEF IInv, TypeOK, CommitFits, Goto, SetStatus, RowFree, Label, InTransaction
  <2>1. ASSUME NEW w \in Workers, Work(w)
        PROVE  \/ pc[v] = "count" /\ CountAndUpdate(v)
               \/ pc[v] = "commit" /\ on'[v] = on[v] /\ status'[e] = status[e]
               \/ pc[v] = "commit" /\ \E u \in Workers \ {v} : Commit(u)
    <3>1. CASE QueueWaitTimeout(w)
      BY <3>1 DEF QueueWaitTimeout
    <3>2. CASE Lock(w)
      BY <3>2 DEF Lock
    <3>3. CASE CountAndUpdate(w)
      BY <3>3 DEF CountAndUpdate
    <3>4. CASE Commit(w)
      BY <3>4 DEF Commit
    <3>5. CASE CommitNothing(w)
      BY <3>5 DEF CommitNothing
    <3>6. CASE Defer(w)
      BY <3>6 DEF Defer
    <3>7. CASE SegmentEnds(w)
      BY <3>7 DEF SegmentEnds
    <3>8. CASE Ack(w)
      BY <3>8 DEF Ack
    <3> QED
      BY <2>1, <3>1, <3>2, <3>3, <3>4, <3>5, <3>6, <3>7, <3>8 DEF Work
  <2>2. ASSUME NEW w \in Workers, NEW x \in Executions, PickJob(w, x)
        PROVE  pc[v] = "commit" /\ on'[v] = on[v] /\ status'[e] = status[e]
    BY <2>2 DEF PickJob
  <2>3. ASSUME NEW w \in Workers, Crash(w)
        PROVE  pc[v] = "commit" /\ on'[v] = on[v] /\ status'[e] = status[e]
    BY <2>3 DEF Crash
  <2>4. ASSUME NEW x \in Executions, Resume(x) \/ ResumedSegmentEnds(x) \/ Stop(x)
        PROVE  pc[v] = "commit" /\ on'[v] = on[v] /\ status'[e] = status[e]
    BY <2>4 DEF Resume, ResumedSegmentEnds, Stop, env
  <2>5. CASE UNCHANGED vars
    BY <2>5 DEF vars
  <2> QED
    BY <2>1, <2>2, <2>3, <2>4, <2>5 DEF Next
<1>6. pc[v] = "commit" => ~Commit(v)
  BY DEF Commit, Goto, IInv, TypeOK
<1>7. \/ Admitted' \subseteq Admitted
      \/ \E w \in Workers : Commit(w) /\ Admitted' \subseteq Admitted \cup {on[w]}
  BY AdmittedStep
<1> QED
  BY <1>2, <1>3, <1>4, <1>5, <1>6, <1>7

\* Nothing makes an execution pending again, and only a parked one is resumed.
LEMMA StartedStep ==
  ASSUME IInv, [Next]_vars
  PROVE  /\ \A e \in Executions : status'[e] = "pending" => status[e] = "pending"
         /\ ResumedStarted'
<1> USE DEF IInv, TypeOK, ResumedStarted, CommitFits, SetStatus, SegmentEnd, Status
<1>1. ASSUME NEW w \in Workers, Commit(w) \/ QueueWaitTimeout(w) \/ SegmentEnds(w)
      PROVE  /\ \A e \in Executions : status'[e] = "pending" => status[e] = "pending"
             /\ ResumedStarted'
  BY <1>1 DEF Commit, QueueWaitTimeout, SegmentEnds, env
<1>2. ASSUME NEW x \in Executions, Resume(x) \/ ResumedSegmentEnds(x) \/ Stop(x)
      PROVE  /\ \A e \in Executions : status'[e] = "pending" => status[e] = "pending"
             /\ ResumedStarted'
  BY <1>2 DEF Resume, ResumedSegmentEnds, Stop, env
<1>3. \/ UNCHANGED <<status, resumed>>
      \/ \E w \in Workers : Commit(w) \/ QueueWaitTimeout(w) \/ SegmentEnds(w)
      \/ \E e \in Executions : Resume(e) \/ ResumedSegmentEnds(e) \/ Stop(e)
  BY DEF Next, Work, vars, env, PickJob, Lock, CountAndUpdate, CommitNothing, Defer,
         Ack, Crash
<1> QED
  BY <1>1, <1>2, <1>3

\* Whoever takes the last job of a pending execution keeps it until the execution
\* has left the queue or has a job again.
LEMMA JobStep == IInv /\ [Next]_vars => HandsMatch' /\ PendingHasJob'
<1> SUFFICES ASSUME IInv, [Next]_vars PROVE HandsMatch' /\ PendingHasJob'
  OBVIOUS
<1>0. \A e \in Executions : status'[e] = "pending" => status[e] = "pending"
  BY StartedStep
<1> USE DEF IInv, TypeOK, HandsMatch, PendingHasJob, Goto, Label, InTransaction
<1>1. ASSUME NEW w \in Workers, NEW e \in Executions, PickJob(w, e)
      PROVE  HandsMatch' /\ PendingHasJob'
  <2>1. HandsMatch'
    BY <1>0, <1>1, AdmissionAssumption DEF PickJob
  <2>2. ASSUME NEW x \in Executions, status'[x] = "pending"
        PROVE  queued'[x] > 0 \/ \E v \in Workers : on'[v] = x /\ pc'[v] # "ack"
    <3>1. CASE x = e
      BY <3>1, <2>2, <1>1 DEF PickJob
    <3>2. CASE x # e /\ queued[x] > 0
      BY <3>2, <1>1 DEF PickJob
    <3>3. CASE x # e /\ \E v \in Workers : on[v] = x /\ pc[v] # "ack"
      BY <3>3, <1>1, AdmissionAssumption DEF PickJob
    <3> QED
      BY <2>2, <1>0, <3>1, <3>2, <3>3
  <2> QED
    BY <2>1, <2>2
<1>2. ASSUME NEW w \in Workers, QueueWaitTimeout(w) PROVE HandsMatch' /\ PendingHasJob'
  BY <1>0, <1>2 DEF QueueWaitTimeout, SetStatus
<1>3. ASSUME NEW w \in Workers, Lock(w) \/ CountAndUpdate(w) \/ CommitNothing(w)
      PROVE  HandsMatch' /\ PendingHasJob'
  BY <1>0, <1>3 DEF Lock, CountAndUpdate, CommitNothing
<1>4. ASSUME NEW w \in Workers, Commit(w) PROVE HandsMatch' /\ PendingHasJob'
  BY <1>0, <1>4 DEF Commit, SetStatus
<1>5. ASSUME NEW w \in Workers, Defer(w) PROVE HandsMatch' /\ PendingHasJob'
  BY <1>0, <1>5 DEF Defer
<1>6. ASSUME NEW w \in Workers, SegmentEnds(w) PROVE HandsMatch' /\ PendingHasJob'
  BY <1>0, <1>6 DEF SegmentEnds, SetStatus
<1>7. ASSUME NEW w \in Workers, Ack(w) PROVE HandsMatch' /\ PendingHasJob'
  BY <1>0, <1>7 DEF Ack
<1>8. ASSUME NEW w \in Workers, Crash(w) PROVE HandsMatch' /\ PendingHasJob'
  BY <1>0, <1>8 DEF Crash
<1>9. ASSUME NEW e \in Executions, Resume(e) \/ ResumedSegmentEnds(e) \/ Stop(e)
      PROVE  HandsMatch' /\ PendingHasJob'
  BY <1>0, <1>9 DEF Resume, ResumedSegmentEnds, Stop, env
<1>10. CASE UNCHANGED vars
  BY <1>10 DEF vars
<1> QED
  BY <1>1, <1>2, <1>3, <1>4, <1>5, <1>6, <1>7, <1>8, <1>9, <1>10 DEF Next, Work

LEMMA IInvStep == IInv /\ [Next]_vars => IInv'
BY TypeStep, LockStep, CommitStep, CapsStep, StartedStep, JobStep DEF IInv

\* The invariant of admission, for every instance.
THEOREM Invariance == Spec => []IInv
<1>1. Init => IInv
  BY InitIInv
<1>2. IInv /\ [Next]_vars => IInv'
  BY IInvStep
<1> QED
  BY <1>1, <1>2, PTL DEF Spec

\* Admission is well typed.
THEOREM TypeCorrect == Spec => []TypeOK
<1>1. IInv => TypeOK
  BY DEF IInv
<1> QED
  BY <1>1, Invariance, PTL

\* Admissions that interleave, with the locking and counting of
\* admitExecutionOrDefer, never overbook a workspace or a workflow.
THEOREM CapsAlwaysHeld == Spec => []CapsHeld
<1>1. IInv => CapsHeld
  BY DEF IInv
<1> QED
  BY <1>1, Invariance, PTL

\* Refusals, deferrals and a crash never lose the last job of a pending execution.
THEOREM PendingNeverLost == Spec => []PendingHasJob
<1>1. IInv => PendingHasJob
  BY DEF IInv
<1> QED
  BY <1>1, Invariance, PTL
-------------------------------------------------------------------------------
(* The refinement.                                                         *)

slotBar == [e \in Executions |-> SlotOf(e)]

LEMMA RefineStep ==
  ASSUME IInv, [Next]_vars
  PROVE  [\E e \in Executions : Slots!Take(e) \/ Slots!Leave(e)]_slotBar
<1> USE DEF IInv, TypeOK, SetStatus, Status, SegmentEnd
<1>1. \A e \in Executions : slotBar[e] = SlotOf(e) /\ slotBar'[e] = SlotOf(e)'
  BY DEF slotBar, SlotOf
<1>2. ASSUME NEW e \in Executions,
             \A x \in Executions \ {e} : status'[x] = status[x] /\ (x \in resumed' <=> x \in resumed),
             SlotOf(e) \in {"queued", "holding"}, SlotOf(e)' = "gone"
      PROVE  Slots!Leave(e)
  <2>1. \A x \in Executions \ {e} : SlotOf(x)' = SlotOf(x)
    BY <1>2 DEF SlotOf
  <2>2. slotBar' = [slotBar EXCEPT ![e] = "gone"]
    BY <2>1, <1>2 DEF slotBar
  <2>. QED
    BY <2>2, <1>1, <1>2 DEF Slots!Leave, slotBar
<1>3. ASSUME NEW w \in Workers, NEW e \in Executions, e = on[w], Commit(w)
      PROVE  Slots!Take(e)
  <2>1. e \in Executions /\ status[e] = "pending" /\ Room(Admitted, e) /\ e \notin resumed
    BY <1>3 DEF Commit, CommitFits, ResumedStarted
  <2>2. /\ status' = [status EXCEPT ![e] = "running"] /\ resumed' = resumed
    BY <1>3 DEF Commit, env
  <2>3. Slots!Holding = Admitted
    BY DEF Slots!Holding, SlotOf, Admitted, Running
  <2>4. Slots!Room(Admitted, e)
    <3>1. \A S : Slots!Cardinality(S) = Cardinality(S)
      BY Zenon DEF Slots!Cardinality, Cardinality
    <3>. QED
      BY <2>1, <3>1 DEF Room, Slots!Room, Slots!InWorkspace, Slots!InWorkflow, WsOf
  <2>5. \A x \in Executions \ {e} : SlotOf(x)' = SlotOf(x)
    BY <2>1, <2>2 DEF SlotOf
  <2>6. SlotOf(e) = "queued" /\ SlotOf(e)' = "holding"
    BY <2>1, <2>2 DEF SlotOf
  <2>7. slotBar' = [slotBar EXCEPT ![e] = "holding"]
    BY <2>5, <2>6 DEF slotBar
  <2>. QED
    BY <2>1, <2>3, <2>4, <2>6, <2>7, <1>1 DEF Slots!Take, slotBar
<1>4. ASSUME NEW w \in Workers, NEW e \in Executions, e = on[w],
             QueueWaitTimeout(w) \/ SegmentEnds(w)
      PROVE  Slots!Leave(e) \/ UNCHANGED slotBar
  <2>1. resumed' = resumed
    BY <1>4 DEF QueueWaitTimeout, SegmentEnds, env
  <2>2. \/ UNCHANGED status
        \/ /\ status[e] \in {"pending", "running"}
           /\ \E s \in SegmentEnd : status' = [status EXCEPT ![e] = s]
    BY <1>4 DEF QueueWaitTimeout, SegmentEnds
  <2>3. CASE SlotOf(e) = "gone" \/ UNCHANGED status
    <3>1. \A x \in Executions : SlotOf(x)' = SlotOf(x)
      BY <2>1, <2>2, <2>3 DEF SlotOf
    <3>. QED
      BY <3>1 DEF slotBar
  <2>4. CASE SlotOf(e) # "gone" /\ ~UNCHANGED status
    <3>1. SlotOf(e) \in {"queued", "holding"} /\ SlotOf(e)' = "gone"
      BY <2>1, <2>2, <2>4 DEF SlotOf
    <3>. QED
      BY <3>1, <2>1, <2>2, <2>4, <1>2
  <2>. QED
    BY <2>3, <2>4
<1>5. ASSUME NEW e \in Executions, Resume(e) PROVE UNCHANGED slotBar
  <2>1. \A x \in Executions : SlotOf(x)' = SlotOf(x)
    BY <1>5 DEF Resume, SlotOf
  <2>. QED
    BY <2>1 DEF slotBar
<1>6. ASSUME NEW e \in Executions, ResumedSegmentEnds(e) PROVE UNCHANGED slotBar
  <2>1. \A x \in Executions : SlotOf(x)' = SlotOf(x)
    BY <1>6 DEF ResumedSegmentEnds, env, SlotOf
  <2>. QED
    BY <2>1 DEF slotBar
<1>7. ASSUME NEW e \in Executions, Stop(e) PROVE Slots!Leave(e) \/ UNCHANGED slotBar
  <2>1. /\ status[e] \in {"pending", "running"} /\ status' = [status EXCEPT ![e] = "ended"]
        /\ resumed' = resumed
    BY <1>7 DEF Stop, env
  <2>2. CASE SlotOf(e) = "gone"
    <3>1. \A x \in Executions : SlotOf(x)' = SlotOf(x)
      BY <2>1, <2>2 DEF SlotOf
    <3>. QED
      BY <3>1 DEF slotBar
  <2>3. CASE SlotOf(e) # "gone"
    <3>1. SlotOf(e) \in {"queued", "holding"} /\ SlotOf(e)' = "gone"
      BY <2>1, <2>3 DEF SlotOf
    <3>. QED
      BY <3>1, <2>1, <1>2
  <2>. QED
    BY <2>2, <2>3
<1>8. ASSUME UNCHANGED <<status, resumed>> PROVE UNCHANGED slotBar
  BY <1>8 DEF slotBar, SlotOf
<1>9. \/ UNCHANGED <<status, resumed>>
      \/ \E w \in Workers : Commit(w) \/ QueueWaitTimeout(w) \/ SegmentEnds(w)
      \/ \E e \in Executions : Resume(e) \/ ResumedSegmentEnds(e) \/ Stop(e)
  BY DEF Next, Work, vars, env, PickJob, Lock, CountAndUpdate, CommitNothing, Defer,
         Ack, Crash
<1>10. \A w \in Workers :
         Commit(w) \/ QueueWaitTimeout(w) \/ SegmentEnds(w) => on[w] \in Executions
  BY DEF Commit, QueueWaitTimeout, SegmentEnds
<1> QED
  BY <1>3, <1>4, <1>5, <1>6, <1>7, <1>8, <1>9, <1>10

\* The lock, the count and the committed rows together implement the pool of
\* slots: an execution takes its slots once, only when there is room for it.
THEOREM AdmissionRefines == Spec => ImplementsSlotPool
<1>1. Init => Slots!SlotInit
  <2> SUFFICES ASSUME Init PROVE Slots!SlotInit
    OBVIOUS
  <2>1. \A e \in Executions : SlotOf(e) \in {"queued", "gone"}
    BY DEF Init, SlotOf
  <2> QED
    BY <2>1 DEF Slots!SlotInit
<1>2. IInv /\ [Next]_vars
        => [\E e \in Executions : Slots!Take(e) \/ Slots!Leave(e)]_slotBar
  BY RefineStep
<1> QED
  BY <1>1, <1>2, Invariance, PTL DEF Spec, ImplementsSlotPool, Slots!SlotSpec, slotBar
=============================================================================
