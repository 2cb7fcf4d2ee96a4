------------------------------ MODULE SlotPool ------------------------------
(***************************************************************************)
(* What the admission of executions promises: a workspace and a workflow   *)
(* each have a number of slots, a queued execution may take one of each,   *)
(* it gives them back at most once and never takes them again.             *)
(***************************************************************************)
EXTENDS Integers, FiniteSets

CONSTANTS
  Executions, Workflows, Workspaces,
  WorkflowOf,   \* the workflow an execution runs
  WorkspaceOf,  \* the workspace that owns a workflow
  WfCap,        \* max_concurrent_executions of a workflow
  WsCap         \* max_concurrent_executions of a workspace

VARIABLE slot

InWorkflow(S, f) == {e \in S : WorkflowOf[e] = f}
InWorkspace(S, s) == {e \in S : WorkspaceOf[WorkflowOf[e]] = s}

\* Room for one more execution like e next to the executions of S.
Room(S, e) ==
  /\ Cardinality(InWorkspace(S, WorkspaceOf[WorkflowOf[e]]))
       < WsCap[WorkspaceOf[WorkflowOf[e]]]
  /\ Cardinality(InWorkflow(S, WorkflowOf[e])) < WfCap[WorkflowOf[e]]

Holding == {e \in Executions : slot[e] = "holding"}

SlotInit == slot \in [Executions -> {"queued", "gone"}]

Take(e) ==
  /\ slot[e] = "queued" /\ Room(Holding, e)
  /\ slot' = [slot EXCEPT ![e] = "holding"]

Leave(e) ==
  /\ slot[e] \in {"queued", "holding"}
  /\ slot' = [slot EXCEPT ![e] = "gone"]

SlotSpec == SlotInit /\ [][\E e \in Executions : Take(e) \/ Leave(e)]_slot
=============================================================================
