----------------------------- MODULE MCAdmission -----------------------------
(***************************************************************************)
(* Two workspaces: in the first the cap of the workspace binds, in the     *)
(* second the cap of the workflow.                                         *)
(***************************************************************************)
EXTENDS Admission, TLC

CONSTANTS e1, e2, e3, e4, left1, left2, right, tight, wide

MCExecutions == {e1, e2, e3, e4}
MCWorkflows == {left1, left2, right}
MCWorkspaces == {tight, wide}
MCWorkflowOf == (e1 :> left1) @@ (e2 :> left2) @@ (e3 :> right) @@ (e4 :> right)
MCWorkspaceOf == (left1 :> tight) @@ (left2 :> tight) @@ (right :> wide)
MCBatches == {{e1, e2, e3}, {e3, e4}}
MCWfCap == [f \in MCWorkflows |-> 1]
MCWsCap == (tight :> 1) @@ (wide :> 2)
=============================================================================
