SPECIFICATION FairSpec
CONSTANTS
  e1 = e1
  e2 = e2
  e3 = e3
  e4 = e4
  left1 = left1
  left2 = left2
  right = right
  tight = tight
  wide = wide
  Executions <- MCExecutions
  Workflows <- MCWorkflows
  Workspaces <- MCWorkspaces
  WorkflowOf <- MCWorkflowOf
  WorkspaceOf <- MCWorkspaceOf
  WfCap <- MCWfCap
  WsCap <- MCWsCap
  Batches <- MCBatches
  Workers = {w1, w2}
  Nobody = Nobody
  Nothing = Nothing
  MaxResumes = 1
CHECK_DEADLOCK FALSE
INVARIANTS TypeOK CapsHeld PendingHasJob
PROPERTIES PendingLeaves ImplementsSlotPool
