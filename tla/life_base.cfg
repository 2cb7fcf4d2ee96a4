SPECIFICATION Spec
CONSTANTS
  Workers = {w1, w2}
  JobIds = {j1, j2, j3}
  NoJob = NoJob
  N = 2
  Kind <- AiThenForm
  Policy <- StopThenSkip
  MaxRows = 2
  CapsTaken = TRUE
  LogMayFail = TRUE
  Crashes = 0
  Losses = 1
  Ages = 0
  Submits = 3
  Stops = 1
  Budget <- MCBudget
SYMMETRY Symmetric
CHECK_DEADLOCK FALSE
INVARIANTS
  TypeOK
  OneSegment
  WaitingPaired
  AnnouncedOnce
  TidyUnlessStopped
PROPERTIES
  RowsMoveOn
  NoCompletedRerun
  ImplementsStatusMachine
