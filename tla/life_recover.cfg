SPECIFICATION FairSpec
CONSTANTS
  Workers = {w1, w2}
  JobIds = {j1, j2}
  NoJob = NoJob
  N = 2
  Kind <- AiThenForm
  Policy <- StopThenSkip
  MaxRows = 5
  CapsTaken = FALSE
  LogMayFail = TRUE
  Crashes = 2
  Losses = 0
  Ages = 0
  Submits = 0
  Stops = 0
  Budget <- MCBudget
CHECK_DEADLOCK FALSE
INVARIANTS
  ClosedWhenQuiet
PROPERTIES
  RunningRests
