SPECIFICATION FairSpec
CONSTANTS
  Workers = {w1, w2}
  JobIds = {j1, j2}
  NoJob = NoJob
  N = 2
  Kind <- TwoPlain
  Policy <- StopThenSkip
  MaxRows = 3
  CapsTaken = TRUE
  LogMayFail = FALSE
  Crashes = 1
  Losses = 0
  Ages = 0
  Submits = 0
  Stops = 0
  Budget <- MCBudget
CHECK_DEADLOCK FALSE
PROPERTIES
  NoCompletedRerun
