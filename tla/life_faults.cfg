SPECIFICATION Spec
CONSTANTS
  Workers = {w1, w2}
  JobIds = {j1, j2}
  NoJob = NoJob
  N = 1
  Kind <- OneAi
  Policy <- OneStop
  MaxRows = 2
  CapsTaken = TRUE
  LogMayFail = TRUE
  Crashes = 1
  Losses = 0
  Ages = 1
  Submits = 1
  Stops = 1
  Budget <- MCBudget
SYMMETRY Symmetric
CHECK_DEADLOCK FALSE
INVARIANTS
  AnnouncedTrue
PROPERTIES
  TerminalIsFinal
