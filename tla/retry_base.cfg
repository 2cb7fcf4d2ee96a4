SPECIFICATION Spec
CONSTANTS
  Workers = {w1, w2}
  Commands = {c1, c2}
  MaxRows = 4
  FirstRows <- TwoRows
  Crashes = 1
  PublishFailures = 1
  SetUpFailures = 1
  Stops = 1
  Budget <- MCBudget
SYMMETRY Symmetric
CHECK_DEADLOCK FALSE
INVARIANTS
  TypeOK
  TurnOnce
  RetryOnce
  OneReentry
  ClosedWhenQuiet
  CompletionAnnounced
PROPERTIES
  ReentryRespectsEnd
  FollowsStatusMachine
