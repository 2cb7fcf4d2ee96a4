SPECIFICATION Spec
CONSTANTS
  Workers = {w1, w2}
  Commands = {c1, c2}
  MaxRows = 3
  FirstRows <- OneRow
  Crashes = 0
  PublishFailures = 0
  SetUpFailures = 0
  Stops = 0
  Budget <- MCBudget
CHECK_DEADLOCK FALSE
INVARIANTS
  ReparkResumable
