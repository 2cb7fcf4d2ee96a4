SPECIFICATION Spec
CONSTANTS
  Pods = {p1}
  Workers = {w1}
  Keyed = Keyed
  NoJob = NoJob
  MaxRateLimitRetries = 2
  MaxToken = 3
  Crashes = 0
  LostAnswers = 0
  Grants = 1
  Budget <- MCBudget
INVARIANTS NothingOverwritten
