SPECIFICATION FairSpec
CONSTANTS
  Pods = {p1}
  Workers = {w1, w2}
  Keyed = Keyed
  NoJob = NoJob
  MaxRateLimitRetries = 2
  MaxToken = 3
  Crashes = 1
  LostAnswers = 1
  Grants = 1
  Budget <- MCBudget
INVARIANTS TypeOK NewestInHand KeyedNeverDemotes
PROPERTIES CallsEnd
