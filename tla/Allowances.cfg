CONSTANTS
  t1 = t1
  t2 = t2
  t3 = t3
  Tokens <- ThreeTokens
  QueueMax = 2
  MaxEntries = 1
  MaxAttempts = 2
SPECIFICATION FairSpec
INVARIANTS ScheduledIsNotLost
PROPERTIES AllowanceReturns
