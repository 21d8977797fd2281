CONSTANTS
  j1 = j1
  j2 = j2
  w1 = w1
  w2 = w2
  NoJob = NoJob
  Jobs <- MCJobs
  Workers <- MCWorkers
  RetryLimit = 2
  BackoffCap = 3
  DeferBump = 2
  Horizon = 5
  MaxDeferrals = 1
  MaxFaults = 1
SPECIFICATION FairSpec
INVARIANTS
  Exclusive
  WritesOwnClaim
  StrandedBounded
  RetryBudget
PROPERTIES
  SettledIsFinal
  ImplementsLedger
  SettledOrStranded
CHECK_DEADLOCK FALSE
