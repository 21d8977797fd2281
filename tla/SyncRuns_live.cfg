CONSTANTS
  r1 = r1
  r2 = r2
  w1 = w1
  w2 = w2
  c1 = c1
  NoRun = NoRun
  Runs <- MCRuns
  Workers <- MCTwoWorkers
  Changes <- MCChange
  ApiKinds <- Imports
  RetryLimit = 2
  MaxAttempts = 2
  Overlap = 0
  Skew = 0
  MaxTime = 2
  MaxErrors = 1
  MaxFaults = 0
  MaxToggles = 0
SPECIFICATION FairSpec
PROPERTIES
  ChangesArrive
  PullsRecur
CHECK_DEADLOCK FALSE
