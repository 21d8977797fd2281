CONSTANTS
  r1 = r1
  r2 = r2
  w1 = w1
  w2 = w2
  c1 = c1
  NoRun = NoRun
  Runs <- MCRuns
  Workers <- MCOneWorker
  Changes <- MCChange
  ApiKinds <- PollsOnly
  RetryLimit = 2
  MaxAttempts = 2
  Overlap = 1
  Skew = 1
  MaxTime = 1
  MaxErrors = 0
  MaxFaults = 1
  MaxToggles = 0
SPECIFICATION FairSpec
PROPERTIES
  PullsRecur
CHECK_DEADLOCK FALSE
