CONSTANTS
  r1 = r1
  r2 = r2
  w1 = w1
  w2 = w2
  c1 = c1
  NoRun = NoRun
  Runs <- MCRuns
  Workers <- MCTwoWorkers
  Changes <- MCChange
  ApiKinds <- AllKinds
  RetryLimit = 2
  MaxAttempts = 2
  Overlap = 1
  Skew = 1
  MaxTime = 2
  MaxErrors = 1
  MaxFaults = 1
  MaxToggles = 1
SPECIFICATION Spec
SYMMETRY Symmetry
INVARIANTS
  OnePullPerPair
  NothingSkipped
PROPERTIES
  CursorAdvances
CHECK_DEADLOCK FALSE
