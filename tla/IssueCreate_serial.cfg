CONSTANTS
  q1 = q1
  q2 = q2
  j1 = j1
  j2 = j2
  j3 = j3
  i1 = i1
  i2 = i2
  i3 = i3
  w1 = w1
  w2 = w2
  NoJob = NoJob
  NoIssue = NoIssue
  Requests <- MCRequests
  Jobs <- MCJobs
  Issues <- MCIssues
  Workers <- MCOneWorker
  RetryLimit = 3
  MaxTouches = 2
  MaxErrors = 2
  MaxLost = 1
SPECIFICATION FairSpec
INVARIANTS
  IssuesExplained
  TwinsExplained
  SucceededIsLinked
PROPERTIES
  NoCreateAfterLink
  RunEnds
CHECK_DEADLOCK FALSE
