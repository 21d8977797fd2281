CONSTANTS
  title = title
  body = body
  assignee = assignee
  state = state
  w1 = w1
  w2 = w2
  u1 = u1
  u2 = u2
  NoRow = NoRow
  Fields <- MCTitle
  StatusFields <- MCNone
  LabelFields <- MCNone
  OmittedFields <- MCNone
  FlaggedFields <- MCNone
  Empty <- MCEmpty
  Values <- MCThree
  Workers <- MCTwoWorkers
  Users <- MCNone
  Resolutions <- KeepLocal
  MaxTime = 5
  MaxJobs = 1
  MaxErrors = 0
SPECIFICATION Spec
PROPERTIES
  LinkNeverBack
CHECK_DEADLOCK FALSE
