CONSTANTS
  title = title
  body = body
  assignee = assignee
  state = state
  w1 = w1
  w2 = w2
  u1 = u1
  u2 = u2
  NoRow = NoRow
  Fields <- MCThreeKinds
  StatusFields <- MCState
  LabelFields <- MCNone
  OmittedFields <- MCBody
  FlaggedFields <- MCAssignee
  Empty <- MCEmpty
  Values <- MCValues
  Workers <- MCOneWorker
  Users <- MCOneUser
  Resolutions <- AnyResolution
  MaxTime = 4
  MaxJobs = 2
  MaxErrors = 1
SPECIFICATION Spec
INVARIANTS
  Agreement
  BaseIsTrue
PROPERTIES
  LinkNeverBack
  NoBlindEdit
CHECK_DEADLOCK FALSE
