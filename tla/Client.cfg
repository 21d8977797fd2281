CONSTANTS
  Order <- MCOrder
  TaskIds = {"t1", "t2"}
  WsStatuses = {"a", "b"}
  FirstStatus = "a"
  WsScenes <- MCWsScenes
  CardOrder <- MCCardOrder
  Columns = {"A", "B"}
  MaxRefreshes = 1
  IgConnections = {"c1", "c2"}
  IgConflicts = {"k"}
  AssigneeConflict = "k"
  IgLogins = {"u"}
  NoConnection = "none"
  IgScenes <- MCIgScenes
  SePages = {"p1", "p2"}
  SeStatuses = {"s1", "s2"}
  SeUsers = {"u"}
  NoPage = "none"
  SeScenes <- MCSeScenes
  IbRequests = {"r1", "r2"}
  IbTitleKey <- MCTitleKey
  IbOtherKey = "k"
  NoKey = "none"
  IbNotes = {"n"}
  IbScenes <- MCIbScenes
  PaUsers = {"a", "b", "c"}
  PaSelf = "a"
  PaConfigured = {"c"}
  PaScenes <- MCPaScenes
  PpNotes = {"n1", "n2"}
  PpLinked = {"n2"}
  PpScenes <- MCPpScenes
  WhRequests = {"q1", "q2"}
  WhDelivery <- MCDelivery
  WhWorkers = {"v", "w"}
  WhRetryLimit = 2
  NoRequest = "none"
  WhScenes <- MCWhScenes
SPECIFICATION Spec
INVARIANTS
  NoBlindSave
  ConnectionAgrees
  ListedLinksOpen
  ConvertedOnce
  LastAdminStands
  AcceptedIsKept
  EffectsExplained
PROPERTIES
  Converges
  AskedAsShown
  BellConverges
CHECK_DEADLOCK FALSE
