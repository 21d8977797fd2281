CONSTANTS
  GsScales = {"day", "week"}
  GsPeriod <- MCPeriod
  GsPane <- MCPeriod
  GsTimes = {17, 18, 30}
  GsNow = 18
  GsBar = 21
  NoInstant = NoInstant
  Astray = Astray
  GsScenes <- MCGsScenes
  TrNodes = {"a", "b", "c", "d", "e"}
  TrRoot = "r"
  TrTrees <- MCTrees
  TrAllows <- MCAllows
  TrWidths = {0, 3, 5, 8}
  TrConfig <- MCTrConfig
  TrScenes <- MCTrScenes
  LnEvents <- MCLnEvents
  LnRow <- MCLnRow
  LnSingle = {"s"}
  LnPlan <- MCPlan
  LnDeps <- MCDeps
  LnDone <- MCDone
  LnSpans <- MCSpans
  LnRanges <- MCLnRanges
  LnSlot = 2
  LnScenes <- MCLnScenes
  GdEvents = {"a", "b", "c"}
  GdRowOf <- MCRowOf
  GdFixed = {"c"}
  GdRows = {"r", "s"}
  GdSingle = {}
  GdStatic = {"s"}
  GdPointers = {"mouse", "finger"}
  GdTouch = {"finger"}
  GdPixels = {0, 2, 4, 5, 6}
  GdEnd = 8
  GdPane = 6
  GdSnap = 2
  GdLocked = {7}
  GdScenes <- MCGdScenes
  RcDay = 4
  RcWeek = 3
  RcMonths <- MCMonths
  RcYear = 2
  RcCap = 9
  RcSeries <- MCSeries
  RcRanges <- MCRcRanges
  CaNodes <- MCNodes
  CaRoot = "root"
  CaParent <- MCParent
  CaPages <- Paged
  CaBranches = {"a", "a1"}
  CaDisabled = {}
  CaMatches <- MCMatches
  CaScenes <- MCCaScenes
  CaThreshold = 2
  FiSchema <- MCSchema
  FiTrees <- MCFiTrees
  FiItems = {1, 2}
  FiExclusive = {2}
  FiRefused = {2}
  FiScenes <- MCFiScenes
SPECIFICATION Spec
INVARIANTS
  InPlace
  NothingSticks
  WindowIndependent
  PathIsTrail
  OneTree
PROPERTIES
  LandsInTheGap
  PromisedLane
  LandsWhereShown
  CaSettles
CHECK_DEADLOCK FALSE
