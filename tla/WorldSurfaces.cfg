SPECIFICATION Spec
CONSTANTS
  a1 = a1
  a2 = a2
  a3 = a3
  m1 = m1
  m2 = m2
  c1 = c1
  c2 = c2
  c3 = c3
  c4 = c4
  b1 = b1
  y1 = y1
  t1 = t1
  t2 = t2
  t9 = t9
  Surfaces = {"scene", "outliner", "components", "levels", "batch", "play", "tree", "agents", "insights", "stat", "tests", "views", "drawing", "sc", "diff", "coding", "cfg", "collision", "tags"}
  Packages = {m1, m2}
  Actors = {a1, a2, a3}
  None = None
  LevelOf <- MCLevelOf
  Coords <- MCCoords
  Requests <- MCRequests
  Paths <- MCPaths
  Folders <- MCFolders
  ActorPage = 1
  Components = {c1, c2, c3, c4}
  SceneComponents = {c1, c2, c3}
  NoComponent = NoComponent
  NoWorld = NoWorld
  BatchActors = {a1, a2}
  BatchLists <- MCBatchLists
  DumpMax = 1
  StartGap = 3
  CleanupTime = 2
  Bodies = {a1}
  Keys = {m1}
  Spots = {m1, m2}
  Composites = {k1, k2}
  Tasks = {k3}
  Decorators = {d1}
  NoNode = NoNode
  KidsMax = 2
  TreeDepth = 2
  ServicesMax = 1
  BoardKeys = {b1, b2}
  KeyTypes = {y1, y2}
  ParentBoard <- MCParentBoard
  TestsMax = 2
  TraceMax = 2
  DumpFrames = {1, 2}
  DumpCount = 2
  ReportMax = 2
  Tests = {t1, t2}
  UnknownTest = t9
  NoTest = NoTest
  RunLists <- MCRunLists
  EntryMax = 2
  ViewportIds = {v1, v2}
  OrthoIds = {v2}
  Places = {p1, p2}
  Zooms = {1, 2}
  ShowFlags = {f1}
  Width = 3
  Height = 3
  Shown <- MCShown
  Files = {f1, f2}
  Texts <- MCTexts
  LineCap = 3
  CodeModules = {m1, m2}
  CompileMax = 2
  WaitMax = 1
  CVars = {t1, t2, t9}
  CVarType <- MCCVarType
  IniKeys = {m1}
  Profiles = {p1}
  Channels = {1, 2}
  TagNames = {t1, t2}
  HolderOf <- MCHolderOf
CHECK_DEADLOCK FALSE
INVARIANTS
  SceneSound
  BatchAccountTrue
  DiagnosticsTrue
  LineDrawn
  DiffIsShortest
  ResponsesInForce
PROPERTIES
  EditsFlagged
  WaysLast
  SessionsApart
  OnlyRemovalCutsOff
  OutlinerKeepsActors
