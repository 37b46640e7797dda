SPECIFICATION Spec
CONSTANTS
  Surfaces = {"content", "reads", "members", "parts", "graph", "anim", "materials", "input", "data", "sequence"}
  Packages <- MCPackages
  AssetPaths <- MCPaths
  Contents = {k1, k2}
  Nothing = Nothing
  SaveMax = 1
  Keys <- MCKeys
  Links <- MCLinks
  Kinds <- MCKinds
  PageSize = 1
  Blueprints = 2
  MaxResults = 1
  ScanCap = 1
  Depths = {1, 2}
  NodeCaps = {2, 3}
  BpVars = {v1}
  BpFuncs = {f1, f2}
  BpParams = {p1, p2}
  BpInterfaces = {i1}
  BpParents = {q1, q2}
  NoFunc = NoFunc
  BpParts = {b1, b2, b3}
  SceneParts = {b1, b2}
  NoPart = NoPart
  GraphNodes = {n1, n2, n3}
  AnimStates = {s1, s2}
  Expressions = {e1, e2}
  ParamNames = {1, 2, 3}
  MaterialParams <- MCMaterialParams
  Printed <- MCPrinted
  MatPageSize = 1
  InputsMax = 1
  ShaderLimit = 1
  InputKeys = {h1, h2}
  MapMax = 2
  AuxMax = 1
  Rows = {1, 2, 3}
  RowPrinted <- MCRowPrinted
  Fields = {w1, w2}
  TableAt <- MCTableAt
  CurveAt <- MCCurveAt
  CurveChannels = {"R", "G"}
  KeyTimes = {1}
  KeyMax = 2
  Labels <- MCLabels
  Spawnables <- MCSpawnables
  Titles <- MCTitles
  CutTitle <- MCCutTitle
  Ranges = {1, 2}
  SequenceAt <- MCTableAt
  BindingMax = 1
  TrackMax = 2
  SectionMax = 2
  KeyCount = 1
CHECK_DEADLOCK FALSE
INVARIANTS
  WalksComplete
  GraphIsTrue
  GraphSound
  SectionsFound
PROPERTIES
  NothingOverwritten
