SPECIFICATION Spec
CONSTANTS
  LaneA = {a1}
  LaneB = {}
  OtherKind = {}
  Exec = {}
  Unmatched = {}
  BadKind = {}
  Malformed = {}
  Huge = {}
  Opaque = {}
  MaxConns = 1
  Spawns = {TRUE, FALSE}
  Binds = {TRUE}
  Stalls = FALSE
CHECK_DEADLOCK FALSE
INVARIANT SpawnFailureDestroysOnce
