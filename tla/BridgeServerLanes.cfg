SPECIFICATION Spec
CONSTANTS
  LaneA = {a1}
  LaneB = {b1}
  OtherKind = {k1}
  Exec = {}
  Unmatched = {}
  BadKind = {}
  Malformed = {}
  Huge = {h1}
  Opaque = {b1}
  MaxConns = 1
  Spawns = {TRUE, FALSE}
  Binds = {TRUE}
  Stalls = FALSE
CHECK_DEADLOCK FALSE
INVARIANTS
  AnsweredAsAsked
  LaneAInOrder
  WholeLines
