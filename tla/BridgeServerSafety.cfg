SPECIFICATION Spec
CONSTANTS
  LaneA = {}
  LaneB = {b1}
  OtherKind = {}
  Exec = {e1}
  Unmatched = {}
  BadKind = {}
  Malformed = {}
  Huge = {}
  Opaque = {e1}
  MaxConns = 2
  Spawns = {TRUE}
  Binds = {TRUE, FALSE}
  Stalls = FALSE
CHECK_DEADLOCK FALSE
INVARIANTS
  TypeOK
  AnswerToOwner
  SocketsOwned
