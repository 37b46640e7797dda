SPECIFICATION SpecRead
CONSTANTS
  LaneA = {a1}
  LaneB = {b1}
  OtherKind = {}
  Exec = {}
  Unmatched = {}
  BadKind = {}
  Malformed = {m1}
  Huge = {}
  Opaque = {}
  MaxConns = 1
  Spawns = {TRUE}
  Binds = {TRUE, FALSE}
  Stalls = TRUE
CHECK_DEADLOCK FALSE
PROPERTIES
  EventuallyAnswered
  StopsEventually
