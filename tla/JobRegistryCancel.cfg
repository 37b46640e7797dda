SPECIFICATION Spec
CONSTANTS
  Jobs = {j1}
  Workers = {w1}
  Listeners = {l1}
  GT = gt
  Nobody = nobody
  GtModes <- Either
  Outcomes <- AllOutcomes
  PoolCreates <- Works
  Ttl = 0
  Waits <- NoWait
  MaxTime = 1
CHECK_DEADLOCK FALSE
INVARIANT HonouredCancelEndsCancelled
