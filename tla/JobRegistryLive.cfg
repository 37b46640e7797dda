SPECIFICATION Spec
CONSTANTS
  Jobs = {j1, j2}
  Workers = {w1}
  Listeners = {l1}
  GT = gt
  Nobody = nobody
  GtModes <- Either
  Outcomes <- FourOutcomes
  PoolCreates <- Works
  Ttl = 0
  Waits <- NoQueries
  MaxTime = 1
CHECK_DEADLOCK FALSE
PROPERTIES
  JobsSettle
  UnloadEnds
