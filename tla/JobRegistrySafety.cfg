SPECIFICATION Spec
CONSTANTS
  Jobs = {j1, j2}
  Workers = {w1}
  Listeners = {l1}
  GT = gt
  Nobody = nobody
  GtModes <- Either
  Outcomes <- FourOutcomes
  PoolCreates <- Works
  Ttl = 0
  Waits <- WaitOrNot
  MaxTime = 2
SYMMETRY JobWorkerSymmetry
CHECK_DEADLOCK FALSE
INVARIANTS
  TypeOK
  WorkHeldOnce
  StatusTrue
  PoolOutlivesWork
  OnePool
PROPERTIES
  NoResultOnlyIfForgotten
  ImplementsLifecycle
