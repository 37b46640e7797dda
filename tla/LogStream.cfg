SPECIFICATION ToolsSpec
CONSTANTS
  Threads = {t1, t2}
  Categories = {1, 2}
  Capacity = 2
  MaxEntries = 3
  Lines = {0, 3}
  Filters = {{1, 2}, {2}}
  Listeners = {l1}
  PageSize = 1
SYMMETRY ThreadSymmetry
CHECK_DEADLOCK FALSE
INVARIANTS
  TypeOK
  ReadsFaithful
  RepliesTrue
PROPERTIES
  ImplementsBoundedLog
