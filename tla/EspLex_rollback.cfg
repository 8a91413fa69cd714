SPECIFICATION Spec
CONSTANTS
  CQ_N = 4
  MaxRead = 2
  MaxBurst = 2
  MaxSpec = 2
  MaxDepth = 1
  MaxInput = 6
INVARIANTS
  RollbackExact
CHECK_DEADLOCK FALSE
