SPECIFICATION Spec
CONSTANTS
  CQ_N = 6
  MaxRead = 2
  MaxBurst = 3
  MaxSpec = 2
  MaxDepth = 2
  MaxInput = 8
INVARIANTS RollbackExact LexNeverPanics
PROPERTIES ImplementsSimple
CHECK_DEADLOCK FALSE
