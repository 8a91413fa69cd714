SPECIFICATION Spec
CONSTANTS
  CQ_N = 3
  WORD = 12
  Byte = {0, 1}
  ProdOps = {"push"}
  ConsOps = {"pop_nonblock", "pop", "pop_n_noblk", "peek"}
  Concurrent = TRUE
  MaxBatch = 2
  MaxSent = 6
INVARIANTS InOrder RingHoldsUnread PopSideSafe
PROPERTY ImplementsFifo
CHECK_DEADLOCK FALSE
