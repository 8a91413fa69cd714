SPECIFICATION Spec
CONSTANTS
  CQ_N = 4
  WORD = 16
  Byte = {0, 1}
  ProdOps = {"push", "push_n"}
  ConsOps = {"pop_nonblock", "pop", "pop_n_noblk", "peek", "peek_n"}
  Concurrent = FALSE
  MaxBatch = 3
  MaxSent = 5
INVARIANTS OneThreadSafe
CHECK_DEADLOCK FALSE
