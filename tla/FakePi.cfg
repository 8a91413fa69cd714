SPECIFICATION FairSpec
CONSTANTS
  MaxWord = 40
  Addr = {1, 3}
  Val = {0, 3, 14}
  NBanner = 3
  NBye = 2
  Patience = {TRUE, FALSE}
  MaxOps = 3
  MaxWire = 2
INVARIANTS GetReturnsLastPut OutputInOrder ExitsClean
PROPERTIES Finishes
