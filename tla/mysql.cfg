CONSTANTS
  None = None
  Session = {s1, s2}
  Conn = {c1}
  Batch = {1, 2}
  Lookup = {k1}
  Lists <- MCLists
  MaxTx = 2
  Patient = TRUE
SPECIFICATION Spec
INVARIANTS OneAfterTheOther EndDecides AutocommitKeeps
CHECK_DEADLOCK FALSE
PROPERTY EveryBatchIsCalledBack
