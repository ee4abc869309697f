SPECIFICATION AccountantSpec
CONSTANTS
  Context = {c1, c2, c3}
  Node = {n1, n2}
  Nil = Nil
  MaxScans = 2
CHECK_DEADLOCK FALSE
INVARIANTS ConcurrencyDrift EstablishedBound
