CONSTANTS
  None = None
  Pool = {p1, p2, p3}
  Conn = {k1, k2}
  User = {u1, u2, u3}
  Sessions = 4
  Tables = 1
  PoolMin = 2
  PoolMax = 0
SPECIFICATION ConnectionSpec
INVARIANTS ConnectionsAreSafe SessionsHaveTheirPlace ClosedIsClosed
PROPERTIES EverybodyIsAnswered
CHECK_DEADLOCK FALSE
