SPECIFICATION CallbackSpec
CONSTANTS
  Call = {c1, c2, c3, c4}
  None = None
  Ndb = {n1, n2, n3}
  MaxSends = 2
  Promise = {p1, p2, p3, p4}
  Root = {p1}
  Value = {Undefined}
  Reason = {falsy, error}
  Falsy = falsy
  Undefined = Undefined
  Unsettled = Unsettled
INVARIANTS QueueIsSafe PromisesAreSound
PROPERTIES EverybodyIsCalledBack ImplementsExecutor
CHECK_DEADLOCK FALSE
