SPECIFICATION ReadsSpec
CONSTANTS
  Adapter = {"ndb", "mysql"}
  Table <- MCTable
  Heap <- ByA
  EntriesBy <- MCEntriesBy
  Query <- MCQuery
  Params <- MCParams
  Pages <- MCPages
  Keys <- MCKeys
  BatchSizes = {1, 3}
  None = None
  MaxExecutions = 2
  Contexts = {c1, c2}
  Projection = {"customer1", "customer2", "cart", "line", "discount"}
  Misused = {"cart"}
  Roots = {"customer1", "customer2", "cart", "discount"}
  MayFail = {"Line", "customerdiscount"}
  MaxChanges = 1
  MaxReads = 2
  NoValue = NoValue
  Undefined = Undefined

INVARIANTS AnswerIsExact FindUsesItsKeys AnswerIsTheGraph ValidIsCurrent
CHECK_DEADLOCK FALSE
