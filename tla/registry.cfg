CONSTANTS
  None = None
  Call = {1, 2, 3, 4}
  KindsOf <- MCKindsOf
  Db = {d1, d2}
  MaxConn = 2
  HandlerCall = {1, 2, 3}
  Session = {s1}
  MaxReads = 3
  Caches = {"none", "factory"}
SPECIFICATION FactorySpec
INVARIANTS RegistryIsExact SessionsKeepTheirSlots ReadsAreShared HandlersAgree
PROPERTIES AllCallsAreAnswered
CHECK_DEADLOCK FALSE
