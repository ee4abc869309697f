SPECIFICATION Spec
CONSTANTS
  h1 = h1
  h2 = h2
  h3 = h3
  r1 = r1
  r2 = r2
  r3 = r3
  r4 = r4
  c1 = c1
  c2 = c2
  None = None
  Handler <- Handlers
  Request <- Requests
  Context <- TwoContexts
  Kinds <- ScanKinds
  Faults <- AllFaults
  AsyncApi = TRUE
  Pipelined = FALSE
  MaxRetries = 1
  MaxTimeouts = 2
SYMMETRY Symmetry
INVARIANTS ContextsAreSafe CallsAreSound EndsAreSound NoLeak
CHECK_DEADLOCK FALSE
