SPECIFICATION Spec
CONSTANTS
  h1 = h1
  h2 = h2
  h3 = h3
  r1 = r1
  r2 = r2
  r3 = r3
  r4 = r4
  c1 = c1
  c2 = c2
  None = None
  Handler <- Handlers
  Request <- Requests
  Context <- OneContext
  Kinds <- KeyOnly
  Faults <- NoFaults
  AsyncApi = TRUE
  Pipelined = TRUE
  MaxRetries = 2
  MaxTimeouts = 1
SYMMETRY Symmetry
INVARIANTS ExecuteBeforeContext
CHECK_DEADLOCK FALSE
