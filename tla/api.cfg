CONSTANTS
  None = None
  Call = {1, 2, 3}
  KindsOf <- MCKindsOf
  MaxTx = 2
SPECIFICATION Spec
INVARIANT AnsweredOnce
INVARIANT BatchIsExecutedWhole
INVARIANT IdleMeansEnded
PROPERTY FailureForbidsCommit
PROPERTY EveryCallIsAnswered
CHECK_DEADLOCK FALSE
