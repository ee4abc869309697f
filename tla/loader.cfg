CONSTANTS
  Jobs <- MCJobs
  MaxLead = 3
  MinLead = 2
  MaxTicks = 2
  Faults = {"hard", "full", "temporary"}
SPECIFICATION Spec
INVARIANTS RowsAreShared TheEndIsTheEnd NoRowIsForgotten
PROPERTIES EveryJobFinishes
CHECK_DEADLOCK FALSE
