SPECIFICATION FairSpec
CONSTANTS
  Pids = {p1, p2}
  None = None
  Faults = {"wait", "kill"}
  MaxStages = 2
  MaxKeys = 3
PROPERTIES
  AbortEndsJob
  JobDoneReturns
  SignalsAreRead
CHECK_DEADLOCK FALSE
