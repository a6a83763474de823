SPECIFICATION Spec
CONSTANTS
  Pids = {p1, p2, p3}
  None = None
  Faults = {}
  MaxStages = 2
  MaxKeys = 4
INVARIANTS
  AbortIsHeard
CHECK_DEADLOCK FALSE
