SPECIFICATION Spec
CONSTANTS
  Pids = {p1, p2, p3}
  None = None
  Faults = {"wait", "kill"}
  MaxStages = 2
  MaxKeys = 4
INVARIANTS
  TypeOK
  CtxIsCurrentJob
  KillHitsCurrentJob
  PromptMeansJobDone
PROPERTIES
  OnlyAbortsKill
SYMMETRY PidSymmetry
CHECK_DEADLOCK FALSE
