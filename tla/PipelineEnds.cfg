SPECIFICATION FairSpec
CONSTANTS
  Fds = {0, 1, 2, 3}
  Commands <- MCCommands
  MaxJobs = 2
  MaxLeaks = 1
INVARIANTS
  TypeOK
  EndsWithNeighbours
  LinksConnect
PROPERTIES
  EveryProcessEnds
  JobReturns
CHECK_DEADLOCK FALSE
