SPECIFICATION Spec
CONSTANTS
  Names = {"a", "b", ".b"}
  DotNames = {".b"}
  Commands <- MCCommands
  SearchPath <- MCSearchPath
  Fds = {f1, f2, f3, f4}
  MaxDepth = 2
  MaxRefusals = 2
INVARIANTS
  TypeOK
  CwdIsOpen
  DirectoriesCounted
  OneBase
  DottedRunsHere

SYMMETRY FdSymmetry
