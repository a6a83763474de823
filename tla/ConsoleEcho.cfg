SPECIFICATION Spec
CONSTANTS
  Glyphs = {w, R, ">", " ", "/", "[", "A", "B", "C", "D"}
  Tab = Tab
  Letters = {w}
  Wide = {w}
  C1 = {}
  Replacement = R
  MaxLine = 4
  MaxShown = 2
  MaxTears = 1
  MaxPending = 0
  MaxQueue = 1
INVARIANTS
  TypeOK
  CursorInLine
  EchoedLine
  CaretNotBehind
