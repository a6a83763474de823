SPECIFICATION Spec
CONSTANTS
  Glyphs = {a}
  Tab = Tab
  Blank = Blank
  MaxLines = 128
  Grace = 16
  MaxVisible = 64
  TabWidth = 3
  MaxWidth = 0
  MaxMove = 1
INVARIANTS
  WindowIsTail
  BoundedHistory
PROPERTIES
  NarrowWindowStays
