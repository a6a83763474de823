SPECIFICATION Spec
CONSTANTS
  Glyphs = {a}
  Tab = Tab
  Blank = Blank
  MaxLines = 5
  Grace = 1
  MaxVisible = 2
  TabWidth = 3
  MaxWidth = 2
  MaxMove = 2
INVARIANTS
  TypeOK
  CursorInBounds
  DisplayFresh
PROPERTIES
  HistoryImmutable
  NoVisibleLineLost
  ImplementsTty
