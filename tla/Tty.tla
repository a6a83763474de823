-------------------------------- MODULE Tty --------------------------------
(***************************************************************************)
(* What the terminal promises to a program that writes to it, scrollback   *)
(* and drawing aside: there is a current line with a caret inside it, text *)
(* and caret commands act on that line alone, a carriage return empties    *)
(* it, and a line feed starts a new, empty one.  Scrollback implements     *)
(* this specification; Console composes the shell's line editor with it.   *)
(***************************************************************************)
EXTENDS CaretLine

CONSTANT MaxMove   \* the largest count a cursor movement sequence carries

VARIABLES
  line,   \* the cells of the current line
  col     \* the caret, 0 .. Len(line)

ttyVars == <<line, col>>

Current == [line |-> line, col |-> col]

TtyTypeOK == Current \in CaretLines

Becomes(l) ==
  /\ line' = l.line
  /\ col'  = l.col

TtyInit == Current = EmptyLine

Edit ==
  \/ \E c \in Glyphs : Becomes(TypeCell(Current, c))
  \/ Becomes(PutTab(Current))
  \/ Becomes(Erase(Current))

Move == \E n \in 1 .. MaxMove :
  \/ Becomes(MoveBackward(Current, n))
  \/ Becomes(MoveForward(Current, n))

(* Carriage return, line feed, new line and clear screen all leave an      *)
(* empty current line.                                                     *)
StartOver == Becomes(EmptyLine)

TtyNext == Edit \/ Move \/ StartOver

TtySpec == TtyInit /\ [][TtyNext]_ttyVars
=============================================================================
