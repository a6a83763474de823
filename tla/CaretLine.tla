----------------------------- MODULE CaretLine -----------------------------
(***************************************************************************)
(* One line of cells and a caret in it: the editing steps the terminal     *)
(* applies to the line its cursor is on (term/src/state.rs, BufferLine and *)
(* the handlers of TermState).  A value is a record [line, col]; col is    *)
(* the source's cursor.col, counted from 0, so col = Len(line) is the      *)
(* position behind the last cell.                                          *)
(***************************************************************************)
EXTENDS Integers, Sequences, SequencesExt

CONSTANTS
  Glyphs,   \* the printable characters a program may write
  Tab       \* the cell a horizontal tab stores ('\t' in a BufferLine)

Cells == Glyphs \cup {Tab}

(* usize::min and usize::saturating_sub. *)
Least(a, b) == IF a <= b THEN a ELSE b
Monus(a, b) == IF a <= b THEN 0 ELSE a - b

CaretLines == [line : Seq(Cells), col : Nat]

EmptyLine == [line |-> <<>>, col |-> 0]

AtEnd(l) == l.col = Len(l.line)

(* The caret is at a position every handler can index without a panic. *)
CaretInLine(l) == l.col <= Len(l.line)

----------------------------------------------------------------------------

MoveBackwardWraps(l, n) == [l EXCEPT !.col = l.col - n]

MoveBackward(l, n) == [l EXCEPT !.col = Monus(l.col, n)]

MoveForward(l, n) == [l EXCEPT !.col = Least(l.col + n, Len(l.line))]

(* input: push at the end, insert before the cell under the caret elsewhere. *)
TypeCell(l, c) ==
  LET typed == IF AtEnd(l) THEN Append(l.line, c) ELSE InsertAt(l.line, l.col + 1, c)
  IN  MoveForward([l EXCEPT !.line = typed], 1)

(* put_tab(1): extend at the end; elsewhere splice(col..=col) replaces the *)
(* cell under the caret.                                                   *)
PutTab(l) ==
  LET tabbed == IF AtEnd(l) THEN Append(l.line, Tab) ELSE ReplaceAt(l.line, l.col + 1, Tab)
  IN  MoveForward([l EXCEPT !.line = tabbed], 1)

(* Vec::pop, which leaves an empty line alone. *)
Popped(s) == IF s = <<>> THEN <<>> ELSE Front(s)

(* backspace: pop at the end, remove the cell under the caret elsewhere,   *)
(* then one step back.                                                     *)
Erase(l) ==
  LET erased == IF AtEnd(l) THEN Popped(l.line) ELSE RemoveAt(l.line, l.col + 1)
  IN  MoveBackward([l EXCEPT !.line = erased], 1)
=============================================================================
