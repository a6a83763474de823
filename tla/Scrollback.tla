----------------------------- MODULE Scrollback -----------------------------
(***************************************************************************)
(* The terminal's screen state: TermState of term/src/state.rs.  A buffer  *)
(* of rows with a cursor, a window of visible rows, a dirty flag, and what *)
(* the last draw put on the screen.  The actions are the handlers vte      *)
(* calls while process_events parses a packet, and flush, which the event  *)
(* loop calls between packets; a packet may end after any handler call.    *)
(* Row and column numbers count from 0 as in the source, so row r is       *)
(* rows[r + 1].                                                            *)
(***************************************************************************)
EXTENDS CaretLine

CONSTANTS
  MaxLines,     \* MAX_LINES
  Grace,        \* GRACE
  MaxVisible,   \* MAX_VISIBLE_LINES
  TabWidth,     \* TAB_WIDTH
  Blank,        \* the character a drawn tab is made of
  MaxWidth,     \* bound: handlers add no cell to a line this long
  MaxMove       \* bound: the largest count of a cursor movement sequence

(* What the code's 128, 16, 64 satisfy: the rows left by a drain still     *)
(* overfill the window, so the window is moved with them.                  *)
ASSUME SizesAssumption ==
  /\ MaxLines \in Nat
  /\ Grace \in Nat \ {0}
  /\ MaxVisible \in Nat \ {0}
  /\ TabWidth \in Nat
  /\ MaxWidth \in Nat
  /\ MaxMove \in Nat
  /\ MaxLines - 2 * Grace > MaxVisible

VARIABLES
  term,    \* the TermState: rows, visible, cursor, dirty
  frame    \* the screen: the lines drawn last and the highlighted position

vars == <<term, frame>>

Dirtyness == {"Full", "Partial", "Clean"}

TermState == [ rows    : Seq(Seq(Cells)),
               visible : [from : Nat, count : Nat],
               cursor  : [row : Nat, col : Nat],
               dirty   : Dirtyness ]

Frames == [lines : Seq(Seq(Glyphs \cup {Blank})), caret : Seq(Nat)]

TermTypeOK == term \in TermState

TypeOK == TermTypeOK /\ frame \in Frames

----------------------------------------------------------------------------
(* Dirtyness::up and Dirtyness::partial. *)
Up(d) == IF d = "Clean" THEN "Partial" ELSE "Full"
Partial(d) == IF d = "Full" THEN d ELSE Up(d)

(* The line under the cursor with the cursor's column, and its replacement *)
(* by the handlers that look the row up with rows.get_mut(cursor.row).     *)
Here(t) == [line |-> t.rows[t.cursor.row + 1], col |-> t.cursor.col]

AtCursor(t, l, dirty) ==
  [ rows    |-> ReplaceAt(t.rows, t.cursor.row + 1, l.line),
    visible |-> t.visible,
    cursor  |-> [row |-> t.cursor.row, col |-> l.col],
    dirty   |-> dirty ]

(* add_line: push a row, drain the oldest Grace rows when the buffer is    *)
(* full, scroll or grow the window, and put the cursor on the new row.     *)
OverfullLate(n) == n + Grace > MaxLines

Overfull(n) == n + Grace >= MaxLines

Drained(rows) == IF Overfull(Len(rows)) THEN SubSeq(rows, Grace + 1, Len(rows)) ELSE rows

ScrolledUnclamped(visible, n) == IF n > MaxVisible THEN visible.from + 1 ELSE visible.from

ScrolledNever(visible, n) ==
  IF n > MaxVisible THEN Least(visible.from, Monus(n, visible.count)) ELSE visible.from

Scrolled(visible, n) ==
  IF n > MaxVisible THEN Least(visible.from + 1, Monus(n, visible.count)) ELSE visible.from

Grown(visible, from, n) ==
  LET count == Least(Least(visible.count + 1, MaxVisible), Monus(n, from))
  IN  IF count = 0 THEN 1 ELSE count

NextRowStays(row, n) == Least(IF Overfull(n) THEN Monus(row, Grace) ELSE row, n - 1)

(* n is the number of rows after the push and before the drain. *)
NextRow(row, n) ==
  IF Overfull(n) THEN Least(Monus(row, Grace) + 1, n - Grace - 1) ELSE Least(row + 1, n - 1)

AddLine(t) ==
  LET pushed == Append(t.rows, <<>>)
      rows   == Drained(pushed)
      from   == Scrolled(t.visible, Len(rows))
      scroll == Len(rows) > MaxVisible
  IN  [ rows    |-> rows,
        visible |-> [from |-> from, count |-> Grown(t.visible, from, Len(rows))],
        cursor  |-> [row |-> NextRow(t.cursor.row, Len(pushed)), col |-> 0],
        dirty   |-> IF scroll THEN Up(Partial(t.dirty)) ELSE Partial(t.dirty) ]

(* carriage_return clears the last row, whatever row the cursor is on. *)
ReturnKeepsCol(t) == [t EXCEPT !.rows[Len(t.rows)] = <<>>, !.dirty = Partial(t.dirty)]

Return(t) ==
  [ rows    |-> ReplaceAt(t.rows, Len(t.rows), <<>>),
    visible |-> t.visible,
    cursor  |-> [row |-> t.cursor.row, col |-> 0],
    dirty   |-> Partial(t.dirty) ]

Feed(t) == LET u == AddLine(t) IN [u EXCEPT !.dirty = Partial(u.dirty)]

FreshLineSwapped(t) == LET u == Feed(Return(t)) IN [u EXCEPT !.dirty = Up(u.dirty)]

FreshLine(t) == LET u == Return(Feed(t)) IN [u EXCEPT !.dirty = Up(u.dirty)]

Cleared(t) ==
  LET u == FreshLine(t)
  IN  [ rows    |-> u.rows,
        visible |-> [from |-> Len(u.rows), count |-> 1],
        cursor  |-> u.cursor,
        dirty   |-> "Full" ]

----------------------------------------------------------------------------
(* draw: the rows of the window with every tab widened to TabWidth blanks, *)
(* and the highlighted position, if the cursor's row is in the window.     *)
Drawn(c) == IF c = Tab THEN [j \in 1 .. TabWidth |-> Blank] ELSE << c >>

Widened(line) ==
  LET upto[i \in 0 .. Len(line)] ==
        IF i = 0 THEN <<>> ELSE upto[i - 1] \o Drawn(line[i])
  IN  upto[Len(line)]

LastShown(t) == Least(t.visible.from + t.visible.count, Len(t.rows))

Shown(t) == SubSeq(t.rows, t.visible.from + 1, LastShown(t))

CursorShown(t) == t.cursor.row + 1 \in t.visible.from + 1 .. LastShown(t)

Render(t) ==
  [ lines |-> [i \in 1 .. Len(Shown(t)) |-> Widened(Shown(t)[i])],
    caret |-> IF CursorShown(t)
              THEN << t.cursor.row - t.visible.from,
                      Least(t.cursor.col, Len(Widened(Here(t).line))) >>
              ELSE <<>> ]

----------------------------------------------------------------------------
(* TermState::new; nothing is drawn yet. *)
Init ==
  /\ term = [ rows    |-> << <<>> >>,
              visible |-> [from |-> 0, count |-> 1],
              cursor  |-> [row |-> 0, col |-> 0],
              dirty   |-> "Full" ]
  /\ frame = [lines |-> <<>>, caret |-> <<>>]

HasRoom == Len(Here(term).line) < MaxWidth

(* input(c): move_forward marks the screen, then the handler does again. *)
Input(c) ==
  /\ HasRoom
  /\ term' = AtCursor(term, TypeCell(Here(term), c), Partial(Partial(term.dirty)))
  /\ UNCHANGED frame

(* put_tab(1), for the HT control. *)
InputTab ==
  /\ HasRoom
  /\ term' = AtCursor(term, PutTab(Here(term)), Partial(Partial(term.dirty)))
  /\ UNCHANGED frame

Backspace ==
  /\ term' = AtCursor(term, Erase(Here(term)), Partial(Partial(term.dirty)))
  /\ UNCHANGED frame

CursorBackward(n) ==
  /\ term' = AtCursor(term, MoveBackward(Here(term), n), Partial(term.dirty))
  /\ UNCHANGED frame

CursorForwardUnmarked(n) ==
  /\ term' = AtCursor(term, MoveForward(Here(term), n), term.dirty)
  /\ UNCHANGED frame

CursorForward(n) ==
  /\ term' = AtCursor(term, MoveForward(Here(term), n), Partial(term.dirty))
  /\ UNCHANGED frame

CarriageReturn ==
  /\ term' = Return(term)
  /\ UNCHANGED frame

Linefeed ==
  /\ term' = Feed(term)
  /\ UNCHANGED frame

Newline ==
  /\ term' = FreshLine(term)
  /\ UNCHANGED frame

ClearScreen ==
  /\ term' = Cleared(term)
  /\ UNCHANGED frame

(* flush: draw if anything changed since the last draw. *)
Flush ==
  /\ term.dirty # "Clean"
  /\ frame' = Render(term)
  /\ term' = [term EXCEPT !.dirty = "Clean"]

Next ==
  \/ \E c \in Glyphs : Input(c)
  \/ InputTab
  \/ Backspace
  \/ \E n \in 1 .. MaxMove : CursorBackward(n) \/ CursorForward(n)
  \/ CarriageReturn
  \/ Linefeed
  \/ Newline
  \/ ClearScreen
  \/ Flush

Spec == Init /\ [][Next]_vars

----------------------------------------------------------------------------
(* Properties *)

(* The cursor is always on the last row and never behind the end of its    *)
(* line, so no rows.get_mut(row).unwrap(), insert, remove or splice of a   *)
(* handler panics, and carriage_return, which clears the last row, clears  *)
(* the row the other handlers edit: even after a drain.                    *)
CursorInBounds ==
  /\ term.rows # <<>>
  /\ term.cursor.row = Len(term.rows) - 1
  /\ CaretInLine(Here(term))

(* Between a clear_screen and the next line feed nothing is shown. *)
JustCleared == term.visible = [from |-> Len(term.rows), count |-> 1]

(* The window is a tail of the buffer no longer than MaxVisible: the user  *)
(* always sees the newest lines, unless the screen has just been cleared.  *)
(* add_line must hold this across growing, scrolling and draining.         *)
WindowIsTail ==
  \/ JustCleared
  \/ /\ term.visible.from + term.visible.count = Len(term.rows)
     /\ term.visible.count \in 1 .. MaxVisible

(* The drain keeps the history below MaxLines - Grace rows for ever. *)
BoundedHistory == Len(term.rows) + Grace < MaxLines

(* When the dirty flag is Clean the screen shows the buffer as it is:      *)
(* every handler that changes what draw reads marks the screen dirty, so   *)
(* the flush that follows draws it.                                        *)
DisplayFresh == term.dirty = "Clean" => frame = Render(term)

(* Lines above the cursor's are history: a step keeps them all, adds the   *)
(* line the cursor leaves, or drops the Grace oldest while doing so.       *)
HistoryImmutable ==
  [][Front(term'.rows) \in { Front(term.rows), term.rows,
                             SubSeq(term.rows, Grace + 1, Len(term.rows)) }]_vars

(* A line that is on the screen stays until the window scrolls over it,    *)
(* one line at a time: a drain, which moves every row to another index,    *)
(* takes no visible line away and brings none back.  Only clear_screen     *)
(* empties the window.                                                     *)
ShownAbove(t) == SubSeq(t.rows, t.visible.from + 1, Len(t.rows) - 1)
NoVisibleLineLost ==
  [][ LET shown == Shown(term) IN
      \/ ShownAbove(term') \in {ShownAbove(term), shown}
      \/ shown # <<>> /\ ShownAbove(term') = Tail(shown)
      \/ JustCleared' ]_vars

(* Once the buffer holds more rows than a full window, the window never    *)
(* grows again: add_line moves it down by one instead.  A window that      *)
(* clear_screen has made narrow by then stays narrow until the program     *)
(* ends.                                                                   *)
NarrowWindowStays ==
  [][Len(term.rows) > MaxVisible => term'.visible.count <= term.visible.count]_vars

(* The buffer, the window and the drain implement the terminal's promise:  *)
(* seen from its cursor's line it is one line with a caret.                *)
T == INSTANCE Tty WITH line <- Here(term).line, col <- term.cursor.col
ImplementsTty == T!TtySpec
=============================================================================
