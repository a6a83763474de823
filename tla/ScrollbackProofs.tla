-------------------------- MODULE ScrollbackProofs --------------------------
(* Scrollback's invariants, for every buffer size SizesAssumption allows.  *)
EXTENDS Scrollback, CaretLineProofs

(* The window's half of the invariant, over its fields and the row count.  *)
Follows(visible, n) ==
  \/ visible = [from |-> n, count |-> 1]
  \/ visible.from + visible.count = n /\ visible.count \in 1 .. MaxVisible

(* What every handler finds and leaves: the state parts of IInv, of any    *)
(* value of the screen state.                                              *)
Sane(t) ==
  /\ t \in TermState
  /\ t.rows # <<>>
  /\ t.cursor.row = Len(t.rows) - 1
  /\ t.cursor.col <= Len(t.rows[Len(t.rows)])
  /\ Follows(t.visible, Len(t.rows))
  /\ Len(t.rows) + Grace < MaxLines

IInv == Sane(term) /\ DisplayFresh

----------------------------------------------------------------------------
(* Sane is the conjunction of the invariants the runs check. *)
LEMMA SaneIsInv ==
  Sane(term) <=> TermTypeOK /\ CursorInBounds /\ WindowIsTail /\ BoundedHistory
  <1>1. SUFFICES ASSUME TermTypeOK
                 PROVE  Sane(term) <=> CursorInBounds /\ WindowIsTail /\ BoundedHistory
    BY DEF Sane, TermTypeOK
  <1>2. term.rows \in Seq(Seq(Cells)) /\ Len(term.rows) \in Nat
    BY <1>1, LenProperties DEF TermTypeOK, TermState
  <1>3. ASSUME term.cursor.row = Len(term.rows) - 1
        PROVE  CaretInLine(Here(term)) <=> term.cursor.col <= Len(term.rows[Len(term.rows)])
    <2>1. term.cursor.row + 1 = Len(term.rows)
      BY <1>2, <1>3
    <2>2. QED
      BY <2>1, Zenon DEF CaretInLine, Here
  <1>4. QED
    BY <1>1, <1>3
    DEF Sane, TermTypeOK, CursorInBounds, WindowIsTail, JustCleared, BoundedHistory, Follows

(* The types of the fields of a sane state. *)
LEMMA SaneFields ==
  ASSUME NEW t, Sane(t)
  PROVE  /\ t.rows \in Seq(Seq(Cells)) /\ Len(t.rows) \in Nat \ {0}
         /\ t.rows[Len(t.rows)] \in Seq(Cells)
         /\ t.cursor.row + 1 = Len(t.rows)
         /\ t.cursor = [row |-> Len(t.rows) - 1, col |-> t.cursor.col]
         /\ t.cursor.col \in Nat
         /\ t.visible \in [from : Nat, count : Nat]
         /\ t.dirty \in Dirtyness
  <1>1. /\ t.rows \in Seq(Seq(Cells)) /\ t.rows # <<>>
        /\ t.cursor \in [row : Nat, col : Nat]
        /\ t.visible \in [from : Nat, count : Nat]
        /\ t.dirty \in Dirtyness
    BY DEF Sane, TermState
  <1>2. Len(t.rows) \in Nat \ {0}
    BY <1>1, EmptySeq
  <1>3. t.rows[Len(t.rows)] \in Seq(Cells)
    BY <1>1, <1>2, ElementOfSeq
  <1>4. QED
    BY <1>1, <1>2, <1>3 DEF Sane

(* The cursor's line is a line with its caret inside. *)
LEMMA HereIsGood ==
  ASSUME NEW t, Sane(t)
  PROVE  Here(t) \in GoodLines
  <1>1. Here(t) = [line |-> t.rows[Len(t.rows)], col |-> t.cursor.col]
    BY SaneFields, Zenon DEF Here
  <1>2. /\ t.rows[Len(t.rows)] \in Seq(Cells) /\ t.cursor.col \in Nat
        /\ t.cursor.col <= Len(t.rows[Len(t.rows)])
    BY SaneFields DEF Sane
  <1>3. QED
    BY <1>1, <1>2 DEF GoodLines, CaretLines, CaretInLine

(* Dirtyness never falls: partial() and up() leave a dirty screen dirty.   *)
LEMMA MarkedDirty ==
  ASSUME NEW d \in Dirtyness
  PROVE  /\ Partial(d) \in Dirtyness /\ Partial(d) # "Clean"
         /\ Up(d) \in Dirtyness /\ Up(d) # "Clean"
  BY DEF Dirtyness, Partial, Up

(* A handler that edits the cursor's line with a step that stays in it.    *)
LEMMA EditsAreSane ==
  ASSUME NEW t, Sane(t), NEW l \in GoodLines, NEW d \in Dirtyness
  PROVE  /\ Sane(AtCursor(t, l, d))
         /\ Here(AtCursor(t, l, d)) = l
         /\ AtCursor(t, l, d).dirty = d
         /\ AtCursor(t, l, d).visible = t.visible
         /\ AtCursor(t, l, d).rows = [t.rows EXCEPT ![Len(t.rows)] = l.line]
  <1> DEFINE n == Len(t.rows)
             rows == [t.rows EXCEPT ![n] = l.line]
             cursor == [row |-> n - 1, col |-> l.col]
             u == [rows |-> rows, visible |-> t.visible, cursor |-> cursor, dirty |-> d]
  <1>1. l.line \in Seq(Cells) /\ l.col \in Nat /\ l.col <= Len(l.line)
        /\ l = [line |-> l.line, col |-> l.col]
    BY DEF GoodLines, CaretLines, CaretInLine
  <1>2. t.rows \in Seq(Seq(Cells)) /\ n \in Nat \ {0} /\ t.cursor.row + 1 = n /\ t.cursor.row = n - 1
    BY SaneFields DEF Sane
  <1>3. rows \in Seq(Seq(Cells)) /\ Len(rows) = n /\ rows[n] = l.line
    BY <1>1, <1>2, ExceptSeq
  <1>4. AtCursor(t, l, d) = u
    <2>1. ReplaceAt(t.rows, t.cursor.row + 1, l.line) = rows
      BY <1>2, Zenon DEF ReplaceAt
    <2>2. QED
      BY <1>2, <2>1, Zenon DEF AtCursor
  <1>5. rows # <<>>
    BY <1>2, <1>3, EmptySeq
  <1> HIDE DEF rows
  <1>6. Sane(u)
    <2>1. t.visible \in [from : Nat, count : Nat] /\ Follows(t.visible, n) /\ n + Grace < MaxLines
      BY SaneFields DEF Sane
    <2>2. cursor \in [row : Nat, col : Nat]
      BY <1>1, <1>2
    <2>3. QED
      BY <1>1, <1>3, <1>5, <2>1, <2>2 DEF Sane, TermState
  <1>7. Here(u) = l
    <2>1. u.cursor.row + 1 = n
      BY <1>2
    <2>2. Here(u) = [line |-> rows[n], col |-> l.col]
      BY <2>1 DEF Here
    <2>3. QED
      BY <1>1, <1>3, <2>2
  <1>8. QED
    BY <1>4, <1>6, <1>7 DEF rows
(* carriage_return empties the line the cursor is on. *)
LEMMA ReturnIsSane ==
  ASSUME NEW t, Sane(t)
  PROVE  /\ Sane(Return(t))
         /\ Here(Return(t)) = EmptyLine
         /\ Return(t).dirty = Partial(t.dirty)
         /\ Return(t).visible = t.visible
         /\ Return(t).rows = [t.rows EXCEPT ![Len(t.rows)] = <<>>]
  <1>1. Return(t) = AtCursor(t, EmptyLine, Partial(t.dirty))
    <2>1. t.cursor.row + 1 = Len(t.rows)
      BY SaneFields
    <2>2. EmptyLine.line = <<>> /\ EmptyLine.col = 0
      BY DEF EmptyLine
    <2>3. QED
      BY <2>1, <2>2, Zenon DEF Return, AtCursor
  <1>2. EmptyLine \in GoodLines
    BY EmptySeq DEF EmptyLine, GoodLines, CaretLines, CaretInLine
  <1>3. Partial(t.dirty) \in Dirtyness
    BY SaneFields, MarkedDirty
  <1>4. EmptyLine.line = <<>>
    BY DEF EmptyLine
  <1>5. QED
    BY <1>1, <1>2, <1>3, <1>4, EditsAreSane

(* Marking the screen changes nothing the invariant or the cursor's line   *)
(* depends on.                                                             *)
LEMMA Remarked ==
  ASSUME NEW t, Sane(t), NEW d \in Dirtyness
  PROVE  /\ Sane([t EXCEPT !.dirty = d])
         /\ Here([t EXCEPT !.dirty = d]) = Here(t)
         /\ [t EXCEPT !.dirty = d].rows = t.rows
         /\ [t EXCEPT !.dirty = d].visible = t.visible
         /\ [t EXCEPT !.dirty = d].dirty = d
  <1>1. t \in TermState
    BY DEF Sane
  <1>2. [t EXCEPT !.dirty = d]
           = [rows |-> t.rows, visible |-> t.visible, cursor |-> t.cursor, dirty |-> d]
    BY <1>1, SMT DEF TermState
  <1>3. QED
    BY <1>1, <1>2 DEF Sane, TermState, Here

----------------------------------------------------------------------------
(* add_line. *)

(* Two facts about pushing on a sequence and draining its head.            *)
LEMMA DrainOfPush ==
  ASSUME NEW S, NEW s \in Seq(S), NEW e \in S, NEW g \in Nat, g <= Len(s)
  PROVE  SubSeq(Append(s, e), g + 1, Len(s) + 1) = Append(SubSeq(s, g + 1, Len(s)), e)
  <1> DEFINE n == Len(s)
             pushed == Append(s, e)
             kept == SubSeq(pushed, g + 1, n + 1)
             old == SubSeq(s, g + 1, n)
             again == Append(old, e)
  <1>1. n \in Nat
    BY LenProperties
  <1>2. /\ pushed \in Seq(S) /\ Len(pushed) = n + 1 /\ pushed[n + 1] = e
        /\ \A i \in 1 .. n : pushed[i] = s[i]
    BY AppendProperties
  <1>3. kept \in Seq(S) /\ Len(kept) = n + 1 - g /\ \A i \in 1 .. n + 1 - g : kept[i] = pushed[g + i]
    <2>1. \A i \in g + 1 .. n + 1 : pushed[i] \in S
      BY <1>1, <1>2, ElementOfSeq
    <2> HIDE DEF pushed, n
    <2>2. /\ kept \in Seq(S)
          /\ Len(kept) = IF g + 1 <= n + 1 THEN (n + 1) - (g + 1) + 1 ELSE 0
          /\ \A i \in 1 .. (n + 1) - (g + 1) + 1 : kept[i] = pushed[(g + 1) + i - 1]
      <3>1. g + 1 \in Int /\ n + 1 \in Int
        BY <1>1
      <3>2. QED
        BY <2>1, <3>1, SubSeqProperties
    <2>3. (n + 1) - (g + 1) + 1 = n + 1 - g /\ g <= n
      BY <1>1 DEF n
    <2>4. \A i \in 1 .. n + 1 - g : (g + 1) + i - 1 = g + i
      BY <1>1
    <2> HIDE DEF kept
    <2>5. Len(kept) = n + 1 - g
      BY <1>1, <2>2, <2>3
    <2>6. QED
      BY <2>2, <2>3, <2>4, <2>5
  <1>4. old \in Seq(S) /\ Len(old) = n - g /\ \A i \in 1 .. n - g : old[i] = s[g + i]
    <2>1. \A i \in g + 1 .. n : s[i] \in S
      BY <1>1, ElementOfSeq
    <2> HIDE DEF n
    <2>2. /\ old \in Seq(S)
          /\ Len(old) = IF g + 1 <= n THEN n - (g + 1) + 1 ELSE 0
          /\ \A i \in 1 .. n - (g + 1) + 1 : old[i] = s[(g + 1) + i - 1]
      <3>1. g + 1 \in Int /\ n \in Int
        BY <1>1
      <3>2. QED
        BY <2>1, <3>1, SubSeqProperties
    <2>3. n - (g + 1) + 1 = n - g /\ g <= n
      BY <1>1 DEF n
    <2>4. \A i \in 1 .. n - g : (g + 1) + i - 1 = g + i
      BY <1>1
    <2> HIDE DEF old
    <2>5. Len(old) = n - g
      BY <1>1, <2>2, <2>3
    <2>6. QED
      BY <2>2, <2>3, <2>4, <2>5
  <1> HIDE DEF kept, old
  <1>5. /\ again \in Seq(S) /\ Len(again) = n + 1 - g /\ again[n + 1 - g] = e
        /\ \A i \in 1 .. n - g : again[i] = old[i]
    <2>1. (n - g) + 1 = n + 1 - g
      BY <1>1
    <2>2. QED
      BY <1>4, <2>1, AppendProperties
  <1> HIDE DEF again, pushed, n
  <1>6. \A i \in 1 .. Len(kept) : kept[i] = again[i]
    <2>1. SUFFICES ASSUME NEW i \in 1 .. n + 1 - g PROVE kept[i] = again[i]
      BY <1>3
    <2>2. CASE i = n + 1 - g
      <3>1. g + i = n + 1
        BY <1>1, <2>2
      <3>2. QED
        BY <1>2, <1>3, <1>5, <2>2, <3>1
    <2>3. CASE i \in 1 .. n - g
      <3>1. g + i \in 1 .. n
        BY <1>1, <2>3
      <3>2. QED
        BY <1>2, <1>3, <1>4, <1>5, <2>3, <3>1
    <2>4. QED
      BY <1>1, <2>2, <2>3
  <1>7. kept = again
    BY <1>3, <1>5, <1>6, SeqEqual
  <1>8. QED
    BY <1>7 DEF kept, again, pushed, old, n

(* The rows after add_line's push and drain: the old ones, or all of them  *)
(* but the Grace oldest, and an empty one.  The rows left by a drain still *)
(* overfill a window.                                                      *)
LEMMA DrainKeepsNewest ==
  ASSUME NEW rows \in Seq(Seq(Cells)), NEW n \in Nat, n = Len(rows), n + Grace < MaxLines
  PROVE  \/ /\ ~Overfull(n + 1)
            /\ Drained(Append(rows, <<>>)) = Append(rows, <<>>)
         \/ /\ Overfull(n + 1)
            /\ Drained(Append(rows, <<>>)) = Append(SubSeq(rows, Grace + 1, n), <<>>)
            /\ n + 1 - Grace > MaxVisible
            /\ n + 1 + Grace = MaxLines
  <1>1. Len(Append(rows, <<>>)) = n + 1 /\ <<>> \in Seq(Cells)
    BY AppendProperties, EmptySeq
  <1>2. CASE ~Overfull(n + 1)
    BY <1>1, <1>2, Zenon DEF Drained
  <1>3. CASE Overfull(n + 1)
    <2>1. n + 1 + Grace = MaxLines /\ n + 1 - Grace > MaxVisible /\ Grace <= n /\ Grace \in Nat
      BY <1>3, SizesAssumption DEF Overfull
    <2>2. Drained(Append(rows, <<>>)) = SubSeq(Append(rows, <<>>), Grace + 1, n + 1)
      BY <1>1, <1>3, Zenon DEF Drained
    <2>3. SubSeq(Append(rows, <<>>), Grace + 1, n + 1) = Append(SubSeq(rows, Grace + 1, n), <<>>)
      BY <1>1, <2>1, DrainOfPush
    <2>4. QED
      BY <1>3, <2>1, <2>2, <2>3
  <1>4. QED
    BY <1>2, <1>3

(* The window still follows the rows when add_line has scrolled or grown   *)
(* it: n rows before, m after; the three cases of the window's own code.   *)
LEMMA WindowFollows ==
  ASSUME NEW v \in [from : Nat, count : Nat], NEW n \in Nat, NEW m \in Nat \ {0},
         Follows(v, n),
         m = n + 1 \/ (m < n + 1 /\ m > MaxVisible)
  PROVE  LET from  == Scrolled(v, m)
             count == Grown(v, from, m)
         IN  /\ [from |-> from, count |-> count] \in [from : Nat, count : Nat]
             /\ Follows([from |-> from, count |-> count], m)
             /\ m = n + 1 => \/ from = v.from
                             \/ from = v.from + 1 /\ v.from < n
             /\ m < n + 1 => count = v.count
             /\ m > MaxVisible => count = v.count
  <1> DEFINE f == v.from
             c == v.count
             from  == Scrolled(v, m)
             count == Grown(v, from, m)
  <1>0. f \in Nat /\ c \in Nat /\ MaxVisible \in Nat \ {0} /\ v = [from |-> f, count |-> c]
    BY SizesAssumption
  <1>1. (f = n /\ c = 1) \/ (f + c = n /\ c \in 1 .. MaxVisible)
    <2>1. CASE v = [from |-> n, count |-> 1]
      BY <2>1
    <2>2. CASE f + c = n /\ c \in 1 .. MaxVisible
      BY <2>2
    <2>3. QED
      BY <2>1, <2>2 DEF Follows
  <1>2. from = IF m > MaxVisible THEN Least(f + 1, Monus(m, c)) ELSE f
    BY DEF Scrolled
  <1>3. count = LET k == Least(Least(c + 1, MaxVisible), Monus(m, from)) IN IF k = 0 THEN 1 ELSE k
    BY DEF Grown
  <1> HIDE DEF f, c, from, count
  <1>4. /\ from \in Nat /\ count \in Nat
        /\ (from = m /\ count = 1) \/ (from + count = m /\ count \in 1 .. MaxVisible)
        /\ m = n + 1 => from = f \/ (from = f + 1 /\ f < n)
        /\ m < n + 1 => count = c
        /\ m > MaxVisible => count = c
    <2>1. CASE m > MaxVisible
      <3>1. Monus(m, c) = m - c /\ m - c \in Nat
        BY <1>0, <1>1, <2>1 DEF Monus
      <3>2. from = m - c
        BY <1>0, <1>1, <1>2, <2>1, <3>1 DEF Least
      <3>3. count = c
        BY <1>0, <1>1, <1>3, <2>1, <3>1, <3>2 DEF Least, Monus
      <3>4. QED
        BY <1>0, <1>1, <2>1, <3>1, <3>2, <3>3
    <2>2. CASE m <= MaxVisible
      <3>1. m = n + 1 /\ from = f
        BY <1>0, <1>2, <2>2
      <3>2. Monus(m, from) = m - f /\ m - f \in Nat
        BY <1>0, <1>1, <3>1 DEF Monus
      <3>3. (f = n /\ count = 1) \/ (f + c = n /\ count = c + 1 /\ c >= 1)
        BY <1>0, <1>1, <1>3, <2>2, <3>1, <3>2 DEF Least
      <3>4. QED
        BY <1>0, <1>1, <2>2, <3>1, <3>2, <3>3
    <2>3. QED
      BY <1>0, <2>1, <2>2
  <1>5. Follows([from |-> from, count |-> count], m)
    BY <1>4 DEF Follows
  <1>6. QED
    BY <1>0, <1>4, <1>5, Zenon DEF f, c, from, count

(* The cursor moves with the drain: from the last of n rows to the last.   *)
LEMMA NextRowIsLast ==
  ASSUME NEW n \in Nat \ {0}
  PROVE  /\ ~Overfull(n + 1) => NextRow(n - 1, n + 1) = (n + 1) - 1
         /\ Overfull(n + 1) /\ n - Grace >= 1 => NextRow(n - 1, n + 1) = n - Grace
  <1>1. Grace \in Nat \ {0} /\ MaxLines \in Nat
    BY SizesAssumption
  <1>2. QED
    BY <1>1 DEF NextRow, Least, Monus, Overfull

(* add_line starts an empty line behind the ones it keeps. *)
LEMMA AddLineIsSane ==
  ASSUME NEW t, Sane(t)
  PROVE  LET u   == AddLine(t)
             old == Front(u.rows)
             n   == Len(t.rows)
         IN  /\ Sane(u)
             /\ Here(u) = EmptyLine
             /\ u.dirty \in Dirtyness \ {"Clean"}
             /\ u.rows = Append(old, <<>>)
             /\ \/ /\ old = t.rows
                   /\ \/ u.visible.from = t.visible.from
                      \/ u.visible.from = t.visible.from + 1 /\ t.visible.from < n
                \/ /\ old = SubSeq(t.rows, Grace + 1, n)
                   /\ n + 1 - Grace > MaxVisible /\ n + 1 + Grace = MaxLines
                   /\ u.visible.count = t.visible.count
             /\ n > MaxVisible => u.visible.count = t.visible.count
  <1> DEFINE n == Len(t.rows)
             pushed == Append(t.rows, <<>>)
             rows == Drained(pushed)
             m == Len(rows)
             old == Front(rows)
             from == Scrolled(t.visible, m)
             visible == [from |-> from, count |-> Grown(t.visible, from, m)]
             row == NextRow(t.cursor.row, n + 1)
             dirty == IF m > MaxVisible THEN Up(Partial(t.dirty)) ELSE Partial(t.dirty)
             u == [rows |-> rows, visible |-> visible, cursor |-> [row |-> row, col |-> 0],
                   dirty |-> dirty]
  <1>0. /\ t.rows \in Seq(Seq(Cells)) /\ n \in Nat \ {0} /\ n + Grace < MaxLines
        /\ t.cursor.row = n - 1
        /\ t.visible \in [from : Nat, count : Nat] /\ Follows(t.visible, n)
        /\ t.dirty \in Dirtyness
        /\ <<>> \in Seq(Cells)
    BY SaneFields, EmptySeq DEF Sane
  <1>1. Grace \in Nat \ {0} /\ MaxLines \in Nat /\ MaxVisible \in Nat \ {0}
    BY SizesAssumption
  <1>2. AddLine(t) = u
    <2>1. Len(pushed) = n + 1
      BY <1>0, AppendProperties
    <2>2. QED
      BY <2>1, Zenon DEF AddLine
  <1>3. dirty \in Dirtyness \ {"Clean"}
    BY <1>0, MarkedDirty
  <1>4. \/ ~Overfull(n + 1) /\ rows = pushed
        \/ /\ Overfull(n + 1)
           /\ rows = Append(SubSeq(t.rows, Grace + 1, n), <<>>)
           /\ n + 1 - Grace > MaxVisible /\ n + 1 + Grace = MaxLines
    BY <1>0, DrainKeepsNewest
  <1>5. PICK s \in {t.rows, SubSeq(t.rows, Grace + 1, n)} :
            /\ rows = Append(s, <<>>)
            /\ s \in Seq(Seq(Cells))
            /\ \/ s = t.rows /\ ~Overfull(n + 1) /\ Len(s) = n
               \/ /\ s = SubSeq(t.rows, Grace + 1, n)
                  /\ Overfull(n + 1)
                  /\ Len(s) = n - Grace
                  /\ n + 1 - Grace > MaxVisible /\ n + 1 + Grace = MaxLines
    <2>1. CASE ~Overfull(n + 1) /\ rows = pushed
      BY <1>0, <2>1
    <2>2. CASE /\ Overfull(n + 1)
               /\ rows = Append(SubSeq(t.rows, Grace + 1, n), <<>>)
               /\ n + 1 - Grace > MaxVisible /\ n + 1 + Grace = MaxLines
      <3>1. \A i \in Grace + 1 .. n : t.rows[i] \in Seq(Cells)
        BY <1>0, <1>1, ElementOfSeq
      <3>2. Grace + 1 <= n /\ Grace + 1 \in Int /\ n \in Int
        BY <1>0, <1>1, <2>2
      <3>3. /\ SubSeq(t.rows, Grace + 1, n) \in Seq(Seq(Cells))
            /\ Len(SubSeq(t.rows, Grace + 1, n)) = n - (Grace + 1) + 1
        BY <3>1, <3>2, SubSeqProperties
      <3>4. n - (Grace + 1) + 1 = n - Grace
        BY <1>0, <1>1
      <3>5. Len(SubSeq(t.rows, Grace + 1, n)) = n - Grace
        BY <3>3, <3>4
      <3>6. QED
        BY <2>2, <3>3, <3>5, Zenon
    <2>3. QED
      BY <1>4, <2>1, <2>2
  <1> HIDE DEF rows
  <1>6. /\ rows \in Seq(Seq(Cells)) /\ m = Len(s) + 1 /\ m \in Nat \ {0}
        /\ rows[m] = <<>> /\ rows # <<>> /\ old = s
    <2>1. /\ rows \in Seq(Seq(Cells)) /\ m = Len(s) + 1 /\ rows[Len(s) + 1] = <<>>
          /\ Len(s) \in Nat
      BY <1>0, <1>5, AppendProperties, LenProperties
    <2>2. SubSeq(rows, 1, Len(s)) = s
      <3>1. 0 <= Len(s) /\ 0 + 1 = 1
        BY <2>1
      <3>2. SubSeq(Append(s, <<>>), 1, Len(s)) \in Seq(Seq(Cells))
            /\ Len(SubSeq(Append(s, <<>>), 1, Len(s))) = Len(s)
            /\ \A i \in 1 .. Len(s) : SubSeq(Append(s, <<>>), 1, Len(s))[i] = s[i]
        BY <1>0, <1>5, <2>1, AppendProperties, SubSeqProperties, ElementOfSeq
      <3>3. QED
        BY <1>5, <3>2, SeqEqual
    <2>3. m - 1 = Len(s)
      BY <2>1
    <2>4. rows # <<>>
      BY <2>1, EmptySeq
    <2>5. QED
      BY <2>1, <2>2, <2>3, <2>4 DEF Front
  <1> HIDE DEF m
  <1>7. (m = n + 1 /\ s = t.rows /\ ~Overfull(n + 1))
        \/ (/\ m = n + 1 - Grace /\ m < n + 1 /\ m > MaxVisible
            /\ s = SubSeq(t.rows, Grace + 1, n) /\ Overfull(n + 1) /\ n + 1 + Grace = MaxLines)
    <2>0. n \in Nat \ {0}
      BY <1>0
    <2> HIDE DEF n
    <2>1. CASE s = t.rows /\ ~Overfull(n + 1) /\ Len(s) = n
      BY <1>6, <2>1
    <2>2. CASE /\ s = SubSeq(t.rows, Grace + 1, n)
               /\ Overfull(n + 1)
               /\ Len(s) = n - Grace
               /\ n + 1 - Grace > MaxVisible /\ n + 1 + Grace = MaxLines
      <3>1. m = n - Grace + 1 /\ n - Grace + 1 = n + 1 - Grace /\ n + 1 - Grace < n + 1
        BY <1>1, <1>6, <2>0, <2>2
      <3>2. QED
        BY <2>2, <3>1
    <2>3. QED
      BY <1>5, <2>1, <2>2
  <1>8. row = m - 1 /\ row \in Nat
    <2>1. n \in Nat \ {0} /\ t.cursor.row = n - 1
      BY <1>0
    <2> HIDE DEF n
    <2>2. row = NextRow(n - 1, n + 1)
      BY <2>1
    <2> HIDE DEF row
    <2>3. CASE m = n + 1 /\ ~Overfull(n + 1)
      BY <2>1, <2>2, <2>3, NextRowIsLast
    <2>4. CASE m = n + 1 - Grace /\ m > MaxVisible /\ Overfull(n + 1)
      <3>1. n - Grace >= 1 /\ n - Grace = m - 1
        BY <1>1, <2>1, <2>4
      <3>2. NextRow(n - 1, n + 1) = n - Grace
        BY <2>1, <2>4, <3>1, NextRowIsLast
      <3>3. QED
        BY <1>1, <2>1, <2>2, <3>1, <3>2
    <2>5. QED
      BY <1>7, <2>3, <2>4
  <1>9. /\ visible \in [from : Nat, count : Nat]
        /\ Follows(visible, m)
        /\ m = n + 1 => from = t.visible.from \/ (from = t.visible.from + 1 /\ t.visible.from < n)
        /\ m < n + 1 => visible.count = t.visible.count
        /\ m > MaxVisible => visible.count = t.visible.count
    <2>1. m = n + 1 \/ (m < n + 1 /\ m > MaxVisible)
      BY <1>7
    <2>2. n \in Nat
      BY <1>0
    <2> DEFINE count == Grown(t.visible, from, m)
    <2>3. /\ [from |-> from, count |-> count] \in [from : Nat, count : Nat]
          /\ Follows([from |-> from, count |-> count], m)
          /\ m = n + 1 => from = t.visible.from \/ (from = t.visible.from + 1 /\ t.visible.from < n)
          /\ m < n + 1 => count = t.visible.count
          /\ m > MaxVisible => count = t.visible.count
      <3>1. t.visible \in [from : Nat, count : Nat] /\ Follows(t.visible, n) /\ m \in Nat \ {0}
        BY <1>0, <1>6
      <3> HIDE DEF n
      <3>2. QED
        BY <2>1, <2>2, <3>1, WindowFollows, Zenon
    <2>4. visible.count = count
      OBVIOUS
    <2> HIDE DEF count, from
    <2>5. QED
      BY <2>3, <2>4, Zenon DEF count
  <1> HIDE DEF visible, dirty, row, from
  <1>10. Sane(u)
    <2>1. m + Grace < MaxLines
      BY <1>0, <1>1, <1>4, <1>7, SMTT(30) DEF Overfull
    <2>2. [row |-> row, col |-> 0] \in [row : Nat, col : Nat]
      BY <1>8
    <2>3. u \in TermState
      BY <1>3, <1>6, <1>9, <2>2 DEF TermState
    <2>4. Len(<<>>) = 0
      BY EmptySeq
    <2>5. QED
      BY <1>6, <1>8, <1>9, <2>1, <2>3, <2>4, SMTT(30) DEF Sane, m
  <1>11. Here(u) = EmptyLine
    <2>1. u.cursor.row + 1 = m
      BY <1>6, <1>8
    <2>2. QED
      BY <1>6, <2>1 DEF Here, EmptyLine
  <1>12. n > MaxVisible => m > MaxVisible
    BY <1>0, <1>1, <1>7
  <1>13. u.visible.from = from /\ u.visible = visible /\ u.rows = rows /\ u.dirty = dirty
    BY DEF visible
  <1> HIDE DEF u
  <1>14. QED
    BY <1>0, <1>1, <1>2, <1>3, <1>5, <1>6, <1>7, <1>9, <1>10, <1>11, <1>12, <1>13

----------------------------------------------------------------------------
(* The handlers that start a line: line feed, new line, clear screen.      *)

LEMMA FeedIsSane ==
  ASSUME NEW t, Sane(t)
  PROVE  /\ Sane(Feed(t)) /\ Here(Feed(t)) = EmptyLine
         /\ Feed(t).dirty # "Clean"
         /\ Feed(t).rows = AddLine(t).rows /\ Feed(t).visible = AddLine(t).visible
  <1> DEFINE u == AddLine(t)
  <1>1. Sane(u) /\ Here(u) = EmptyLine /\ u.dirty \in Dirtyness
    BY AddLineIsSane
  <1>2. Partial(u.dirty) \in Dirtyness /\ Partial(u.dirty) # "Clean"
    BY <1>1, MarkedDirty
  <1>3. Feed(t) = [u EXCEPT !.dirty = Partial(u.dirty)]
    BY DEF Feed
  <1> HIDE DEF u
  <1>4. QED
    BY <1>1, <1>2, <1>3, Remarked DEF u

LEMMA FreshLineIsSane ==
  ASSUME NEW t, Sane(t)
  PROVE  /\ Sane(FreshLine(t)) /\ Here(FreshLine(t)) = EmptyLine
         /\ FreshLine(t).dirty # "Clean"
         /\ FreshLine(t).rows = AddLine(t).rows /\ FreshLine(t).visible = AddLine(t).visible
  <1> DEFINE f == Feed(t)
             u == Return(f)
  <1>1. /\ Sane(f) /\ f.rows = AddLine(t).rows /\ f.visible = AddLine(t).visible
        /\ f.rows[Len(f.rows)] = <<>>
    <2>1. Sane(f) /\ f.rows = AddLine(t).rows /\ f.visible = AddLine(t).visible
          /\ Here(f) = EmptyLine
      BY FeedIsSane
    <2>2. f.cursor.row + 1 = Len(f.rows)
      BY <2>1, SaneFields
    <2>3. Here(f).line = f.rows[Len(f.rows)]
      BY <2>2 DEF Here
    <2>4. QED
      BY <2>1, <2>3 DEF EmptyLine
  <1> HIDE DEF f
  <1>2. /\ Sane(u) /\ Here(u) = EmptyLine /\ u.dirty = Partial(f.dirty)
        /\ u.visible = f.visible /\ u.rows = [f.rows EXCEPT ![Len(f.rows)] = <<>>]
    BY <1>1, ReturnIsSane
  <1>3. u.rows = f.rows
    <2>1. f.rows \in Seq(Seq(Cells)) /\ Len(f.rows) \in Nat \ {0}
      BY <1>1, SaneFields
    <2>2. QED
      BY <1>1, <1>2, <2>1
  <1>4. u.dirty \in Dirtyness
    BY <1>2, SaneFields
  <1>5. Up(u.dirty) \in Dirtyness /\ Up(u.dirty) # "Clean"
    BY <1>4, MarkedDirty
  <1>6. FreshLine(t) = [u EXCEPT !.dirty = Up(u.dirty)]
    BY DEF FreshLine, f
  <1> HIDE DEF u
  <1>7. QED
    BY <1>1, <1>2, <1>3, <1>5, <1>6, Remarked

LEMMA ClearedIsSane ==
  ASSUME NEW t, Sane(t)
  PROVE  /\ Sane(Cleared(t)) /\ Here(Cleared(t)) = EmptyLine
         /\ Cleared(t).dirty # "Clean"
         /\ Cleared(t).rows = AddLine(t).rows
         /\ Cleared(t).visible = [from |-> Len(AddLine(t).rows), count |-> 1]
  <1> DEFINE u == FreshLine(t)
             v == [from |-> Len(u.rows), count |-> 1]
  <1>1. Sane(u) /\ Here(u) = EmptyLine /\ u.rows = AddLine(t).rows
    BY FreshLineIsSane
  <1>2. Cleared(t) = [rows |-> u.rows, visible |-> v, cursor |-> u.cursor, dirty |-> "Full"]
    BY DEF Cleared
  <1> HIDE DEF u
  <1>3. v \in [from : Nat, count : Nat] /\ Follows(v, Len(u.rows))
    BY <1>1, SaneFields DEF Follows
  <1>4. Here(Cleared(t)) = Here(u)
    BY <1>2 DEF Here
  <1>5. Sane(Cleared(t))
    BY <1>1, <1>2, <1>3 DEF Sane, TermState, Dirtyness
  <1>6. QED
    BY <1>1, <1>2, <1>4, <1>5

----------------------------------------------------------------------------
(* What a handler that edits or moves in the cursor's line may do.         *)
Edits(l) ==
  \/ \E c \in Glyphs : l = TypeCell(Here(term), c)
  \/ l = PutTab(Here(term))
  \/ l = Erase(Here(term))
  \/ \E n \in 1 .. MaxMove : l = MoveBackward(Here(term), n) \/ l = MoveForward(Here(term), n)

(* Every step is an edit of the cursor's line, a cleared line, a new line  *)
(* or a draw.                                                              *)
LEMMA StepKinds ==
  ASSUME Sane(term), [Next]_vars
  PROVE  \/ \E l \in GoodLines, d \in Dirtyness \ {"Clean"} :
              Edits(l) /\ term' = AtCursor(term, l, d)
         \/ term' = Return(term)
         \/ term' \in {Feed(term), FreshLine(term), Cleared(term)}
         \/ term' = [term EXCEPT !.dirty = "Clean"] /\ frame' = Render(term)
         \/ UNCHANGED vars
  <1> DEFINE twice == Partial(Partial(term.dirty))
             once == Partial(term.dirty)
  <1>1. Here(term) \in GoodLines
    BY HereIsGood
  <1>2. twice \in Dirtyness \ {"Clean"} /\ once \in Dirtyness \ {"Clean"}
    BY SaneFields, MarkedDirty
  <1>3. ASSUME NEW c \in Glyphs, Input(c)
        PROVE  \E l \in GoodLines, d \in Dirtyness \ {"Clean"} : Edits(l) /\ term' = AtCursor(term, l, d)
    <2>1. c \in Cells
      BY DEF Cells
    <2>2. TypeCell(Here(term), c) \in GoodLines /\ Edits(TypeCell(Here(term), c))
      BY <1>1, <2>1, TypeCellStaysInLine DEF Edits
    <2>3. QED
      BY <1>2, <1>3, <2>2, Zenon DEF Input
  <1>4. ASSUME InputTab
        PROVE  \E l \in GoodLines, d \in Dirtyness \ {"Clean"} : Edits(l) /\ term' = AtCursor(term, l, d)
    <2>1. PutTab(Here(term)) \in GoodLines /\ Edits(PutTab(Here(term)))
      BY <1>1, PutTabStaysInLine DEF Edits
    <2>2. QED
      BY <1>2, <1>4, <2>1, Zenon DEF InputTab
  <1>5. ASSUME Backspace
        PROVE  \E l \in GoodLines, d \in Dirtyness \ {"Clean"} : Edits(l) /\ term' = AtCursor(term, l, d)
    <2>1. Erase(Here(term)) \in GoodLines /\ Edits(Erase(Here(term)))
      BY <1>1, EraseStaysInLine DEF Edits
    <2>2. QED
      BY <1>2, <1>5, <2>1, Zenon DEF Backspace
  <1>6. ASSUME NEW n \in 1 .. MaxMove, CursorBackward(n) \/ CursorForward(n)
        PROVE  \E l \in GoodLines, d \in Dirtyness \ {"Clean"} : Edits(l) /\ term' = AtCursor(term, l, d)
    <2>0. n \in Nat
      BY SizesAssumption
    <2>1. /\ MoveBackward(Here(term), n) \in GoodLines /\ Edits(MoveBackward(Here(term), n))
          /\ MoveForward(Here(term), n) \in GoodLines /\ Edits(MoveForward(Here(term), n))
      BY <1>1, <2>0, MovesStayInLine DEF Edits
    <2>2. QED
      BY <1>2, <1>6, <2>1, Zenon DEF CursorBackward, CursorForward
  <1>7. QED
    BY <1>3, <1>4, <1>5, <1>6
    DEF Next, CarriageReturn, Linefeed, Newline, ClearScreen, Flush

----------------------------------------------------------------------------
(* The invariant is inductive. *)

LEMMA InitSane == Init => IInv
  <1>1. SUFFICES ASSUME Init PROVE IInv
    OBVIOUS
  <1> DEFINE rows == << <<>> >>
  <1>2. rows \in Seq(Seq(Cells)) /\ Len(rows) = 1 /\ rows[1] = <<>> /\ rows # <<>> /\ Len(<<>>) = 0
    OBVIOUS
  <1> HIDE DEF rows
  <1>3. term = [rows |-> rows, visible |-> [from |-> 0, count |-> 1],
                cursor |-> [row |-> 0, col |-> 0], dirty |-> "Full"]
    BY <1>1 DEF Init, rows
  <1>4. Follows(term.visible, 1) /\ 1 + Grace < MaxLines
    BY <1>3, SizesAssumption DEF Follows
  <1>5. Sane(term)
    <2>1. /\ term.rows = rows /\ term.visible = [from |-> 0, count |-> 1]
          /\ term.cursor.row = 0 /\ term.cursor.col = 0
      BY <1>3
    <2>2. term \in TermState
      BY <1>2, <1>3 DEF TermState, Dirtyness
    <2>3. Len(term.rows) = 1 /\ term.rows[1] = <<>> /\ term.rows # <<>>
      BY <1>2, <2>1
    <2>4. /\ term.cursor.row = Len(term.rows) - 1
          /\ term.cursor.col <= Len(term.rows[Len(term.rows)])
          /\ Len(term.rows) + Grace < MaxLines
      <3>1. Len(term.rows[Len(term.rows)]) = 0
        BY <1>2, <2>3
      <3>2. QED
        BY <1>4, <2>1, <2>3, <3>1, SizesAssumption
    <2>5. Follows(term.visible, Len(term.rows))
      BY <1>4, <2>3, Zenon
    <2>6. QED
      BY <2>2, <2>3, <2>4, <2>5, Zenon DEF Sane
  <1>6. QED
    BY <1>3, <1>5 DEF IInv, DisplayFresh

(* What a draw shows does not depend on the dirty flag. *)
LEMMA RenderIgnoresDirty ==
  ASSUME NEW t, Sane(t), NEW d \in Dirtyness
  PROVE  Render([t EXCEPT !.dirty = d]) = Render(t)
  <1> DEFINE u == [t EXCEPT !.dirty = d]
  <1>1. u.rows = t.rows /\ u.visible = t.visible /\ u.cursor = t.cursor
    BY DEF Sane, TermState
  <1> HIDE DEF u
  <1>2. Shown(u) = Shown(t) /\ LastShown(u) = LastShown(t)
    BY <1>1, Zenon DEF Shown, LastShown
  <1>3. Here(u) = Here(t)
    BY <1>1, Zenon DEF Here
  <1>4. CursorShown(u) = CursorShown(t)
    BY <1>1, <1>2, Zenon DEF CursorShown
  <1>5. Render(u) = Render(t)
    BY <1>1, <1>2, <1>3, <1>4, Zenon DEF Render
  <1>6. QED
    BY <1>5 DEF u

LEMMA StepSane == IInv /\ [Next]_vars => IInv'
  <1>1. SUFFICES ASSUME Sane(term), DisplayFresh, [Next]_vars PROVE Sane(term') /\ DisplayFresh'
    BY DEF IInv
  <1>2. CASE \E l \in GoodLines, d \in Dirtyness \ {"Clean"} : Edits(l) /\ term' = AtCursor(term, l, d)
    <2>1. PICK l \in GoodLines, d \in Dirtyness \ {"Clean"} : term' = AtCursor(term, l, d)
      BY <1>2
    <2>2. d \in Dirtyness /\ d # "Clean"
      OBVIOUS
    <2>3. Sane(AtCursor(term, l, d))
      BY <1>1, <2>2, EditsAreSane
    <2>4. AtCursor(term, l, d).dirty = d
      BY DEF AtCursor
    <2>5. QED
      BY <2>1, <2>2, <2>3, <2>4 DEF DisplayFresh
  <1>3. CASE term' = Return(term)
    <2>1. Sane(term') /\ term'.dirty = Partial(term.dirty)
      BY <1>1, <1>3, ReturnIsSane
    <2>2. term'.dirty # "Clean"
      BY <1>1, <2>1, SaneFields, MarkedDirty
    <2>3. QED
      BY <2>1, <2>2 DEF DisplayFresh
  <1>4. CASE term' \in {Feed(term), FreshLine(term), Cleared(term)}
    <2>1. Sane(term') /\ term'.dirty # "Clean"
      BY <1>1, <1>4, FeedIsSane, FreshLineIsSane, ClearedIsSane
    <2>2. QED
      BY <2>1 DEF DisplayFresh
  <1>5. CASE term' = [term EXCEPT !.dirty = "Clean"] /\ frame' = Render(term)
    <2>1. "Clean" \in Dirtyness
      BY DEF Dirtyness
    <2>2. Sane(term') /\ Render(term') = Render(term)
      BY <1>1, <1>5, <2>1, Remarked, RenderIgnoresDirty
    <2>3. QED
      BY <1>5, <2>2 DEF DisplayFresh
  <1>6. CASE UNCHANGED vars
    BY <1>1, <1>6 DEF vars, DisplayFresh, Render, Shown, LastShown, CursorShown, Here
  <1>7. QED
    BY <1>1, <1>2, <1>3, <1>4, <1>5, <1>6, StepKinds

(* The inductive invariant of the screen state, from which all the rest    *)
(* follows.                                                                *)
THEOREM AlwaysSane == Spec => []IInv
  BY InitSane, StepSane, PTL DEF Spec

(* The cursor stays on the last row and inside its line, so that no handler *)
(* indexes a row or a line out of bounds.                                   *)
THEOREM CursorStays == Spec => []CursorInBounds
  BY SaneIsInv, AlwaysSane, PTL DEF IInv

(* The window shows the end of the buffer, or nothing after a cleared       *)
(* screen, across every line added and every drain.                         *)
THEOREM WindowStays == Spec => []WindowIsTail
  BY SaneIsInv, AlwaysSane, PTL DEF IInv

(* The history never reaches MaxLines: a drain comes in time.               *)
THEOREM HistoryBounded == Spec => []BoundedHistory
  BY SaneIsInv, AlwaysSane, PTL DEF IInv

(* A screen that is not marked dirty is the one the buffer would draw: every *)
(* handler that changes what a draw shows marks it.                          *)
THEOREM CleanIsCurrent == Spec => []DisplayFresh
  BY AlwaysSane, PTL DEF IInv

----------------------------------------------------------------------------
(* What a draw puts on the screen. *)
LEMMA WidenedType ==
  ASSUME NEW line \in Seq(Cells)
  PROVE  Widened(line) \in Seq(Glyphs \cup {Blank}) /\ Len(Widened(line)) \in Nat
  <1> DEFINE n == Len(line)
             S == Seq(Glyphs \cup {Blank})
             step == [i \in 1 .. n |-> [s \in S |-> s \o Drawn(line[i])]]
             rec(g) == [i \in 0 .. n |-> IF i = 0 THEN <<>> ELSE g[i - 1] \o Drawn(line[i])]
             f == CHOOSE g : g = rec(g)
  <1>1. n \in Nat /\ \A i \in 1 .. n : line[i] \in Cells
    BY LenProperties, ElementOfSeq
  <1>2. \A c \in Cells : Drawn(c) \in S
    <2>1. [j \in 1 .. TabWidth |-> Blank] \in S
      BY SizesAssumption
    <2>2. \A c \in Glyphs : << c >> \in S
      OBVIOUS
    <2> HIDE DEF S
    <2>3. QED
      BY <2>1, <2>2, Zenon DEF Drawn, Cells
  <1>3. \A s \in S, i \in 1 .. n : s \o Drawn(line[i]) \in S
    BY <1>1, <1>2, ConcatProperties
  <1>4. <<>> \in S
    OBVIOUS
  <1> HIDE DEF S
  <1>5. step \in [1 .. n -> [S -> S]]
    BY <1>3
  <1>6. PICK t : Computes(t, n, S, <<>>, step)
    <2> HIDE DEF step, n
    <2>1. QED
      BY <1>1, <1>4, <1>5, Recursion
  <1>7. /\ t \in [0 .. n -> S] /\ t[0] = <<>>
        /\ \A i \in 1 .. n : t[i] = t[i - 1] \o Drawn(line[i])
    <2>1. /\ t \in [0 .. n -> S] /\ t[0] = <<>>
          /\ \A i \in 1 .. n : t[i] = step[i][t[i - 1]]
      BY <1>6, Zenon DEF Computes
    <2>2. ASSUME NEW i \in 1 .. n PROVE step[i][t[i - 1]] = t[i - 1] \o Drawn(line[i])
      <3>1. t[i - 1] \in S
        BY <1>1, <2>1
      <3>2. QED
        BY <3>1, Zenon
    <2>3. QED
      BY <2>1, <2>2, Zenon
  <1>8. t = rec(t)
    BY <1>1, <1>7
  <1>9. f = rec(f)
    <2> HIDE DEF rec
    <2>1. QED
      BY <1>8, Zenon
  <1>10. Widened(line) = f[n]
    BY DEF Widened
  <1> HIDE DEF f, n
  <1>11. f[0] = <<>> /\ \A i \in 1 .. n : f[i] = f[i - 1] \o Drawn(line[i])
    <2>1. \A i \in 0 .. n : f[i] = IF i = 0 THEN <<>> ELSE f[i - 1] \o Drawn(line[i])
      BY <1>9, Zenon
    <2>2. 0 \in 0 .. n /\ \A i \in 1 .. n : i \in 0 .. n /\ i # 0
      BY <1>1
    <2>3. QED
      BY <2>1, <2>2, Zenon
  <1> DEFINE E == {i \in 0 .. n : f[i] \in S}
  <1>12. 0 \in E /\ \A i \in 1 .. n : i - 1 \in E => i \in E
    <2>1. 0 \in 0 .. n /\ \A i \in 1 .. n : i \in 0 .. n
      BY <1>1
    <2>2. QED
      BY <1>3, <1>4, <1>11, <2>1, Zenon
  <1>13. 0 .. n \subseteq E
    <2> HIDE DEF E
    <2>1. QED
      BY <1>1, <1>12, UpTo
  <1>14. Widened(line) \in S
    BY <1>1, <1>10, <1>13
  <1>15. QED
    BY <1>14, LenProperties DEF S

LEMMA RenderType ==
  ASSUME NEW t, Sane(t)
  PROVE  Render(t) \in Frames
  <1>1. /\ t.rows \in Seq(Seq(Cells)) /\ Len(t.rows) \in Nat
        /\ t.visible \in [from : Nat, count : Nat]
        /\ t.cursor.row \in Nat /\ t.cursor.col \in Nat
        /\ t.cursor.row + 1 = Len(t.rows)
    BY SaneFields DEF Sane, TermState
  <1> DEFINE from == t.visible.from + 1
             to == LastShown(t)
  <1>2. from \in Nat \ {0} /\ to \in Nat /\ to <= Len(t.rows)
    BY <1>1 DEF LastShown, Least
  <1>3. \A i \in from .. to : t.rows[i] \in Seq(Cells)
    BY <1>1, <1>2, ElementOfSeq
  <1>4. Shown(t) \in Seq(Seq(Cells))
    <2> HIDE DEF from, to
    <2>1. SubSeq(t.rows, from, to) \in Seq(Seq(Cells))
      BY <1>2, <1>3, SubSeqProperties
    <2>2. QED
      BY <2>1 DEF Shown, from, to
  <1>5. [i \in 1 .. Len(Shown(t)) |-> Widened(Shown(t)[i])] \in Seq(Seq(Glyphs \cup {Blank}))
    <2>1. Len(Shown(t)) \in Nat
      BY <1>4, LenProperties
    <2>2. \A i \in 1 .. Len(Shown(t)) : Widened(Shown(t)[i]) \in Seq(Glyphs \cup {Blank})
      BY <1>4, ElementOfSeq, WidenedType
    <2>3. QED
      BY <2>1, <2>2
  <1>6. Here(t).line \in Seq(Cells)
    BY <1>1, ElementOfSeq DEF Here
  <1>7. Len(Widened(Here(t).line)) \in Nat
    BY <1>6, WidenedType
  <1>8. (IF CursorShown(t)
         THEN << t.cursor.row - t.visible.from, Least(t.cursor.col, Len(Widened(Here(t).line))) >>
         ELSE <<>>) \in Seq(Nat)
    <2>1. Least(t.cursor.col, Len(Widened(Here(t).line))) \in Nat
      BY <1>1, <1>7 DEF Least
    <2>2. CursorShown(t) => t.cursor.row - t.visible.from \in Nat
      <3>1. t.cursor.row \in Nat /\ t.visible.from \in Nat
        BY <1>1
      <3>2. LastShown(t) \in Nat
        BY <1>2
      <3>3. SUFFICES ASSUME t.cursor.row + 1 \in t.visible.from + 1 .. LastShown(t)
                     PROVE  t.cursor.row - t.visible.from \in Nat
        BY DEF CursorShown
      <3>4. t.cursor.row + 1 >= t.visible.from + 1
        BY <3>1, <3>2, <3>3
      <3>5. QED
        BY <3>1, <3>4
    <2>3. QED
      BY <2>1, <2>2
  <1>9. QED
    BY <1>5, <1>8 DEF Render, Frames

FrameOK == frame \in Frames

(* The screen state and the frame keep their types: the rows hold cells and *)
(* the frame what is drawn of them.                                         *)
THEOREM ScreenType == Spec => []TypeOK
  <1>1. Init => FrameOK
    BY EmptySeq DEF Init, Frames, FrameOK
  <1>2. IInv /\ FrameOK /\ [Next]_vars => FrameOK'
    <2> SUFFICES ASSUME Sane(term), FrameOK, [Next]_vars PROVE FrameOK'
      BY DEF IInv
    <2>1. UNCHANGED frame \/ frame' = Render(term)
      BY DEF Next, vars, Input, InputTab, Backspace, CursorBackward, CursorForward,
             CarriageReturn, Linefeed, Newline, ClearScreen, Flush
    <2>2. QED
      BY <2>1, RenderType DEF FrameOK
  <1>3. IInv /\ FrameOK => TypeOK
    BY SaneIsInv DEF IInv, TypeOK, FrameOK
  <1>4. QED
    BY <1>1, <1>2, <1>3, AlwaysSane, PTL DEF Spec

----------------------------------------------------------------------------
(* Action properties, from the same invariant. *)

(* Once the rows overfill a window, no step of the terminal widens it.     *)
THEOREM NarrowStays == Spec => NarrowWindowStays
  <1>1. IInv /\ [Next]_vars
          => [Len(term.rows) > MaxVisible => term'.visible.count <= term.visible.count]_vars
    <2>1. SUFFICES ASSUME Sane(term), [Next]_vars, Len(term.rows) > MaxVisible
                   PROVE  term'.visible.count <= term.visible.count
      BY DEF IInv
    <2>2. term.visible.count \in Nat \ {0}
      BY <2>1, SaneFields DEF Sane, Follows
    <2>3. CASE \E l \in GoodLines, d \in Dirtyness \ {"Clean"} : Edits(l) /\ term' = AtCursor(term, l, d)
      <3>1. PICK l \in GoodLines, d \in Dirtyness \ {"Clean"} : term' = AtCursor(term, l, d)
        BY <2>3
      <3>2. AtCursor(term, l, d).visible = term.visible
        BY DEF AtCursor
      <3>3. QED
        BY <2>2, <3>1, <3>2
    <2>4. CASE term' = Return(term)
      <3>1. Return(term).visible = term.visible
        BY <2>1, ReturnIsSane
      <3>2. QED
        BY <2>2, <2>4, <3>1
    <2>5. CASE term' \in {Feed(term), FreshLine(term), Cleared(term)}
      <3>1. AddLine(term).visible.count = term.visible.count
        BY <2>1, AddLineIsSane
      <3>2. /\ Feed(term).visible = AddLine(term).visible
            /\ FreshLine(term).visible = AddLine(term).visible
            /\ Cleared(term).visible.count = 1
        <4>1. Cleared(term).visible = [from |-> Len(AddLine(term).rows), count |-> 1]
          BY <2>1, ClearedIsSane, Zenon
        <4>2. Cleared(term).visible.count = 1
          BY <4>1
        <4>3. QED
          BY <2>1, <4>2, FeedIsSane, FreshLineIsSane, Zenon
      <3>3. QED
        BY <2>2, <2>5, <3>1, <3>2
    <2>6. CASE term' = [term EXCEPT !.dirty = "Clean"]
      <3>1. term'.visible = term.visible
        BY <2>1, <2>6 DEF Sane, TermState
      <3>2. QED
        BY <2>2, <3>1
    <2>7. CASE UNCHANGED vars
      BY <2>2, <2>7 DEF vars
    <2>8. QED
      BY <2>1, <2>3, <2>4, <2>5, <2>6, <2>7, StepKinds
  <1>2. QED
    BY <1>1, AlwaysSane, PTL DEF Spec, NarrowWindowStays

(* Replacing the last element leaves every stretch before it alone.        *)
LEMMA BeforeLast ==
  ASSUME NEW S, NEW s \in Seq(S), s # <<>>, NEW e \in S, NEW f \in Nat
  PROVE  /\ Len([s EXCEPT ![Len(s)] = e]) = Len(s)
         /\ SubSeq([s EXCEPT ![Len(s)] = e], f + 1, Len(s) - 1) = SubSeq(s, f + 1, Len(s) - 1)
  <1> DEFINE n == Len(s)
             r == [s EXCEPT ![n] = e]
             a == SubSeq(r, f + 1, n - 1)
             b == SubSeq(s, f + 1, n - 1)
  <1>1. n \in Nat \ {0}
    BY EmptySeq
  <1>2. r \in Seq(S) /\ Len(r) = n /\ \A i \in 1 .. n - 1 : r[i] = s[i]
    BY <1>1, ExceptSeq
  <1>3. \A i \in f + 1 .. n - 1 : s[i] \in S /\ r[i] \in S /\ r[i] = s[i]
    <2>1. SUFFICES ASSUME NEW i \in f + 1 .. n - 1 PROVE s[i] \in S /\ r[i] \in S /\ r[i] = s[i]
      OBVIOUS
    <2>2. i \in 1 .. n - 1 /\ i \in 1 .. Len(s)
      BY <1>1
    <2>3. s[i] \in S
      BY <2>2, ElementOfSeq
    <2>4. r[i] = s[i]
      BY <1>2, <2>2
    <2>5. QED
      BY <2>3, <2>4
  <1> HIDE DEF r, n
  <1>4. /\ f + 1 \in Int /\ n - 1 \in Int
        /\ \A i \in f + 1 .. n - 1 : s[i] \in S
        /\ \A i \in f + 1 .. n - 1 : r[i] \in S
    BY <1>1, <1>3
  <1>5. /\ b \in Seq(S) /\ Len(b) = IF f + 1 <= n - 1 THEN (n - 1) - (f + 1) + 1 ELSE 0
        /\ \A i \in 1 .. (n - 1) - (f + 1) + 1 : b[i] = s[(f + 1) + i - 1]
    BY <1>4, SubSeqProperties
  <1>6. /\ a \in Seq(S) /\ Len(a) = IF f + 1 <= n - 1 THEN (n - 1) - (f + 1) + 1 ELSE 0
        /\ \A i \in 1 .. (n - 1) - (f + 1) + 1 : a[i] = r[(f + 1) + i - 1]
    BY <1>4, SubSeqProperties
  <1> HIDE DEF a, b
  <1>7. ASSUME NEW i \in 1 .. Len(a) PROVE a[i] = b[i]
    <2>1. f + 1 <= n - 1 /\ i \in 1 .. (n - 1) - (f + 1) + 1
      BY <1>1, <1>6
    <2>2. (f + 1) + i - 1 \in f + 1 .. n - 1
      BY <1>1, <2>1
    <2>3. QED
      BY <1>3, <1>5, <1>6, <2>1, <2>2
  <1>8. a = b
    BY <1>5, <1>6, <1>7, SeqEqual
  <1>9. QED
    BY <1>2, <1>8 DEF a, b, r, n

(* An edit leaves the window and every row but the cursor's alone, so does *)
(* a draw.                                                                 *)
LEMMA EditKeepsRows ==
  ASSUME Sane(term), [Next]_vars, term' \notin {Feed(term), FreshLine(term), Cleared(term)}
  PROVE  /\ term'.visible = term.visible
         /\ Len(term'.rows) = Len(term.rows)
         /\ \A f \in Nat : SubSeq(term'.rows, f + 1, Len(term'.rows) - 1)
                              = SubSeq(term.rows, f + 1, Len(term.rows) - 1)
  <1> DEFINE n == Len(term.rows)
  <1>1. term.rows \in Seq(Seq(Cells)) /\ term.rows # <<>> /\ term.cursor.row + 1 = n
    BY SaneFields DEF Sane
  <1>2. ASSUME NEW x \in Seq(Cells), term'.rows = [term.rows EXCEPT ![n] = x],
               term'.visible = term.visible
        PROVE  /\ Len(term'.rows) = n
               /\ \A f \in Nat : SubSeq(term'.rows, f + 1, n - 1) = SubSeq(term.rows, f + 1, n - 1)
    BY <1>1, <1>2, BeforeLast
  <1>3. CASE \E l \in GoodLines, d \in Dirtyness \ {"Clean"} : Edits(l) /\ term' = AtCursor(term, l, d)
    <2>1. PICK l \in GoodLines, d \in Dirtyness \ {"Clean"} : term' = AtCursor(term, l, d)
      BY <1>3
    <2>2. l.line \in Seq(Cells)
      BY DEF GoodLines, CaretLines
    <2>3. /\ AtCursor(term, l, d).visible = term.visible
          /\ AtCursor(term, l, d).rows = [term.rows EXCEPT ![n] = l.line]
      BY <1>1 DEF AtCursor, ReplaceAt
    <2>4. QED
      BY <1>2, <2>1, <2>2, <2>3
  <1>4. CASE term' = Return(term)
    <2>1. <<>> \in Seq(Cells)
      BY EmptySeq
    <2>2. /\ Return(term).visible = term.visible
          /\ Return(term).rows = [term.rows EXCEPT ![n] = <<>>]
      BY DEF Return, ReplaceAt
    <2>3. QED
      BY <1>2, <1>4, <2>1, <2>2
  <1>5. CASE term' = [term EXCEPT !.dirty = "Clean"] \/ UNCHANGED vars
    <2>1. term'.rows = term.rows /\ term'.visible = term.visible
      BY <1>5 DEF vars, Sane, TermState
    <2>2. QED
      BY <2>1
  <1>6. QED
    BY <1>3, <1>4, <1>5, StepKinds

(* A step that starts a line starts it as add_line does. *)
LEMMA LineRows ==
  ASSUME Sane(term), term' \in {Feed(term), FreshLine(term), Cleared(term)}
  PROVE  /\ term'.rows = AddLine(term).rows
         /\ \/ term'.visible = AddLine(term).visible
            \/ JustCleared'
  <1>1. CASE term' = Feed(term)
    BY <1>1, FeedIsSane
  <1>2. CASE term' = FreshLine(term)
    BY <1>2, FreshLineIsSane
  <1>3. CASE term' = Cleared(term)
    BY <1>3, ClearedIsSane DEF JustCleared
  <1>4. QED
    BY <1>1, <1>2, <1>3

(* The lines above the cursor never change; a drain takes exactly the      *)
(* Grace oldest, in the step that also adds the line the cursor leaves.    *)
THEOREM HistoryKept == Spec => HistoryImmutable
  <1> DEFINE kept == Front(term'.rows) \in { Front(term.rows), term.rows,
                                             SubSeq(term.rows, Grace + 1, Len(term.rows)) }
  <1>1. IInv /\ [Next]_vars => [kept]_vars
    <2>1. SUFFICES ASSUME Sane(term), [Next]_vars PROVE kept
      BY DEF IInv
    <2>2. CASE term' \notin {Feed(term), FreshLine(term), Cleared(term)}
      <3>1. SubSeq(term'.rows, 0 + 1, Len(term'.rows) - 1) = SubSeq(term.rows, 0 + 1, Len(term.rows) - 1)
        BY <2>1, <2>2, EditKeepsRows
      <3>2. 0 + 1 = 1
        OBVIOUS
      <3>3. QED
        BY <3>1, <3>2 DEF Front
    <2>3. CASE term' \in {Feed(term), FreshLine(term), Cleared(term)}
      <3>1. term'.rows = AddLine(term).rows
        BY <2>1, <2>3, LineRows
      <3>2. \/ Front(AddLine(term).rows) = term.rows
            \/ Front(AddLine(term).rows) = SubSeq(term.rows, Grace + 1, Len(term.rows))
        BY <2>1, AddLineIsSane
      <3>3. QED
        BY <3>1, <3>2
    <2>4. QED
      BY <2>2, <2>3
  <1>2. QED
    BY <1>1, AlwaysSane, PTL DEF Spec, HistoryImmutable

(* A stretch that ends before the pushed element is one of the old rows.   *)
LEMMA SubSeqOfPush ==
  ASSUME NEW S, NEW s \in Seq(S), NEW e \in S, NEW f \in Nat
  PROVE  SubSeq(Append(s, e), f + 1, Len(Append(s, e)) - 1) = SubSeq(s, f + 1, Len(s))
  <1> DEFINE r == Append(s, e)
             n == Len(s)
             a == SubSeq(r, f + 1, n)
             b == SubSeq(s, f + 1, n)
  <1>1. /\ n \in Nat /\ Len(r) - 1 = n
        /\ \A i \in f + 1 .. n : s[i] \in S /\ r[i] = s[i]
    <2>1. n \in Nat /\ Len(r) = n + 1 /\ \A i \in 1 .. n : r[i] = s[i]
      BY AppendProperties, LenProperties
    <2>2. ASSUME NEW i \in f + 1 .. n PROVE i \in 1 .. n
      BY <2>1, <2>2
    <2>3. \A i \in 1 .. n : s[i] \in S
      BY ElementOfSeq
    <2>4. QED
      BY <2>1, <2>2, <2>3
  <1> HIDE DEF r, n
  <1>2. /\ f + 1 \in Int /\ n \in Int
        /\ \A i \in f + 1 .. n : s[i] \in S
        /\ \A i \in f + 1 .. n : r[i] \in S
    BY <1>1
  <1>3. /\ b \in Seq(S) /\ Len(b) = IF f + 1 <= n THEN n - (f + 1) + 1 ELSE 0
        /\ \A i \in 1 .. n - (f + 1) + 1 : b[i] = s[(f + 1) + i - 1]
    BY <1>2, SubSeqProperties
  <1>4. /\ a \in Seq(S) /\ Len(a) = IF f + 1 <= n THEN n - (f + 1) + 1 ELSE 0
        /\ \A i \in 1 .. n - (f + 1) + 1 : a[i] = r[(f + 1) + i - 1]
    BY <1>2, SubSeqProperties
  <1> HIDE DEF a, b
  <1>5. ASSUME NEW i \in 1 .. Len(a) PROVE a[i] = b[i]
    <2>1. f + 1 <= n /\ i \in 1 .. n - (f + 1) + 1
      BY <1>1, <1>4
    <2>2. (f + 1) + i - 1 \in f + 1 .. n
      BY <1>1, <2>1
    <2>3. QED
      BY <1>1, <1>3, <1>4, <2>1, <2>2
  <1>6. a = b
    BY <1>3, <1>4, <1>5, SeqEqual
  <1>7. QED
    BY <1>1, <1>6, Zenon DEF a, b, r, n

(* The two shapes of a sane state's window, in numbers.                     *)
LEMMA SaneWindow ==
  ASSUME NEW t, Sane(t)
  PROVE  LET n == Len(t.rows)
             f == t.visible.from
             c == t.visible.count
         IN  /\ n \in Nat \ {0} /\ f \in Nat /\ c \in Nat
             /\ (f = n /\ c = 1) \/ (f + c = n /\ c \in 1 .. MaxVisible)
  <1> DEFINE n == Len(t.rows)
             v == t.visible
  <1>1. n \in Nat \ {0} /\ v \in [from : Nat, count : Nat]
    BY SaneFields
  <1>2. v = [from |-> n, count |-> 1] \/ (v.from + v.count = n /\ v.count \in 1 .. MaxVisible)
    BY DEF Sane, Follows
  <1> HIDE DEF n, v
  <1>3. (v.from = n /\ v.count = 1) \/ (v.from + v.count = n /\ v.count \in 1 .. MaxVisible)
    <2>1. CASE v = [from |-> n, count |-> 1]
      BY <2>1
    <2>2. QED
      BY <1>2, <2>1
  <1>4. v.from \in Nat /\ v.count \in Nat
    BY <1>1
  <1>5. QED
    BY <1>1, <1>3, <1>4, Zenon DEF n, v

(* In a sane state the window shows everything from its first row on.      *)
LEMMA ShownToTheEnd ==
  ASSUME Sane(term)
  PROVE  LET n == Len(term.rows)
             f == term.visible.from
         IN  /\ Shown(term) = SubSeq(term.rows, f + 1, n)
             /\ f < n => /\ Shown(term) # <<>>
                         /\ Tail(Shown(term)) = SubSeq(term.rows, (f + 1) + 1, n)
             /\ f = n => Shown(term) = <<>>
  <1> DEFINE n == Len(term.rows)
             f == term.visible.from
             c == term.visible.count
  <1>1. /\ term.rows \in Seq(Seq(Cells)) /\ n \in Nat \ {0} /\ f \in Nat /\ c \in Nat
        /\ (f = n /\ c = 1) \/ (f + c = n /\ c \in 1 .. MaxVisible)
    <2>1. term.rows \in Seq(Seq(Cells))
      BY SaneFields
    <2>2. QED
      BY <2>1, SaneWindow, Zenon
  <1>2. LastShown(term) = n
    <2>1. LastShown(term) = Least(f + c, n)
      BY DEF LastShown
    <2> HIDE DEF f, c, n
    <2>2. QED
      BY <1>1, <2>1 DEF Least
  <1>3. Shown(term) = SubSeq(term.rows, f + 1, n)
    BY <1>2, Zenon DEF Shown
  <1>4. ASSUME f < n
        PROVE  /\ Shown(term) # <<>>
               /\ Tail(Shown(term)) = SubSeq(term.rows, (f + 1) + 1, n)
    <2>1. f + 1 \in 1 .. n /\ n \in f + 1 .. n
      BY <1>1, <1>4
    <2>2. Tail(SubSeq(term.rows, f + 1, n)) = SubSeq(term.rows, (f + 1) + 1, n)
      BY <1>1, <2>1, HeadTailOfSubSeq
    <2>3. \A i \in f + 1 .. n : term.rows[i] \in Seq(Cells)
      <3>1. ASSUME NEW i \in f + 1 .. n PROVE i \in 1 .. n
        BY <1>1
      <3>2. QED
        BY <1>1, <3>1, ElementOfSeq
    <2>4. f + 1 \in Int /\ n \in Int /\ f + 1 <= n
      BY <1>1, <1>4
    <2>5. Len(SubSeq(term.rows, f + 1, n)) = n - (f + 1) + 1
      BY <2>3, <2>4, SubSeqProperties
    <2>6. n - (f + 1) + 1 # 0 /\ Len(<<>>) = 0
      BY <1>1, <1>4
    <2>7. QED
      BY <1>3, <2>2, <2>5, <2>6
  <1>5. ASSUME f = n PROVE Shown(term) = <<>>
    <2>1. f + 1 \in Int /\ n \in Int /\ n < f + 1
      BY <1>1, <1>5
    <2>2. SubSeq(term.rows, f + 1, n) = <<>>
      BY <2>1, SubSeqEmpty
    <2>3. QED
      BY <1>3, <2>2
  <1>6. QED
    BY <1>3, <1>4, <1>5

(* What is shown above the cursor after a line was added, with and without *)
(* a drain.                                                                *)
LEMMA AddedLineScrolls ==
  ASSUME Sane(term), Sane(term'),
         term'.rows = AddLine(term).rows, term'.visible = AddLine(term).visible
  PROVE  \/ ShownAbove(term') = Shown(term)
         \/ Shown(term) # <<>> /\ ShownAbove(term') = Tail(Shown(term))
         \/ JustCleared'
  <1> DEFINE n == Len(term.rows)
             f == term.visible.from
             c == term.visible.count
             g == term'.visible.from
             old == Front(term'.rows)
             drained == SubSeq(term.rows, Grace + 1, n)
  <1>1. /\ term.rows \in Seq(Seq(Cells)) /\ n \in Nat \ {0} /\ f \in Nat /\ c \in Nat
        /\ (f = n /\ c = 1) \/ (f + c = n /\ c \in 1 .. MaxVisible)
        /\ g \in Nat /\ term'.rows \in Seq(Seq(Cells)) /\ term'.rows # <<>>
        /\ Grace \in Nat \ {0} /\ MaxVisible \in Nat \ {0}
    <2>1. term.rows \in Seq(Seq(Cells))
      BY SaneFields
    <2>2. g \in Nat
      BY SaneWindow, Zenon
    <2>3. term'.rows \in Seq(Seq(Cells)) /\ term'.rows # <<>>
      BY SaneFields DEF Sane
    <2>4. Grace \in Nat \ {0} /\ MaxVisible \in Nat \ {0}
      BY SizesAssumption
    <2>5. QED
      BY <2>1, <2>2, <2>3, <2>4, SaneWindow, Zenon
  <1>2. /\ term'.rows = Append(old, <<>>)
        /\ \/ /\ old = term.rows
              /\ g = f \/ (g = f + 1 /\ f < n)
           \/ /\ old = drained
              /\ n + 1 - Grace > MaxVisible
              /\ term'.visible.count = c
    BY AddLineIsSane
  <1>3. old \in Seq(Seq(Cells)) /\ <<>> \in Seq(Cells)
    <2>1. Len(term'.rows) \in Nat \ {0}
      BY <1>1, EmptySeq
    <2>2. ASSUME NEW i \in 1 .. Len(term'.rows) - 1 PROVE i \in 1 .. Len(term'.rows)
      BY <2>1
    <2>3. \A i \in 1 .. Len(term'.rows) - 1 : term'.rows[i] \in Seq(Cells)
      BY <1>1, <2>2, ElementOfSeq
    <2>4. 1 \in Int /\ Len(term'.rows) - 1 \in Int
      BY <2>1
    <2>5. QED
      BY <2>3, <2>4, SubSeqProperties, EmptySeq DEF Front
  <1>4. ShownAbove(term') = SubSeq(old, g + 1, Len(old))
    <2>1. ShownAbove(term') = SubSeq(term'.rows, g + 1, Len(term'.rows) - 1)
      BY DEF ShownAbove
    <2> HIDE DEF old, g
    <2>2. SubSeq(Append(old, <<>>), g + 1, Len(Append(old, <<>>)) - 1) = SubSeq(old, g + 1, Len(old))
      BY <1>1, <1>3, SubSeqOfPush
    <2>3. QED
      BY <1>2, <2>1, <2>2
  <1>5. CASE old = term.rows /\ (g = f \/ (g = f + 1 /\ f < n))
    <2>1. CASE g = f
      BY <1>4, <1>5, <2>1, ShownToTheEnd
    <2>2. CASE g = f + 1 /\ f < n
      BY <1>4, <1>5, <2>2, ShownToTheEnd
    <2>3. QED
      BY <1>5, <2>1, <2>2
  <1>6. CASE /\ old = drained
             /\ n + 1 - Grace > MaxVisible
             /\ term'.visible.count = c
    <2> HIDE DEF n, f, c, g, old, drained
    <2>1. Grace + 1 \in 1 .. n /\ n \in 1 .. n
      BY <1>1, <1>6
    <2>2. Len(drained) = n - Grace
      <3>1. ASSUME NEW i \in Grace + 1 .. n PROVE i \in 1 .. n
        BY <1>1
      <3>2. \A i \in Grace + 1 .. n : term.rows[i] \in Seq(Cells)
        BY <1>1, <3>1, ElementOfSeq DEF n
      <3>3. Grace + 1 \in Int /\ n \in Int /\ Grace + 1 <= n /\ n - (Grace + 1) + 1 = n - Grace
        BY <1>1, <2>1
      <3>4. Len(drained) = n - (Grace + 1) + 1
        BY <3>2, <3>3, SubSeqProperties DEF drained
      <3>5. QED
        BY <3>3, <3>4
    <2>3. Len(term'.rows) = n + 1 - Grace
      <3>1. Len(old) = n - Grace
        BY <1>6, <2>2
      <3>2. Len(Append(old, <<>>)) = Len(old) + 1
        BY <1>3, AppendProperties
      <3>3. QED
        BY <1>1, <1>2, <3>1, <3>2
    <2>4. JustCleared' \/ g + c = n + 1 - Grace
      <3>1. \/ term'.visible = [from |-> Len(term'.rows), count |-> 1]
            \/ g + term'.visible.count = Len(term'.rows)
        BY DEF Sane, Follows, g
      <3>2. QED
        BY <1>6, <2>3, <3>1 DEF JustCleared
    <2>5. ASSUME g + c = n + 1 - Grace, f = n, c = 1
          PROVE  ShownAbove(term') = Shown(term)
      <3>1. n - Grace < g + 1 /\ g + 1 \in Int /\ n - Grace \in Int
        BY <1>1, <2>5
      <3>2. SubSeq(old, g + 1, n - Grace) = <<>>
        BY <3>1, SubSeqEmpty
      <3>3. ShownAbove(term') = <<>>
        BY <1>4, <1>6, <2>2, <3>2
      <3>4. QED
        BY <2>5, <3>3, ShownToTheEnd DEF f, n
    <2>6. ASSUME g + c = n + 1 - Grace, f + c = n, c >= 1
          PROVE  Shown(term) # <<>> /\ ShownAbove(term') = Tail(Shown(term))
      <3>1. Shown(term) # <<>> /\ Tail(Shown(term)) = SubSeq(term.rows, (f + 1) + 1, n)
        <4>1. f < n
          BY <1>1, <2>6
        <4>2. QED
          BY <4>1, ShownToTheEnd DEF f, n
      <3>2. ShownAbove(term') = SubSeq(drained, g + 1, n - Grace)
        BY <1>4, <1>6, <2>2
      <3>3. CASE c = 1
        <4>1. /\ n - Grace < g + 1 /\ g + 1 \in Int /\ n - Grace \in Int
              /\ n < (f + 1) + 1 /\ (f + 1) + 1 \in Int /\ n \in Int
          BY <1>1, <2>6, <3>3
        <4>2. SubSeq(drained, g + 1, n - Grace) = <<>> /\ SubSeq(term.rows, (f + 1) + 1, n) = <<>>
          BY <4>1, SubSeqEmpty
        <4>3. QED
          BY <3>1, <3>2, <4>2
      <3>4. CASE c >= 2
        <4>1. /\ g + 1 \in 1 .. n - (Grace + 1) + 1 /\ n - Grace \in 1 .. n - (Grace + 1) + 1
              /\ (Grace + 1) + (g + 1) - 1 = (f + 1) + 1 /\ (Grace + 1) + (n - Grace) - 1 = n
          BY <1>1, <1>6, <2>6, <3>4
        <4>2. SubSeq(drained, g + 1, n - Grace)
                = SubSeq(term.rows, (Grace + 1) + (g + 1) - 1, (Grace + 1) + (n - Grace) - 1)
          <5> DEFINE i == Grace + 1
                     p == g + 1
                     q == n - Grace
          <5>1. /\ term.rows \in Seq(Seq(Cells)) /\ i \in 1 .. Len(term.rows) /\ n \in 1 .. Len(term.rows)
                /\ p \in 1 .. n - i + 1 /\ q \in 1 .. n - i + 1
            BY <1>1, <2>1, <4>1 DEF n
          <5> HIDE DEF i, p, q
          <5>2. SubSeq(SubSeq(term.rows, i, n), p, q) = SubSeq(term.rows, i + p - 1, i + q - 1)
            BY <5>1, SubSeqOfSubSeq
          <5>3. QED
            BY <5>2, Zenon DEF i, p, q, drained
        <4>3. SubSeq(drained, g + 1, n - Grace) = SubSeq(term.rows, (f + 1) + 1, n)
          BY <4>1, <4>2
        <4>4. QED
          BY <3>1, <3>2, <4>3
      <3>5. QED
        BY <1>1, <2>6, <3>3, <3>4
    <2>7. QED
      BY <1>1, <2>4, <2>5, <2>6
  <1>7. QED
    BY <1>2, <1>5, <1>6

(* No visible line is lost, across every drain and for every buffer size.  *)
THEOREM ShownLinesStay == Spec => NoVisibleLineLost
  <1> DEFINE stays == LET shown == Shown(term) IN
                      \/ ShownAbove(term') \in {ShownAbove(term), shown}
                      \/ shown # <<>> /\ ShownAbove(term') = Tail(shown)
                      \/ JustCleared'
  <1>1. IInv /\ IInv' /\ [Next]_vars => [stays]_vars
    <2>1. SUFFICES ASSUME Sane(term), Sane(term)', [Next]_vars PROVE stays
      BY DEF IInv
    <2>2. CASE term' \notin {Feed(term), FreshLine(term), Cleared(term)}
      <3>1. term.visible.from \in Nat
        BY <2>1, SaneFields
      <3>2. ShownAbove(term') = ShownAbove(term)
        BY <2>1, <2>2, <3>1, EditKeepsRows DEF ShownAbove
      <3>3. QED
        BY <3>2
    <2>3. CASE term' \in {Feed(term), FreshLine(term), Cleared(term)}
      <3>1. term'.rows = AddLine(term).rows /\ (term'.visible = AddLine(term).visible \/ JustCleared')
        BY <2>1, <2>3, LineRows
      <3>2. QED
        BY <2>1, <3>1, AddedLineScrolls
    <2>4. QED
      BY <2>2, <2>3
  <1>2. QED
    BY <1>1, AlwaysSane, PTL DEF Spec, NoVisibleLineLost

----------------------------------------------------------------------------
(* Scrollback implements Tty: with the line under the cursor as the line,  *)
(* every edit is an Edit or a Move, every other handler starts over, and a *)
(* draw is no step.                                                        *)

(* Here(term) is the Tty's current line. *)
LEMMA HereIsCurrent ==
  ASSUME Sane(term)
  PROVE  T!Current = Here(term)
  BY DEF T!Current, Here

(* The instance's line operators are CaretLine's own. *)
LEMMA SameLineSteps ==
  /\ \A l, c : T!TypeCell(l, c) = TypeCell(l, c)
  /\ \A l : T!PutTab(l) = PutTab(l)
  /\ \A l : T!Erase(l) = Erase(l)
  /\ \A l, n : T!MoveBackward(l, n) = MoveBackward(l, n) /\ T!MoveForward(l, n) = MoveForward(l, n)
  <1>1. \A l, n : T!MoveBackward(l, n) = MoveBackward(l, n) /\ T!MoveForward(l, n) = MoveForward(l, n)
    BY Zenon DEF T!MoveBackward, MoveBackward, T!MoveForward, MoveForward,
                 T!Least, Least, T!Monus, Monus
  <1>2. \A l : T!AtEnd(l) = AtEnd(l)
    BY Zenon DEF T!AtEnd, AtEnd
  <1>3. \A l, c : T!TypeCell(l, c) = TypeCell(l, c)
    BY <1>1, <1>2, Zenon DEF T!TypeCell, TypeCell, T!InsertAt, InsertAt
  <1>4. \A l : T!PutTab(l) = PutTab(l)
    BY <1>1, <1>2, Zenon DEF T!PutTab, PutTab, T!ReplaceAt, ReplaceAt
  <1>5. \A l : T!Erase(l) = Erase(l)
    BY <1>1, <1>2, Zenon
    DEF T!Erase, Erase, T!Popped, Popped, T!Front, Front, T!RemoveAt, RemoveAt
  <1>6. QED
    BY <1>1, <1>3, <1>4, <1>5

LEMMA TtyStep ==
  ASSUME Sane(term), Sane(term)', [Next]_vars
  PROVE  [T!TtyNext]_(T!ttyVars)
  <1>1. T!Current = Here(term)
    BY HereIsCurrent
  <1>2. Here(term') = [line |-> Here(term').line, col |-> term'.cursor.col]
    BY DEF Here
  <1>3. ASSUME NEW l \in GoodLines, Here(term') = l
        PROVE  T!Becomes(l)
    BY <1>2, <1>3 DEF T!Becomes
  <1>4. CASE \E l \in GoodLines, d \in Dirtyness \ {"Clean"} : Edits(l) /\ term' = AtCursor(term, l, d)
    <2>1. PICK l \in GoodLines, d \in Dirtyness \ {"Clean"} : Edits(l) /\ term' = AtCursor(term, l, d)
      BY <1>4
    <2>2. Here(AtCursor(term, l, d)) = l
      <3>1. d \in Dirtyness
        OBVIOUS
      <3>2. QED
        BY <3>1, EditsAreSane, ZenonT(60)
    <2>3. T!Becomes(l)
      BY <1>3, <2>1, <2>2
    <2>4. CASE \E c \in Glyphs : l = TypeCell(Here(term), c)
      BY <1>1, <2>3, <2>4, SameLineSteps, Zenon DEF T!TtyNext, T!Edit
    <2>5. CASE l = PutTab(Here(term))
      BY <1>1, <2>3, <2>5, SameLineSteps, Zenon DEF T!TtyNext, T!Edit
    <2>6. CASE l = Erase(Here(term))
      BY <1>1, <2>3, <2>6, SameLineSteps, Zenon DEF T!TtyNext, T!Edit
    <2>7. CASE \E n \in 1 .. MaxMove : l = MoveBackward(Here(term), n) \/ l = MoveForward(Here(term), n)
      BY <1>1, <2>3, <2>7, SameLineSteps, Zenon DEF T!TtyNext, T!Move
    <2>8. QED
      BY <2>1, <2>4, <2>5, <2>6, <2>7 DEF Edits
  <1>5. CASE Here(term') = EmptyLine
    BY <1>2, <1>5 DEF T!TtyNext, T!StartOver, T!Becomes, T!EmptyLine, EmptyLine
  <1>6. CASE Here(term') = Here(term)
    BY <1>2, <1>6 DEF T!ttyVars, Here
  <1>7. CASE term' = Return(term)
    BY <1>5, <1>7, ReturnIsSane
  <1>8. CASE term' \in {Feed(term), FreshLine(term), Cleared(term)}
    <2>1. /\ Here(Feed(term)) = EmptyLine /\ Here(FreshLine(term)) = EmptyLine
          /\ Here(Cleared(term)) = EmptyLine
      BY FeedIsSane, FreshLineIsSane, ClearedIsSane, Zenon
    <2>2. QED
      BY <1>5, <1>8, <2>1
  <1>9. CASE term' = [term EXCEPT !.dirty = "Clean"]
    BY <1>6, <1>9, Remarked DEF Dirtyness
  <1>10. CASE UNCHANGED vars
    BY <1>6, <1>10 DEF vars
  <1>11. QED
    BY <1>4, <1>7, <1>8, <1>9, <1>10, StepKinds

(* The detailed screen state implements the abstract terminal. *)
THEOREM ScrollbackImplementsTty == Spec => ImplementsTty
  <1>1. Init => T!TtyInit
    BY DEF Init, T!TtyInit, T!Current, T!EmptyLine, Here, EmptyLine
  <1>2. IInv /\ IInv' /\ [Next]_vars => [T!TtyNext]_(T!ttyVars)
    BY TtyStep DEF IInv
  <1>3. QED
    BY <1>1, <1>2, AlwaysSane, PTL DEF Spec, ImplementsTty, T!TtySpec

=============================================================================
