-------------------------- MODULE CaretLineProofs --------------------------
(* Every editing step keeps the caret inside its line; and the induction   *)
(* that the proofs about screens and consoles have in common.              *)
EXTENDS CaretLine, SequenceTheorems, WellFoundedInduction, TLAPS

(* A line with its caret inside: what every handler starts from. *)
GoodLines == {l \in CaretLines : CaretInLine(l)}

(* Moving the caret, by any count, leaves the line alone and stays in it.  *)
LEMMA MovesStayInLine ==
  ASSUME NEW l \in GoodLines, NEW n \in Nat
  PROVE  MoveBackward(l, n) \in GoodLines /\ MoveForward(l, n) \in GoodLines
  <1>1. Len(l.line) \in Nat
    BY LenProperties DEF GoodLines, CaretLines
  <1>2. QED
    BY <1>1, SMT DEF GoodLines, CaretLines, CaretInLine, MoveBackward, MoveForward, Least, Monus

(* Replacing the line by one at least as long keeps the caret inside. *)
LEMMA LongerLine ==
  ASSUME NEW l \in GoodLines, NEW s \in Seq(Cells), Len(s) >= Len(l.line)
  PROVE  [l EXCEPT !.line = s] \in GoodLines
  <1>1. Len(l.line) \in Nat /\ Len(s) \in Nat
    BY LenProperties DEF GoodLines, CaretLines
  <1>2. QED
    BY <1>1, SMT DEF GoodLines, CaretLines, CaretInLine

(* Stepping back from a line that lost a cell keeps the caret inside. *)
LEMMA ShorterLine ==
  ASSUME NEW l \in GoodLines, NEW s \in Seq(Cells), Monus(l.col, 1) <= Len(s)
  PROVE  MoveBackward([l EXCEPT !.line = s], 1) \in GoodLines
  <1> DEFINE moved == [line |-> s, col |-> Monus(l.col, 1)]
  <1>1. [l EXCEPT !.line = s] = [line |-> s, col |-> l.col] /\ l.col \in Nat
    BY DEF GoodLines, CaretLines
  <1>2. MoveBackward([l EXCEPT !.line = s], 1) = moved
    <2>1. MoveBackward([line |-> s, col |-> l.col], 1) = moved
      BY DEF MoveBackward
    <2>2. QED
      BY <1>1, <2>1
  <1>3. Monus(l.col, 1) \in Nat
    BY <1>1 DEF Monus
  <1>4. moved \in GoodLines
    BY <1>3 DEF GoodLines, CaretLines, CaretInLine
  <1>5. QED
    BY <1>2, <1>4

LEMMA TypeCellStaysInLine ==
  ASSUME NEW l \in GoodLines, NEW c \in Cells
  PROVE  TypeCell(l, c) \in GoodLines
  <1> DEFINE typed == IF AtEnd(l) THEN Append(l.line, c) ELSE InsertAt(l.line, l.col + 1, c)
  <1>0. l.line \in Seq(Cells) /\ Len(l.line) \in Nat /\ l.col \in 0 .. Len(l.line)
    BY LenProperties DEF GoodLines, CaretLines, CaretInLine
  <1>1. typed \in Seq(Cells) /\ Len(typed) = Len(l.line) + 1
    <2>1. CASE AtEnd(l)
      BY <1>0, <2>1, AppendProperties
    <2>2. CASE ~AtEnd(l)
      <3> DEFINE before == SubSeq(l.line, 1, l.col)
                 after == SubSeq(l.line, l.col + 1, Len(l.line))
      <3>1. /\ before \in Seq(Cells) /\ Len(before) = l.col
            /\ after \in Seq(Cells) /\ Len(after) = Len(l.line) - l.col
        BY <1>0, <2>2, SubSeqProperties, ElementOfSeq, SMTT(30) DEF AtEnd
      <3>2. <<c>> \in Seq(Cells) /\ Len(<<c>>) = 1
        OBVIOUS
      <3>3. before \o <<c>> \in Seq(Cells) /\ Len(before \o <<c>>) = l.col + 1
        BY <3>1, <3>2, ConcatProperties
      <3>4. /\ (before \o <<c>>) \o after \in Seq(Cells)
            /\ Len((before \o <<c>>) \o after) = Len(l.line) + 1
        BY <1>0, <3>1, <3>3, ConcatProperties
      <3>5. (l.col + 1) - 1 = l.col
        BY <1>0
      <3>6. typed = (before \o <<c>>) \o after
        BY <3>5, <2>2, Zenon DEF InsertAt
      <3>7. QED
        BY <3>4, <3>6
    <2>3. QED
      BY <2>1, <2>2
  <1> HIDE DEF typed
  <1>2. [l EXCEPT !.line = typed] \in GoodLines
    BY <1>0, <1>1, LongerLine
  <1>3. QED
    BY <1>2, MovesStayInLine, Zenon DEF TypeCell, typed

LEMMA PutTabStaysInLine ==
  ASSUME NEW l \in GoodLines
  PROVE  PutTab(l) \in GoodLines
  <1> DEFINE tabbed == IF AtEnd(l) THEN Append(l.line, Tab) ELSE ReplaceAt(l.line, l.col + 1, Tab)
  <1>0. l.line \in Seq(Cells) /\ Len(l.line) \in Nat /\ l.col \in 0 .. Len(l.line) /\ Tab \in Cells
    BY LenProperties DEF GoodLines, CaretLines, CaretInLine, Cells
  <1>1. tabbed \in Seq(Cells) /\ Len(tabbed) >= Len(l.line)
    <2>1. CASE AtEnd(l)
      BY <1>0, <2>1, AppendProperties
    <2>2. CASE ~AtEnd(l)
      BY <1>0, <2>2, ExceptSeq DEF AtEnd, ReplaceAt
    <2>3. QED
      BY <2>1, <2>2
  <1> HIDE DEF tabbed
  <1>2. [l EXCEPT !.line = tabbed] \in GoodLines
    BY <1>0, <1>1, LongerLine
  <1>3. QED
    BY <1>2, MovesStayInLine, Zenon DEF PutTab, tabbed

(* backspace shortens the line by one cell at most, and steps back. *)
LEMMA EraseStaysInLine ==
  ASSUME NEW l \in GoodLines
  PROVE  Erase(l) \in GoodLines
  <1> DEFINE before == SubSeq(l.line, 1, l.col)
             after == SubSeq(l.line, l.col + 2, Len(l.line))
             erased == IF AtEnd(l) THEN Popped(l.line) ELSE RemoveAt(l.line, l.col + 1)
  <1>0. l.line \in Seq(Cells) /\ Len(l.line) \in Nat /\ l.col \in 0 .. Len(l.line)
    BY LenProperties DEF GoodLines, CaretLines, CaretInLine
  <1>1. erased \in Seq(Cells) /\ Monus(l.col, 1) <= Len(erased)
    <2>1. CASE l.line = <<>>
      <3>1. AtEnd(l) /\ erased = <<>> /\ l.col = 0
        BY <1>0, <2>1, EmptySeq DEF AtEnd, Popped
      <3> HIDE DEF erased
      <3>2. QED
        BY <3>1, EmptySeq DEF Monus
    <2>2. CASE AtEnd(l) /\ l.line # <<>>
      <3>1. Front(l.line) \in Seq(Cells) /\ Len(Front(l.line)) = Len(l.line) - 1
        BY <1>0, <2>2, SubSeqProperties, ElementOfSeq DEF Front
      <3>2. erased = Front(l.line)
        BY <2>2 DEF Popped
      <3>3. QED
        BY <1>0, <2>2, <3>1, <3>2 DEF Monus, AtEnd
    <2>3. CASE ~AtEnd(l)
      <3>1. /\ before \in Seq(Cells) /\ Len(before) = l.col
            /\ after \in Seq(Cells) /\ Len(after) = Len(l.line) - l.col - 1
        <4>1. l.col \in Nat /\ l.col + 1 <= Len(l.line) /\ l.col # Len(l.line)
          BY <1>0, <2>3 DEF AtEnd
        <4>2. \A i \in 1 .. Len(l.line) : l.line[i] \in Cells
          BY <1>0, ElementOfSeq
        <4>3. 1 .. l.col \subseteq 1 .. Len(l.line) /\ l.col + 2 .. Len(l.line) \subseteq 1 .. Len(l.line)
          BY <1>0, <4>1
        <4>4. /\ before \in Seq(Cells)
              /\ Len(before) = (IF 1 <= l.col THEN l.col - 1 + 1 ELSE 0)
          BY <4>1, <4>2, <4>3, SubSeqProperties
        <4>5. Len(before) = l.col
          BY <4>1, <4>4
        <4>6. l.col + 2 \in Int /\ Len(l.line) \in Int
          BY <1>0, <4>1
        <4>7. /\ after \in Seq(Cells)
              /\ Len(after) = (IF l.col + 2 <= Len(l.line) THEN Len(l.line) - (l.col + 2) + 1 ELSE 0)
          BY <4>2, <4>3, <4>6, SubSeqProperties
        <4>8. Len(after) = Len(l.line) - l.col - 1
          BY <1>0, <4>1, <4>7
        <4>9. QED
          BY <4>4, <4>5, <4>7, <4>8
      <3>2. before \o after \in Seq(Cells) /\ Len(before \o after) = Len(l.line) - 1
        BY <1>0, <3>1, ConcatProperties
      <3>3. (l.col + 1) - 1 = l.col /\ (l.col + 1) + 1 = l.col + 2
        BY <1>0
      <3>4. erased = before \o after
        BY <2>3, <3>3, Zenon DEF RemoveAt
      <3> HIDE DEF erased
      <3>5. QED
        BY <1>0, <2>3, <3>2, <3>4 DEF Monus, AtEnd
    <2>4. QED
      BY <2>1, <2>2, <2>3
  <1> HIDE DEF erased
  <1>2. MoveBackward([l EXCEPT !.line = erased], 1) \in GoodLines
    BY <1>1, ShorterLine
  <1>3. QED
    BY <1>2, Zenon DEF Erase, erased

----------------------------------------------------------------------------
(* Induction over a set of numbers, and what it says of recursion: both    *)
(* are stated of sets and functions, not of operators.                     *)
LEMMA SetInduction ==
  ASSUME NEW S, 0 \in S, \A n \in Nat : n \in S => n + 1 \in S
  PROVE  Nat \subseteq S
  <1> DEFINE T == Nat \ S
  <1>1. SUFFICES ASSUME T # {} PROVE FALSE
    OBVIOUS
  <1>2. PICK x \in T : \A y \in T : <<y, x>> \notin OpToRel(<, Nat)
    <2>1. T \subseteq Nat
      OBVIOUS
    <2> HIDE DEF T
    <2>2. QED
      BY <1>1, <2>1, NatLessThanWellFounded, WFMin, Zenon
  <1>3. x \in Nat \ {0} /\ x - 1 \in T
    OBVIOUS
  <1>4. <<x - 1, x>> \in OpToRel(<, Nat)
    BY <1>3 DEF OpToRel
  <1>5. QED
    BY <1>2, <1>3, <1>4

LEMMA UpTo ==
  ASSUME NEW n \in Nat, NEW S, 0 \in S, \A i \in 1 .. n : i - 1 \in S => i \in S
  PROVE  0 .. n \subseteq S
  <1> DEFINE T == {i \in Nat : i <= n => i \in S}
  <1>1. 0 \in T
    OBVIOUS
  <1>2. ASSUME NEW i \in Nat, i \in T PROVE i + 1 \in T
    <2>1. SUFFICES ASSUME i + 1 <= n PROVE i + 1 \in S
      OBVIOUS
    <2>2. i + 1 \in 1 .. n /\ (i + 1) - 1 = i /\ i \in S
      BY <1>2, <2>1
    <2>3. QED
      BY <2>2
  <1>3. Nat \subseteq T
    <2> HIDE DEF T
    <2>1. QED
      BY <1>1, <1>2, SetInduction
  <1>4. QED
    BY <1>3

(* The values t of a recursion over 1 .. n: step[i] makes the i-th of the   *)
(* one before.                                                             *)
Computes(t, n, S, start, step) ==
  /\ t \in [0 .. n -> S] /\ t[0] = start
  /\ \A i \in 1 .. n : t[i] = step[i][t[i - 1]]

LEMMA Recursion ==
  ASSUME NEW n \in Nat, NEW S, NEW start \in S, NEW step \in [1 .. n -> [S -> S]]
  PROVE  \E t : Computes(t, n, S, start, step)
  <1> DEFINE Run(t, m) == /\ t \in [0 .. m -> S] /\ t[0] = start
                          /\ \A i \in 1 .. m : t[i] = step[i][t[i - 1]]
             D == {m \in 0 .. n : \E t : Run(t, m)}
  <1>1. 0 \in D
    <2>1. Run([i \in 0 .. 0 |-> start], 0)
      OBVIOUS
    <2> HIDE DEF Run
    <2>2. QED
      BY <2>1
  <1>2. ASSUME NEW m \in 1 .. n, m - 1 \in D PROVE m \in D
    <2>1. PICK t : Run(t, m - 1)
      <3> HIDE DEF Run
      <3>1. QED
        BY <1>2
    <2> DEFINE u == [i \in 0 .. m |-> IF i = m THEN step[m][t[m - 1]] ELSE t[i]]
    <2>2. t[m - 1] \in S /\ step[m] \in [S -> S]
      BY <2>1
    <2>3. step[m][t[m - 1]] \in S
      BY <2>2
    <2>4. u \in [0 .. m -> S] /\ u[0] = start
      BY <2>1, <2>3
    <2>5. \A i \in 1 .. m : u[i] = step[i][u[i - 1]]
      BY <2>1
    <2>6. Run(u, m)
      BY <2>4, <2>5
    <2> HIDE DEF Run, u
    <2>7. QED
      BY <2>6
  <1>3. n \in D
    <2> HIDE DEF D
    <2>1. 0 .. n \subseteq D
      BY <1>1, <1>2, UpTo
    <2>2. QED
      BY <2>1
  <1>4. QED
    BY <1>3 DEF Computes
=============================================================================
