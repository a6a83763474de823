---------------------------- MODULE ConsoleProofs ----------------------------
(* Console's invariants, for any letters and glyphs, lines of any length,  *)
(* pipes and queues of any size and packets cut anywhere.                  *)
EXTENDS Console, CaretLineProofs

(* The states of a parser, and those of an ideal one, which sees the whole *)
(* stream and not a packet of it.                                          *)
Parsers == [seen : {"none", "esc", "csi", "lead"}, line : GoodLines, torn : Nat]
Ideals  == {p \in Parsers : p.torn = 0}

(* The shell writes whole sequences and whole characters. *)
Controls == {"esc", "cr", "lf", "lead"}

Clean(p, b) ==
  /\ p.seen = "none" => b \notin Wide
  /\ p.seen = "lead" => b \in Wide
  /\ p.seen \in {"esc", "csi"} => b \notin Wide \cup Controls

(* The run t of the parser that starts in p and ends in q after the bytes. *)
IsRun(t, p, bytes, q) ==
  /\ t \in [0 .. Len(bytes) -> Ideals]
  /\ t[0] = p /\ t[Len(bytes)] = q
  /\ \A i \in 1 .. Len(bytes) : t[i] = Parsed(t[i - 1], bytes[i]) /\ Clean(t[i - 1], bytes[i])

Leads(p, bytes, q) == \E t \in [0 .. Len(bytes) -> Ideals] : IsRun(t, p, bytes, q)

(* What a parser of packets has in common with the ideal one: all of its   *)
(* state, or after a tear what the next carriage return does not reset.    *)
Follows(p, q) ==
  IF p.torn # 0 THEN p.seen \in {"none", q.seen} ELSE p = q

ConsoleType ==
  /\ buf \in Seq(Cells) /\ cursor \in 0 .. Len(buf) /\ running \in BOOLEAN
  /\ out \in Seq(Bytes) /\ queue \in Seq(Seq(Bytes))
  /\ screen \in GoodLines /\ torn \in Nat

(* The ideal parser at the start of every packet and of the pipe, and at   *)
(* the end of all that the shell has written.                              *)
Stations == [1 .. Len(queue) + 1 -> Ideals]

OnItsWay(at, last) ==
  /\ Follows(Fresh, at[1])
  /\ \A k \in 1 .. Len(queue) : Leads(at[k], queue[k], at[k + 1])
  /\ Leads(at[Len(queue) + 1], out, last)

(* Where all that was written leads to: the line the shell edits. *)
Arrives(last) ==
  /\ last.seen = "none"
  /\ ~running => last.line.line = buf /\ last.line.col \in cursor .. Len(buf)

IInv ==
  /\ ConsoleType
  /\ \E at \in Stations, last \in Ideals : OnItsWay(at, last) /\ Arrives(last)

----------------------------------------------------------------------------
(* One byte. *)
LEMMA LineType ==
  ASSUME NEW l \in GoodLines
  PROVE  /\ l.line \in Seq(Cells) /\ Len(l.line) \in Nat /\ l.col \in 0 .. Len(l.line)
         /\ l = [line |-> l.line, col |-> l.col]
  BY LenProperties DEF GoodLines, CaretLines, CaretInLine

LEMMA EmptyIsGood == EmptyLine \in GoodLines
  BY EmptySeq DEF EmptyLine, GoodLines, CaretLines, CaretInLine

LEMMA TypedIsGood ==
  ASSUME NEW l \in GoodLines, NEW b \in Cells
  PROVE  Typed(l, b) \in GoodLines
  BY TypeCellStaysInLine, PutTabStaysInLine DEF Typed

LEMMA MovedIsGood ==
  ASSUME NEW l \in GoodLines, NEW b
  PROVE  Moved(l, b) \in GoodLines
  BY MovesStayInLine DEF Moved

LEMMA CellsAreNoControls == Cells \cap Controls = {} /\ Cells \subseteq Bytes
  BY ConsoleAssumption DEF Bytes, Controls

LEMMA WideAreCells ==
  /\ Wide \subseteq Cells /\ Wide \cap Controls = {} /\ Replacement \in Cells
  /\ "[" \notin Wide /\ Wide \cap Arrows = {}
  BY ConsoleAssumption, CellsAreNoControls DEF Cells

(* The arms of Ground exclude one another. *)
LEMMA GroundArms ==
  ASSUME NEW p, NEW b
  PROVE  /\ b \in {"esc", "lead"} => Ground(p, b) = [p EXCEPT !.seen = b]
         /\ b = "cr" => Ground(p, b) = [p EXCEPT !.line = EmptyLine, !.torn = 0]
         /\ b = "lf" => Ground(p, b) = [p EXCEPT !.line = EmptyLine]
         /\ b \in C1 => Ground(p, b) = p
         /\ b \in Wide \ C1 => Ground(p, b) = [p EXCEPT !.line = Typed(p.line, Replacement)]
         /\ b \notin Controls \cup Wide => Ground(p, b) = [p EXCEPT !.line = Typed(p.line, b)]
  <1>1. C1 \subseteq Wide
    BY ConsoleAssumption
  <1>2. Wide \cap Controls = {}
    BY WideAreCells
  <1>3. CASE b \in {"esc", "lead"}
    <2>1. b \notin Wide /\ b \notin C1 /\ b # "cr" /\ b # "lf" /\ b \in Controls
      BY <1>1, <1>2, <1>3 DEF Controls
    <2>2. QED
      BY <1>3, <2>1 DEF Ground
  <1>4. CASE b = "cr"
    <2>1. b \notin Wide /\ b \notin C1 /\ b \notin {"esc", "lead"} /\ b # "lf" /\ b \in Controls
      BY <1>1, <1>2, <1>4 DEF Controls
    <2>2. QED
      BY <1>4, <2>1 DEF Ground
  <1>5. CASE b = "lf"
    <2>1. b \notin Wide /\ b \notin C1 /\ b \notin {"esc", "lead"} /\ b # "cr" /\ b \in Controls
      BY <1>1, <1>2, <1>5 DEF Controls
    <2>2. QED
      BY <1>5, <2>1 DEF Ground
  <1>6. CASE b \notin Controls
    <2>1. b \notin {"esc", "lead"} /\ b # "cr" /\ b # "lf"
      BY <1>6 DEF Controls
    <2>2. QED
      BY <1>1, <1>6, <2>1 DEF Ground
  <1>7. QED
    BY <1>3, <1>4, <1>5, <1>6 DEF Controls

LEMMA GroundType ==
  ASSUME NEW p \in Parsers, p.seen = "none", NEW b \in Bytes
  PROVE  Ground(p, b) \in Parsers /\ (p.torn = 0 => Ground(p, b).torn = 0)
  <1>1. ASSUME b \notin Controls PROVE Typed(p.line, b) \in GoodLines
    BY <1>1, TypedIsGood DEF Parsers, Bytes, Controls
  <1>2. Typed(p.line, Replacement) \in GoodLines
    BY TypedIsGood, WideAreCells DEF Parsers
  <1>3. CASE b \in {"esc", "lead"}
    <2>1. Ground(p, b) = [p EXCEPT !.seen = b]
      BY <1>3, GroundArms
    <2>2. QED
      BY <1>3, <2>1 DEF Parsers
  <1>4. CASE b = "cr"
    <2>1. Ground(p, b) = [p EXCEPT !.line = EmptyLine, !.torn = 0]
      BY <1>4, GroundArms
    <2>2. Ground(p, b) = [seen |-> p.seen, line |-> EmptyLine, torn |-> 0]
      BY <2>1 DEF Parsers
    <2>3. QED
      BY <2>2, EmptyIsGood DEF Parsers
  <1>5. CASE b = "lf"
    <2>1. Ground(p, b) = [p EXCEPT !.line = EmptyLine]
      BY <1>5, GroundArms
    <2>2. QED
      BY <2>1, EmptyIsGood DEF Parsers
  <1>6. CASE b \in C1
    BY <1>6, GroundArms
  <1>7. CASE b \in Wide \ C1
    <2>1. Ground(p, b) = [p EXCEPT !.line = Typed(p.line, Replacement)]
      BY <1>7, GroundArms
    <2>2. QED
      BY <1>2, <2>1 DEF Parsers
  <1>8. CASE b \notin Controls \cup Wide
    <2>1. Ground(p, b) = [p EXCEPT !.line = Typed(p.line, b)]
      BY <1>8, GroundArms
    <2>2. Typed(p.line, b) \in GoodLines
      BY <1>1, <1>8
    <2>3. QED
      BY <2>1, <2>2 DEF Parsers
  <1>9. QED
    BY <1>3, <1>4, <1>5, <1>6, <1>7, <1>8 DEF Controls

(* Whatever byte comes, a parser stays one, and an ideal one stays ideal. *)
LEMMA ParsedType ==
  ASSUME NEW p \in Parsers, NEW b \in Bytes
  PROVE  Parsed(p, b) \in Parsers /\ (p.torn = 0 => Parsed(p, b).torn = 0)
  <1>1. p.seen \in {"none", "esc", "csi", "lead"}
    BY DEF Parsers
  <1>2. CASE p.seen = "none"
    BY <1>2, GroundType DEF Parsed
  <1>3. CASE p.seen = "esc"
    BY <1>3 DEF Parsed, Parsers
  <1>4. CASE p.seen = "csi"
    <2>1. Moved(p.line, b) \in GoodLines
      BY MovedIsGood DEF Parsers
    <2>2. QED
      BY <1>4, <2>1 DEF Parsed, Parsers
  <1>5. CASE p.seen = "lead" /\ b \in Wide
    <2>1. Typed(p.line, b) \in GoodLines
      BY <1>5, TypedIsGood, WideAreCells DEF Parsers
    <2>2. QED
      BY <1>5, <2>1 DEF Parsed, Parsers
  <1>6. CASE p.seen = "lead" /\ b \notin Wide
    <2>1. PICK q : q = [p EXCEPT !.seen = "none", !.line = Typed(p.line, Replacement)]
      OBVIOUS
    <2>2. Typed(p.line, Replacement) \in GoodLines
      BY TypedIsGood, WideAreCells DEF Parsers
    <2>3. q \in Parsers /\ q.seen = "none" /\ q.torn = p.torn
      BY <2>1, <2>2 DEF Parsers
    <2>4. Parsed(p, b) = Ground(q, b)
      BY <1>6, <2>1 DEF Parsed
    <2>5. QED
      BY <2>3, <2>4, GroundType
  <1>7. QED
    BY <1>1, <1>2, <1>3, <1>4, <1>5, <1>6

(* What a byte leaves of a sequence or a character. *)
LEMMA SeenAfter ==
  ASSUME NEW p \in Parsers, NEW b \in Bytes
  PROVE  /\ p.seen = "none" => Parsed(p, b).seen = IF b \in {"esc", "lead"} THEN b ELSE "none"
         /\ p.seen = "esc"  => Parsed(p, b).seen = "csi"
         /\ p.seen = "csi"  => Parsed(p, b).seen = "none"
         /\ p.seen = "lead" /\ b \in Wide => Parsed(p, b).seen = "none"
         /\ p.torn # 0 /\ b # "cr" /\ Clean(p, b) => Parsed(p, b).torn # 0
  <1>1. /\ p.seen = "none" => Ground(p, b).seen = IF b \in {"esc", "lead"} THEN b ELSE "none"
        /\ p.torn # 0 /\ b # "cr" => Ground(p, b).torn # 0
    <2>1. CASE b \in {"esc", "lead"}
      <3>1. Ground(p, b) = [p EXCEPT !.seen = b]
        BY <2>1, GroundArms
      <3>2. QED
        BY <2>1, <3>1 DEF Parsers
    <2>2. CASE b \notin {"esc", "lead"}
      <3>1. \/ b = "cr" /\ Ground(p, b) = [p EXCEPT !.line = EmptyLine, !.torn = 0]
            \/ \E l : Ground(p, b) = [p EXCEPT !.line = l]
            \/ Ground(p, b) = p
        <4>1. CASE b = "cr"
          BY <4>1, GroundArms
        <4>2. CASE b = "lf"
          BY <4>2, GroundArms, Zenon
        <4>3. CASE b \in Wide
          <5>1. CASE b \in C1
            BY <5>1, GroundArms
          <5>2. CASE b \in Wide \ C1
            <6>1. Ground(p, b) = [p EXCEPT !.line = Typed(p.line, Replacement)]
              BY <5>2, GroundArms
            <6>2. QED
              BY <6>1, Zenon
          <5>3. QED
            BY <4>3, <5>1, <5>2
        <4>4. CASE b \notin Controls \cup Wide
          <5>1. Ground(p, b) = [p EXCEPT !.line = Typed(p.line, b)]
            BY <4>4, GroundArms
          <5>2. QED
            BY <5>1, Zenon
        <4>5. QED
          BY <2>2, <4>1, <4>2, <4>3, <4>4 DEF Controls
      <3>2. Ground(p, b).seen = p.seen
        BY <3>1 DEF Parsers
      <3>3. p.torn # 0 /\ b # "cr" => Ground(p, b).torn # 0
        <4>1. CASE b = "cr"
          BY <4>1
        <4>2. CASE Ground(p, b) = p
          BY <4>2
        <4>3. CASE \E l : Ground(p, b) = [p EXCEPT !.line = l]
          <5>1. PICK l : Ground(p, b) = [p EXCEPT !.line = l]
            BY <4>3
          <5>2. Ground(p, b).torn = p.torn
            BY <5>1 DEF Parsers
          <5>3. QED
            BY <5>2
        <4>4. QED
          BY <3>1, <4>1, <4>2, <4>3
      <3>4. QED
        BY <2>2, <3>2, <3>3
    <2>3. QED
      BY <2>1, <2>2
  <1>2. CASE p.seen = "none"
    BY <1>1, <1>2 DEF Parsed
  <1>3. CASE p.seen = "esc"
    BY <1>3 DEF Parsed, Parsers
  <1>4. CASE p.seen = "csi"
    BY <1>4 DEF Parsed, Parsers
  <1>5. CASE p.seen = "lead" /\ b \in Wide
    BY <1>5 DEF Parsed, Parsers
  <1>6. CASE p.seen = "lead" /\ b \notin Wide
    BY <1>6 DEF Clean
  <1>7. QED
    BY <1>2, <1>3, <1>4, <1>5, <1>6 DEF Parsers

(* A byte that both parsers read keeps what they have in common, and a     *)
(* carriage return makes them equal.                                       *)
LEMMA FollowsByte ==
  ASSUME NEW p \in Parsers, NEW q \in Ideals, Follows(p, q), NEW b \in Bytes, Clean(q, b)
  PROVE  Follows(Parsed(p, b), Parsed(q, b))
  <1>0. q \in Parsers /\ q.torn = 0
    BY DEF Ideals
  <1>1. CASE p.torn = 0
    <2>1. Parsed(p, b).torn = 0
      BY <1>1, ParsedType
    <2>2. QED
      BY <1>1, <2>1 DEF Follows
  <1>2. CASE p.torn # 0 /\ b = "cr"
    <2>1. "cr" \notin Wide /\ "cr" \in Controls
      BY WideAreCells DEF Controls
    <2>2. q.seen = "none" /\ p.seen = "none"
      BY <1>0, <1>2, <2>1 DEF Follows, Clean, Parsers
    <2>3. Parsed(p, b) = [seen |-> "none", line |-> EmptyLine, torn |-> 0]
      <3>1. Parsed(p, b) = [p EXCEPT !.line = EmptyLine, !.torn = 0]
        BY <1>2, <2>2, GroundArms DEF Parsed
      <3>2. QED
        BY <2>2, <3>1 DEF Parsers
    <2>4. Parsed(q, b) = [seen |-> "none", line |-> EmptyLine, torn |-> 0]
      <3>1. Parsed(q, b) = [q EXCEPT !.line = EmptyLine, !.torn = 0]
        BY <1>2, <2>2, GroundArms DEF Parsed
      <3>2. QED
        BY <1>0, <2>2, <3>1 DEF Parsers
    <2>5. QED
      BY <2>3, <2>4 DEF Follows
  <1>3. CASE p.torn # 0 /\ b # "cr"
    <2>1. p.seen \in {"none", q.seen} /\ q.seen \in {"none", "esc", "csi", "lead"}
      BY <1>0, <1>3 DEF Follows, Parsers
    <2>2. CASE p.seen = q.seen
      <3>1. Clean(p, b)
        BY <2>2 DEF Clean
      <3>2. Parsed(p, b).torn # 0 /\ Parsed(p, b).seen = Parsed(q, b).seen
        BY <1>0, <1>3, <2>1, <2>2, <3>1, SeenAfter DEF Clean
      <3>3. QED
        BY <3>2 DEF Follows
    <2>3. CASE p.seen = "none" /\ q.seen # "none"
      <3>1. b \notin {"esc", "lead"}
        BY <2>1, <2>3, WideAreCells DEF Clean, Controls
      <3>2. Parsed(p, b).seen = "none"
        BY <2>3, <3>1, SeenAfter
      <3>3. Parsed(p, b).torn # 0
        BY <1>3, <2>3, <3>1 DEF Parsed, Ground, Parsers
      <3>4. QED
        BY <3>2, <3>3 DEF Follows
    <2>4. QED
      BY <2>1, <2>2, <2>3
  <1>4. QED
    BY <1>1, <1>2, <1>3

----------------------------------------------------------------------------
(* Runs of the ideal parser. *)
LEMMA LeadsNowhere ==
  ASSUME NEW p \in Ideals, NEW q
  PROVE  Leads(p, <<>>, q) <=> p = q
  <1>1. Len(<<>>) = 0 /\ [i \in 0 .. 0 |-> p] \in [0 .. 0 -> Ideals]
    OBVIOUS
  <1>2. p = q => IsRun([i \in 0 .. 0 |-> p], p, <<>>, q)
    BY <1>1 DEF IsRun
  <1>3. QED
    BY <1>1, <1>2 DEF Leads, IsRun

LEMMA LeadsByte ==
  ASSUME NEW p \in Ideals, NEW b \in Bytes, Clean(p, b)
  PROVE  Parsed(p, b) \in Ideals /\ Leads(p, <<b>>, Parsed(p, b))
  <1> DEFINE t == [i \in 0 .. 1 |-> IF i = 0 THEN p ELSE Parsed(p, b)]
  <1>1. Parsed(p, b) \in Ideals
    BY ParsedType DEF Ideals
  <1>2. Len(<<b>>) = 1 /\ <<b>>[1] = b
    OBVIOUS
  <1>3. t \in [0 .. 1 -> Ideals] /\ t[0] = p /\ t[1] = Parsed(p, b)
    BY <1>1
  <1> HIDE DEF t
  <1>4. IsRun(t, p, <<b>>, Parsed(p, b))
    <2>1. \A i \in 1 .. 1 : i = 1
      OBVIOUS
    <2>2. 1 - 1 = 0
      OBVIOUS
    <2>3. \A i \in 1 .. 1 : t[i] = Parsed(t[i - 1], <<b>>[i]) /\ Clean(t[i - 1], <<b>>[i])
      BY <1>2, <1>3, <2>1, <2>2, Zenon
    <2>4. QED
      BY <1>2, <1>3, <2>3, Zenon DEF IsRun
  <1>5. QED
    BY <1>1, <1>2, <1>3, <1>4, Zenon DEF Leads

(* One run after another. *)
LEMMA LeadsOn ==
  ASSUME NEW v \in Seq(Bytes), NEW w \in Seq(Bytes), NEW p, NEW q, NEW r,
         Leads(p, v, q), Leads(q, w, r)
  PROVE  Leads(p, v \o w, r)
  <1>1. PICK s \in [0 .. Len(v) -> Ideals] : IsRun(s, p, v, q)
    BY DEF Leads
  <1>2. PICK t \in [0 .. Len(w) -> Ideals] : IsRun(t, q, w, r)
    BY DEF Leads
  <1> DEFINE u == [i \in 0 .. Len(v) + Len(w) |-> IF i <= Len(v) THEN s[i] ELSE t[i - Len(v)]]
  <1>3. /\ Len(v) \in Nat /\ Len(w) \in Nat /\ Len(v \o w) = Len(v) + Len(w)
        /\ \A i \in 1 .. Len(v) + Len(w) : (v \o w)[i] = IF i <= Len(v) THEN v[i] ELSE w[i - Len(v)]
    BY LenProperties, ConcatProperties
  <1>4. u \in [0 .. Len(v) + Len(w) -> Ideals]
    BY <1>3
  <1>5. \A i \in 0 .. Len(v) : u[i] = s[i]
    BY <1>3
  <1>6. \A i \in 0 .. Len(w) : u[Len(v) + i] = t[i]
    <2>1. s[Len(v)] = t[0]
      BY <1>1, <1>2 DEF IsRun
    <2>2. QED
      BY <1>3, <2>1
  <1> HIDE DEF u
  <1>7. u[0] = p /\ u[Len(v) + Len(w)] = r
    BY <1>1, <1>2, <1>3, <1>5, <1>6 DEF IsRun
  <1>8. ASSUME NEW i \in 1 .. Len(v) + Len(w)
        PROVE  u[i] = Parsed(u[i - 1], (v \o w)[i]) /\ Clean(u[i - 1], (v \o w)[i])
    <2>1. CASE i <= Len(v)
      <3>1. i \in 1 .. Len(v) /\ i \in 0 .. Len(v) /\ i - 1 \in 0 .. Len(v)
        BY <1>3, <2>1
      <3>2. u[i] = s[i] /\ u[i - 1] = s[i - 1] /\ (v \o w)[i] = v[i]
        BY <1>3, <1>5, <2>1, <3>1
      <3>3. QED
        BY <1>1, <3>1, <3>2, Zenon DEF IsRun
    <2>2. CASE i > Len(v)
      <3> DEFINE j == i - Len(v)
      <3>0. Len(v) \in Nat /\ Len(w) \in Nat
        BY <1>3
      <3>1. /\ j \in 1 .. Len(w) /\ j \in 0 .. Len(w) /\ j - 1 \in 0 .. Len(w)
            /\ Len(v) + j = i /\ Len(v) + (j - 1) = i - 1
        BY <3>0, <2>2
      <3>2. u[i] = t[j] /\ u[i - 1] = t[j - 1] /\ (v \o w)[i] = w[j]
        BY <1>3, <1>6, <2>2, <3>1
      <3> HIDE DEF j
      <3>3. QED
        BY <1>2, <3>1, <3>2, Zenon DEF IsRun
    <2>3. QED
      BY <1>3, <2>1, <2>2
  <1>9. QED
    BY <1>3, <1>4, <1>7, <1>8, Zenon DEF Leads, IsRun

(* A run cut in two. *)
LEMMA LeadsCut ==
  ASSUME NEW w \in Seq(Bytes), NEW p, NEW r, Leads(p, w, r), NEW n \in 0 .. Len(w)
  PROVE  \E q \in Ideals : /\ Leads(p, SubSeq(w, 1, n), q)
                           /\ Leads(q, SubSeq(w, n + 1, Len(w)), r)
  <1>1. PICK t \in [0 .. Len(w) -> Ideals] : IsRun(t, p, w, r)
    BY DEF Leads
  <1> DEFINE u == SubSeq(w, 1, n)
             v == SubSeq(w, n + 1, Len(w))
             s == [i \in 0 .. n |-> t[i]]
             x == [i \in 0 .. Len(w) - n |-> t[n + i]]
  <1>2. /\ Len(w) \in Nat /\ Len(u) = n /\ Len(v) = Len(w) - n
        /\ \A i \in 1 .. n : u[i] = w[i]
        /\ \A i \in 1 .. Len(w) - n : v[i] = w[n + i]
    BY LenProperties, SubSeqProperties
  <1> HIDE DEF u, v
  <1>3. t[n] \in Ideals
    BY <1>2
  <1>4. IsRun(s, p, u, t[n]) /\ s \in [0 .. Len(u) -> Ideals]
    <2>1. s \in [0 .. n -> Ideals] /\ s[0] = p /\ s[n] = t[n]
      BY <1>1, <1>2 DEF IsRun
    <2>2. ASSUME NEW i \in 1 .. n
          PROVE  s[i] = Parsed(s[i - 1], u[i]) /\ Clean(s[i - 1], u[i])
      <3>1. i \in 1 .. Len(w) /\ s[i] = t[i] /\ s[i - 1] = t[i - 1] /\ u[i] = w[i]
        BY <1>2
      <3> HIDE DEF s
      <3>2. QED
        BY <1>1, <3>1, Zenon DEF IsRun
    <2>3. QED
      BY <1>2, <2>1, <2>2, Zenon DEF IsRun
  <1>5. IsRun(x, t[n], v, r) /\ x \in [0 .. Len(v) -> Ideals]
    <2>1. x \in [0 .. Len(w) - n -> Ideals] /\ x[0] = t[n] /\ x[Len(w) - n] = r
      BY <1>1, <1>2 DEF IsRun
    <2>2. ASSUME NEW i \in 1 .. Len(w) - n
          PROVE  x[i] = Parsed(x[i - 1], v[i]) /\ Clean(x[i - 1], v[i])
      <3>1. /\ n + i \in 1 .. Len(w) /\ (n + i) - 1 = n + (i - 1)
            /\ x[i] = t[n + i] /\ x[i - 1] = t[n + (i - 1)] /\ v[i] = w[n + i]
        BY <1>2, SMTT(60)
      <3> HIDE DEF x
      <3>2. QED
        BY <1>1, <3>1, Zenon DEF IsRun
    <2>3. QED
      BY <1>2, <2>1, <2>2, Zenon DEF IsRun
  <1>6. QED
    BY <1>3, <1>4, <1>5, Zenon DEF Leads, u, v

----------------------------------------------------------------------------
(* What the shell writes, read by the ideal parser. *)
At(l) == [seen |-> "none", line |-> l, torn |-> 0]

LEMMA AtIsIdeal ==
  /\ \A l \in GoodLines : At(l) \in Ideals /\ At(l).seen = "none" /\ At(l).line = l
  /\ \A p \in Ideals : p.line \in GoodLines /\ (p.seen = "none" => p = At(p.line))
  <1>1. ASSUME NEW p \in Ideals
        PROVE  p.line \in GoodLines /\ p = [seen |-> p.seen, line |-> p.line, torn |-> 0]
    BY DEF Ideals, Parsers
  <1>2. QED
    BY <1>1 DEF At, Ideals, Parsers

LEMMA TypedAtEnd ==
  ASSUME NEW l \in GoodLines, AtEnd(l), NEW b \in Cells
  PROVE  Typed(l, b) = [line |-> Append(l.line, b), col |-> l.col + 1]
  <1>1. l.line \in Seq(Cells) /\ l.col = Len(l.line) /\ l.col \in Nat
    BY LineType DEF AtEnd
  <1>2. Len(Append(l.line, b)) = l.col + 1 /\ Append(l.line, b) \in Seq(Cells)
    BY <1>1, AppendProperties
  <1> DEFINE a == Append(l.line, b)
             m == [line |-> a, col |-> l.col]
  <1>3. [l EXCEPT !.line = a] = m
    BY SMTT(30) DEF GoodLines, CaretLines
  <1>4. MoveForward(m, 1) = [line |-> a, col |-> l.col + 1]
    <2>1. Least(l.col + 1, Len(a)) = l.col + 1
      BY <1>1, <1>2 DEF Least
    <2>2. m.line = a /\ m.col = l.col
      OBVIOUS
    <2> HIDE DEF a
    <2>3. [m EXCEPT !.col = l.col + 1] = [line |-> a, col |-> l.col + 1]
      OBVIOUS
    <2>4. QED
      BY <2>1, <2>2, <2>3 DEF MoveForward
  <1>5. TypeCell(l, b) = MoveForward([l EXCEPT !.line = a], 1)
    BY Zenon DEF TypeCell, AtEnd
  <1>6. PutTab(l) = MoveForward([l EXCEPT !.line = Append(l.line, Tab)], 1)
    BY Zenon DEF PutTab, AtEnd
  <1>7. QED
    BY <1>3, <1>4, <1>5, <1>6, Zenon DEF Typed

(* A carriage return or a line feed. *)
LEMMA LeadsToEmpty ==
  ASSUME NEW p \in Ideals, p.seen = "none", NEW b \in {"cr", "lf"}
  PROVE  Leads(p, <<b>>, At(EmptyLine))
  <1>1. b \in Bytes /\ Clean(p, b)
    BY WideAreCells DEF Bytes, Clean, Controls
  <1>2. Parsed(p, b) = At(EmptyLine)
    <2>1. p = [seen |-> "none", line |-> p.line, torn |-> 0]
      BY DEF Ideals, Parsers
    <2>2. Parsed(p, b) = Ground(p, b)
      BY DEF Parsed
    <2>3. CASE b = "cr"
      <3>1. Ground(p, b) = [p EXCEPT !.line = EmptyLine, !.torn = 0]
        BY <2>3, GroundArms
      <3>2. QED
        BY <2>1, <2>2, <3>1 DEF At
    <2>4. CASE b = "lf"
      <3>1. Ground(p, b) = [p EXCEPT !.line = EmptyLine]
        BY <2>4, GroundArms
      <3>2. QED
        BY <2>1, <2>2, <3>1 DEF At
    <2>5. QED
      BY <2>3, <2>4
  <1>3. QED
    BY <1>1, <1>2, LeadsByte

LEMMA OneThenTwo ==
  ASSUME NEW S, NEW a \in S, NEW b \in S
  PROVE  /\ <<a>> \in Seq(S)
         /\ <<a, b>> \in Seq(S) /\ Len(<<a, b>>) = 2
         /\ <<a>> \o <<b>> = <<a, b>>
  <1>1. <<a, b>> \in Seq(S)
    OBVIOUS
  <1>2. Len(<<a, b>>) = 2
    OBVIOUS
  <1>3. /\ <<a>> \in Seq(S) /\ Len(<<a>>) = 1 /\ <<a>>[1] = a
        /\ <<b>> \in Seq(S) /\ Len(<<b>>) = 1 /\ <<b>>[1] = b
    OBVIOUS
  <1>4. /\ <<a>> \o <<b>> \in Seq(S) /\ Len(<<a>> \o <<b>>) = 2
        /\ (<<a>> \o <<b>>)[1] = a /\ (<<a>> \o <<b>>)[2] = b
    BY <1>3, ConcatProperties
  <1>5. \A i \in 1 .. Len(<<a, b>>) : (<<a>> \o <<b>>)[i] = <<a, b>>[i]
    BY <1>2, <1>4
  <1>6. QED
    BY <1>1, <1>2, <1>3, <1>4, <1>5, SeqEqual

(* The states a parser passes through in a sequence or a character. *)
Inside(seen, l) == [seen |-> seen, line |-> l, torn |-> 0]

(* One character, of one byte or two. *)
LEMMA LeadsCell ==
  ASSUME NEW l \in GoodLines, NEW c \in Cells
  PROVE  /\ Encoded(c) \in Seq(Bytes) /\ At(Typed(l, c)) \in Ideals
         /\ Leads(At(l), Encoded(c), At(Typed(l, c)))
  <1>1. /\ At(l) \in Ideals /\ At(Typed(l, c)) \in Ideals /\ At(l).seen = "none"
        /\ c \in Bytes /\ c \notin Controls
    BY TypedIsGood, AtIsIdeal, CellsAreNoControls
  <1>2. CASE c \notin Wide
    <2>1. c \notin C1 /\ c \notin {"esc", "lead", "cr", "lf"}
      BY <1>1, <1>2, ConsoleAssumption DEF Controls
    <2>2. Parsed(At(l), c) = At(Typed(l, c))
      BY <1>2, <2>1 DEF Parsed, Ground, At
    <2>3. Clean(At(l), c)
      BY <1>1, <1>2 DEF Clean
    <2>4. Leads(At(l), <<c>>, At(Typed(l, c)))
      BY <1>1, <2>2, <2>3, LeadsByte
    <2>5. Encoded(c) = <<c>> /\ <<c>> \in Seq(Bytes)
      BY <1>1, <1>2 DEF Encoded
    <2>6. QED
      BY <1>1, <2>4, <2>5
  <1>3. CASE c \in Wide
    <2>1. "lead" \in Bytes /\ "lead" \notin Wide
      BY WideAreCells DEF Bytes, Controls
    <2>2. Parsed(At(l), "lead") = Inside("lead", l) /\ Clean(At(l), "lead")
      <3>1. Ground(At(l), "lead") = [At(l) EXCEPT !.seen = "lead"]
        BY GroundArms
      <3>2. QED
        BY <2>1, <3>1 DEF Parsed, At, Inside, Clean
    <2>3. Inside("lead", l) \in Ideals /\ Leads(At(l), <<"lead">>, Inside("lead", l))
      <3>1. Parsed(At(l), "lead") \in Ideals /\ Leads(At(l), <<"lead">>, Parsed(At(l), "lead"))
        BY <1>1, <2>1, <2>2, LeadsByte
      <3>2. QED
        BY <2>2, <3>1, Zenon
    <2>4. Parsed(Inside("lead", l), c) = At(Typed(l, c)) /\ Clean(Inside("lead", l), c)
      BY <1>3 DEF Parsed, At, Inside, Clean
    <2>5. Leads(Inside("lead", l), <<c>>, At(Typed(l, c)))
      <3>1. Leads(Inside("lead", l), <<c>>, Parsed(Inside("lead", l), c))
        BY <1>1, <2>3, <2>4, LeadsByte
      <3>2. QED
        BY <2>4, <3>1, Zenon
    <2>6. /\ <<"lead">> \in Seq(Bytes) /\ <<c>> \in Seq(Bytes)
          /\ <<"lead">> \o <<c>> = <<"lead", c>> /\ <<"lead", c>> \in Seq(Bytes)
      BY <1>1, <2>1, OneThenTwo, Zenon
    <2>7. Leads(At(l), <<"lead">> \o <<c>>, At(Typed(l, c)))
      BY <2>3, <2>5, <2>6, LeadsOn
    <2>8. QED
      BY <1>1, <1>3, <2>6, <2>7, Zenon DEF Encoded
  <1>4. QED
    BY <1>2, <1>3

(* FlattenSeq is what its recursion says. *)
LEMMA FlattenRun ==
  ASSUME NEW S, NEW ss \in Seq(Seq(S))
  PROVE  \E f \in [0 .. Len(ss) -> Seq(S)] :
           /\ f[0] = <<>> /\ f[Len(ss)] = FlattenSeq(ss)
           /\ \A i \in 1 .. Len(ss) : f[i] = f[i - 1] \o ss[i]
  <1> DEFINE n == Len(ss)
             step == [i \in 1 .. n |-> [s \in Seq(S) |-> s \o ss[i]]]
             rec(g) == [i \in 1 .. n |-> IF i = 1 THEN ss[i] ELSE g[i - 1] \o ss[i]]
             f == CHOOSE g : g = rec(g)
  <1>1. n \in Nat /\ \A i \in 1 .. n : ss[i] \in Seq(S)
    BY LenProperties, ElementOfSeq
  <1>2. \A s \in Seq(S), i \in 1 .. n : s \o ss[i] \in Seq(S)
    BY <1>1, ConcatProperties
  <1>3. step \in [1 .. n -> [Seq(S) -> Seq(S)]] /\ <<>> \in Seq(S)
    BY <1>2, EmptySeq
  <1>4. PICK t : Computes(t, n, Seq(S), <<>>, step)
    <2> HIDE DEF step, n
    <2>1. QED
      BY <1>1, <1>3, Recursion
  <1>5. /\ t \in [0 .. n -> Seq(S)] /\ t[0] = <<>>
        /\ \A i \in 1 .. n : t[i] = t[i - 1] \o ss[i]
    <2>1. /\ t \in [0 .. n -> Seq(S)] /\ t[0] = <<>>
          /\ \A i \in 1 .. n : t[i] = step[i][t[i - 1]]
      BY <1>4, Zenon DEF Computes
    <2>2. ASSUME NEW i \in 1 .. n PROVE step[i][t[i - 1]] = t[i - 1] \o ss[i]
      <3>1. t[i - 1] \in Seq(S)
        <4>1. i - 1 \in 0 .. n
          BY <1>1
        <4>2. QED
          BY <2>1, <4>1
      <3>2. QED
        BY <3>1, Zenon
    <2>3. QED
      BY <2>1, <2>2, Zenon
  <1>6. CASE n = 0
    <2>1. ss = <<>>
      BY <1>6, EmptySeq
    <2>2. FlattenSeq(ss) = <<>>
      BY <1>6, <2>1 DEF FlattenSeq
    <2>3. QED
      BY <1>5, <1>6, <2>2
  <1>7. CASE n # 0
    <2> DEFINE u == [i \in 1 .. n |-> t[i]]
    <2>1. t[1] = ss[1] /\ 1 \in 1 .. n
      <3>1. 1 \in 1 .. n /\ 1 - 1 = 0
        BY <1>1, <1>7
      <3>2. t[1] = <<>> \o ss[1] /\ ss[1] \in Seq(S)
        BY <1>1, <1>5, <3>1
      <3>3. QED
        BY <3>1, <3>2, ConcatEmptySeq
    <2>2. ASSUME NEW i \in 1 .. n
          PROVE  u[i] = IF i = 1 THEN ss[i] ELSE u[i - 1] \o ss[i]
      <3>1. CASE i = 1
        BY <2>1, <3>1
      <3>2. CASE i # 1
        <4>1. i - 1 \in 1 .. n
          BY <1>1, <3>2
        <4>2. u[i] = t[i] /\ u[i - 1] = t[i - 1]
          BY <4>1
        <4> HIDE DEF u
        <4>3. QED
          BY <1>5, <3>2, <4>2
      <3>3. QED
        BY <3>1, <3>2
    <2>3. u = rec(u)
      BY <2>2
    <2>4. f = rec(f)
      <3> HIDE DEF rec
      <3>1. QED
        BY <2>3, Zenon
    <2>5. FlattenSeq(ss) = f[n]
      BY <1>7 DEF FlattenSeq
    <2> HIDE DEF f, n
    <2>6. \A i \in 1 .. n : f[i] = IF i = 1 THEN ss[i] ELSE f[i - 1] \o ss[i]
      BY <2>4, Zenon
    <2> DEFINE E == {i \in 0 .. n : i = 0 \/ f[i] = t[i]}
    <2>7. 0 \in E /\ \A i \in 1 .. n : i - 1 \in E => i \in E
      <3>1. 0 \in E
        BY <1>1
      <3>2. ASSUME NEW i \in 1 .. n, i - 1 \in E PROVE i \in E
        <4>1. CASE i = 1
          BY <1>1, <2>1, <2>6, <4>1
        <4>2. CASE i # 1
          <5>1. i - 1 # 0 /\ i \in 0 .. n
            BY <1>1, <4>2
          <5>2. f[i - 1] = t[i - 1]
            BY <3>2, <5>1
          <5>3. f[i] = t[i]
            BY <1>5, <2>6, <4>2, <5>2
          <5>4. QED
            BY <5>1, <5>3
        <4>3. QED
          BY <4>1, <4>2
      <3>3. QED
        BY <3>1, <3>2
    <2>8. 0 .. n \subseteq E
      <3> HIDE DEF E
      <3>1. QED
        BY <1>1, <2>7, UpTo
    <2>9. f[n] = t[n]
      BY <1>1, <1>7, <2>8
    <2>10. QED
      BY <1>5, <2>5, <2>9 DEF n
  <1>8. QED
    BY <1>6, <1>7

(* Text on an empty line. *)
LEMMA LeadsText ==
  ASSUME NEW text \in Seq(Cells)
  PROVE  /\ [line |-> text, col |-> Len(text)] \in GoodLines
         /\ Utf8(text) \in Seq(Bytes)
         /\ Leads(At(EmptyLine), Utf8(text), At([line |-> text, col |-> Len(text)]))
  <1> DEFINE l(i) == [line |-> SubSeq(text, 1, i), col |-> i]
             ss == [i \in 1 .. Len(text) |-> Encoded(text[i])]
  <1>1. Len(text) \in Nat
    BY LenProperties
  <1>2. ASSUME NEW i \in 0 .. Len(text)
        PROVE  SubSeq(text, 1, i) \in Seq(Cells) /\ Len(SubSeq(text, 1, i)) = i
    BY <1>1, SubSeqProperties
  <1>3. \A i \in 0 .. Len(text) : l(i) \in GoodLines /\ AtEnd(l(i))
    BY <1>1, <1>2 DEF GoodLines, CaretLines, CaretInLine, AtEnd
  <1>4. SubSeq(text, 1, 0) = <<>> /\ SubSeq(text, 1, Len(text)) = text
    BY <1>1, SubSeqFull, SubSeqEmpty
  <1>5. \A i \in 1 .. Len(text) : Encoded(text[i]) \in Seq(Bytes)
    BY EmptyIsGood, LeadsCell, ElementOfSeq
  <1>6. ss \in Seq(Seq(Bytes)) /\ Len(ss) = Len(text)
    BY <1>1, <1>5
  <1>7. PICK f \in [0 .. Len(text) -> Seq(Bytes)] :
          /\ f[0] = <<>> /\ f[Len(text)] = Utf8(text)
          /\ \A i \in 1 .. Len(text) : f[i] = f[i - 1] \o Encoded(text[i])
    <2>1. PICK f \in [0 .. Len(ss) -> Seq(Bytes)] :
            /\ f[0] = <<>> /\ f[Len(ss)] = FlattenSeq(ss)
            /\ \A i \in 1 .. Len(ss) : f[i] = f[i - 1] \o ss[i]
      <3> HIDE DEF ss
      <3>1. QED
        BY <1>6, FlattenRun
    <2>2. FlattenSeq(ss) = Utf8(text)
      BY DEF Utf8
    <2>3. \A i \in 1 .. Len(text) : ss[i] = Encoded(text[i])
      OBVIOUS
    <2> HIDE DEF ss
    <2>4. QED
      BY <1>6, <2>1, <2>2, <2>3
  <1> DEFINE D == {i \in 0 .. Len(text) : Leads(At(EmptyLine), f[i], At(l(i)))}
  <1>8. 0 \in D
    <2>1. At(EmptyLine) \in Ideals /\ l(0) = EmptyLine /\ 0 \in 0 .. Len(text)
      BY <1>1, <1>4, EmptyIsGood, AtIsIdeal DEF EmptyLine
    <2> HIDE DEF l
    <2>2. QED
      BY <1>7, <2>1, LeadsNowhere
  <1>9. ASSUME NEW i \in 1 .. Len(text), i - 1 \in D
        PROVE  i \in D
    <2>1. i - 1 \in 0 .. Len(text) /\ i \in 0 .. Len(text) /\ text[i] \in Cells
      BY <1>1, ElementOfSeq
    <2>2. SubSeq(text, 1, i) = Append(SubSeq(text, 1, i - 1), text[i])
      BY <1>1, SubSeqRecursiveSecond, ElementOfSeq
    <2>3. Typed(l(i - 1), text[i]) = l(i)
      <3>1. Typed(l(i - 1), text[i]) = [line |-> Append(l(i - 1).line, text[i]), col |-> l(i - 1).col + 1]
        BY <1>3, <2>1, TypedAtEnd
      <3>2. (i - 1) + 1 = i
        BY <2>1
      <3>3. QED
        BY <2>2, <3>1, <3>2
    <2>4. l(i - 1) \in GoodLines /\ Leads(At(EmptyLine), f[i - 1], At(l(i - 1)))
      BY <1>3, <1>9, <2>1
    <2> HIDE DEF l
    <2>5. Leads(At(l(i - 1)), Encoded(text[i]), At(l(i))) /\ Encoded(text[i]) \in Seq(Bytes)
      BY <2>1, <2>3, <2>4, LeadsCell
    <2>6. f[i] = f[i - 1] \o Encoded(text[i]) /\ f[i - 1] \in Seq(Bytes)
      BY <1>7, <2>1
    <2>7. Leads(At(EmptyLine), f[i], At(l(i)))
      BY <2>4, <2>5, <2>6, LeadsOn
    <2>8. QED
      BY <2>1, <2>7
  <1>10. 0 .. Len(text) \subseteq D
    <2> HIDE DEF D
    <2>1. QED
      BY <1>1, <1>8, <1>9, UpTo
  <1>11. Len(text) \in 0 .. Len(text)
    BY <1>1
  <1>12. l(Len(text)) = [line |-> text, col |-> Len(text)] /\ l(Len(text)) \in GoodLines
    BY <1>3, <1>4, <1>11
  <1> HIDE DEF l
  <1>13. Leads(At(EmptyLine), f[Len(text)], At(l(Len(text))))
    BY <1>10, <1>11
  <1>14. QED
    BY <1>7, <1>11, <1>12, <1>13

LEMMA LeadsReprint ==
  ASSUME NEW p \in Ideals, p.seen = "none", NEW text \in Seq(Cells)
  PROVE  /\ Reprint(text) \in Seq(Bytes)
         /\ Leads(p, Reprint(text), At([line |-> text, col |-> Len(text)]))
  <1>1. <<"cr">> \in Seq(Bytes)
    BY OneThenTwo, Zenon DEF Bytes
  <1>2. QED
    BY <1>1, LeadsToEmpty, LeadsText, LeadsOn, ConcatProperties DEF Reprint

LEMMA PromptIsText == Prompt \in Seq(Cells) /\ Banner \in Seq(Cells) /\ Len(Prompt) = 2
  <1>1. ">" \in Cells /\ " " \in Cells /\ "/" \in Cells
    <2>1. DOMAIN Prompt = {1, 2} /\ DOMAIN Banner = {1}
      BY DEF Prompt, Banner
    <2>2. {Prompt[1], Prompt[2]} \subseteq Glyphs /\ Banner[1] \in Glyphs
      BY <2>1, ConsoleAssumption DEF Range
    <2>3. QED
      BY <2>2 DEF Prompt, Banner, Cells
  <1>2. QED
    BY <1>1, OneThenTwo, Zenon DEF Prompt, Banner

LEMMA LeadsPrompt ==
  /\ PromptBytes \in Seq(Bytes)
  /\ Leads(At(EmptyLine), PromptBytes, At([line |-> Prompt, col |-> Len(Prompt)]))
  <1>0. PICK banner, prompt : banner = Utf8(Banner) /\ prompt = Utf8(Prompt)
    OBVIOUS
  <1>1. /\ prompt \in Seq(Bytes) /\ banner \in Seq(Bytes)
        /\ <<"lf">> \in Seq(Bytes) /\ <<"cr">> \in Seq(Bytes)
    <2>1. <<"lf">> \in Seq(Bytes) /\ <<"cr">> \in Seq(Bytes)
      BY DEF Bytes
    <2>2. prompt \in Seq(Bytes) /\ banner \in Seq(Bytes)
      BY <1>0, PromptIsText, LeadsText, Zenon
    <2>3. QED
      BY <2>1, <2>2
  <1> DEFINE l == [line |-> Banner, col |-> Len(Banner)]
  <1>2. /\ At(l) \in Ideals /\ At(l).seen = "none"
        /\ At(EmptyLine) \in Ideals /\ At(EmptyLine).seen = "none"
    BY PromptIsText, LeadsText, AtIsIdeal, EmptyIsGood
  <1>3. Leads(At(EmptyLine), banner, At(l))
    BY <1>0, PromptIsText, LeadsText
  <1>4. Leads(At(l), <<"lf">>, At(EmptyLine)) /\ Leads(At(EmptyLine), <<"cr">>, At(EmptyLine))
    BY <1>2, LeadsToEmpty
  <1>5. Leads(At(EmptyLine), prompt, At([line |-> Prompt, col |-> Len(Prompt)]))
    BY <1>0, PromptIsText, LeadsText
  <1> HIDE DEF l
  <1>6. /\ <<"lf">> \o <<"cr">> \in Seq(Bytes)
        /\ Leads(At(l), <<"lf">> \o <<"cr">>, At(EmptyLine))
    BY <1>1, <1>4, LeadsOn, ConcatProperties
  <1>7. /\ banner \o (<<"lf">> \o <<"cr">>) \in Seq(Bytes)
        /\ Leads(At(EmptyLine), banner \o (<<"lf">> \o <<"cr">>), At(EmptyLine))
    BY <1>1, <1>3, <1>6, LeadsOn, ConcatProperties
  <1>8. /\ (banner \o (<<"lf">> \o <<"cr">>)) \o prompt \in Seq(Bytes)
        /\ Leads(At(EmptyLine), (banner \o (<<"lf">> \o <<"cr">>)) \o prompt,
                 At([line |-> Prompt, col |-> Len(Prompt)]))
    BY <1>1, <1>5, <1>7, LeadsOn, ConcatProperties
  <1>9. PromptBytes = (banner \o (<<"lf">> \o <<"cr">>)) \o prompt
    <2>1. <<"lf">> \o <<"cr">> = <<"lf", "cr">>
      <3>1. "lf" \in {"lf", "cr"} /\ "cr" \in {"lf", "cr"}
        OBVIOUS
      <3>2. QED
        BY <3>1, OneThenTwo, Zenon
    <2>2. QED
      BY <1>0, <2>1, Zenon DEF PromptBytes
  <1>10. QED
    BY <1>8, <1>9, Zenon

----------------------------------------------------------------------------
(* Arrow sequences. *)
LEMMA Thirds ==
  ASSUME NEW j \in Nat
  PROVE  /\ j \div 3 \in Nat
         /\ \/ j % 3 = 0 /\ (j + 1) % 3 = 1 /\ (j + 1) \div 3 = j \div 3
            \/ j % 3 = 1 /\ (j + 1) % 3 = 2 /\ (j + 1) \div 3 = j \div 3
            \/ j % 3 = 2 /\ (j + 1) % 3 = 0 /\ (j + 1) \div 3 = (j \div 3) + 1
  OBVIOUS

LEMMA EscapeBytes ==
  ASSUME NEW arrow \in Arrows, NEW n \in Nat
  PROVE  /\ Escape(arrow, n) \in Seq(Bytes) /\ Len(Escape(arrow, n)) = 3 * n
         /\ \A i \in 1 .. 3 * n :
              /\ (i - 1) % 3 = 0 => Escape(arrow, n)[i] = "esc"
              /\ (i - 1) % 3 = 1 => Escape(arrow, n)[i] = "["
              /\ (i - 1) % 3 = 2 => Escape(arrow, n)[i] = arrow
  <1> DEFINE S == <<"esc", "[", arrow>>
             E == [i \in 1 .. 3 * n |-> S[((i - 1) % 3) + 1]]
  <1>1. S[1] = "esc" /\ S[2] = "[" /\ S[3] = arrow
    OBVIOUS
  <1>2. "esc" \in Bytes /\ "[" \in Bytes /\ arrow \in Bytes
    BY ConsoleAssumption DEF Bytes, Cells
  <1> HIDE DEF S
  <1>3. \A i \in 1 .. 3 * n : ((i - 1) % 3) + 1 \in {1, 2, 3}
    OBVIOUS
  <1>4. \A i \in 1 .. 3 * n : S[((i - 1) % 3) + 1] \in Bytes
    BY <1>1, <1>2, <1>3
  <1>5. E \in Seq(Bytes) /\ Len(E) = 3 * n
    BY <1>4
  <1>6. \A i \in 1 .. 3 * n : E[i] = S[((i - 1) % 3) + 1]
    OBVIOUS
  <1> HIDE DEF E
  <1>7. Escape(arrow, n) = E
    BY DEF Escape, E, S
  <1>8. QED
    BY <1>1, <1>5, <1>6, <1>7

LEMMA ParsedArrow ==
  ASSUME NEW l, NEW arrow \in Arrows
  PROVE  /\ Parsed(At(l), "esc") = Inside("esc", l) /\ Clean(At(l), "esc")
         /\ Parsed(Inside("esc", l), "[") = Inside("csi", l) /\ Clean(Inside("esc", l), "[")
         /\ Parsed(Inside("csi", l), arrow) = At(Moved(l, arrow)) /\ Clean(Inside("csi", l), arrow)
  <1>0. "esc" \notin Wide /\ "[" \notin Wide \cup Controls /\ arrow \notin Wide \cup Controls
    BY WideAreCells DEF Controls, Arrows
  <1>1. Parsed(At(l), "esc") = Inside("esc", l)
    <2>1. Ground(At(l), "esc") = [At(l) EXCEPT !.seen = "esc"]
      BY GroundArms
    <2>2. QED
      BY <2>1 DEF Parsed, At, Inside
  <1>2. Parsed(Inside("esc", l), "[") = Inside("csi", l)
    BY DEF Parsed, Inside
  <1>3. Parsed(Inside("csi", l), arrow) = At(Moved(l, arrow))
    BY DEF Parsed, At, Inside
  <1>4. Clean(At(l), "esc") /\ Clean(Inside("esc", l), "[") /\ Clean(Inside("csi", l), arrow)
    BY <1>0 DEF Clean, At, Inside
  <1>5. QED
    BY <1>1, <1>2, <1>3, <1>4

(* A sequence moves the caret when its last byte is read. *)
LEMMA LeadsArrows ==
  ASSUME NEW arrow \in Arrows, NEW n \in Nat, NEW m \in [0 .. n -> GoodLines],
         \A k \in 1 .. n : m[k] = Moved(m[k - 1], arrow)
  PROVE  Leads(At(m[0]), Escape(arrow, n), At(m[n]))
  <1> DEFINE seen(i) == IF i % 3 = 0 THEN "none" ELSE IF i % 3 = 1 THEN "esc" ELSE "csi"
             t == [i \in 0 .. 3 * n |-> Inside(seen(i), m[i \div 3])]
             e == Escape(arrow, n)
  <1>1. /\ Len(e) = 3 * n
        /\ \A i \in 1 .. 3 * n : /\ (i - 1) % 3 = 0 => e[i] = "esc"
                                 /\ (i - 1) % 3 = 1 => e[i] = "["
                                 /\ (i - 1) % 3 = 2 => e[i] = arrow
    BY EscapeBytes, Zenon
  <1>2. \A i \in 0 .. 3 * n : /\ i % 3 = 0 => t[i] = At(m[i \div 3])
                              /\ i % 3 = 1 => t[i] = Inside("esc", m[i \div 3])
                              /\ i % 3 = 2 => t[i] = Inside("csi", m[i \div 3])
    <2>1. \A i \in 0 .. 3 * n : t[i] = Inside(seen(i), m[i \div 3])
      OBVIOUS
    <2>2. \A i \in 0 .. 3 * n : /\ i % 3 = 0 => seen(i) = "none"
                                /\ i % 3 = 1 => seen(i) = "esc"
                                /\ i % 3 = 2 => seen(i) = "csi"
      OBVIOUS
    <2>3. \A l : At(l) = Inside("none", l)
      BY DEF At, Inside
    <2> HIDE DEF t, seen
    <2>4. QED
      BY <2>1, <2>2, <2>3, Zenon
  <1>3. t \in [0 .. 3 * n -> Ideals]
    <2>1. \A i \in 0 .. 3 * n : i \div 3 \in 0 .. n
      OBVIOUS
    <2>2. \A i \in 0 .. 3 * n : Inside(seen(i), m[i \div 3]) \in Ideals
      BY <2>1 DEF Ideals, Parsers, Inside
    <2>3. QED
      BY <2>2
  <1>4. t[0] = At(m[0]) /\ t[3 * n] = At(m[n])
    <2>1. 0 % 3 = 0 /\ 0 \div 3 = 0 /\ (3 * n) % 3 = 0 /\ (3 * n) \div 3 = n
      OBVIOUS
    <2>2. 0 \in 0 .. 3 * n /\ 3 * n \in 0 .. 3 * n
      OBVIOUS
    <2> HIDE DEF t
    <2>3. t[0] = At(m[0 \div 3]) /\ t[3 * n] = At(m[(3 * n) \div 3])
      BY <1>2, <2>1, <2>2, Zenon
    <2>4. QED
      BY <2>1, <2>3, Zenon
  <1> HIDE DEF t, e
  <1>5. ASSUME NEW i \in 1 .. 3 * n
        PROVE  t[i] = Parsed(t[i - 1], e[i]) /\ Clean(t[i - 1], e[i])
    <2>1. PICK j \in Nat : j = i - 1 /\ j + 1 = i /\ j \in 0 .. 3 * n /\ i \in 0 .. 3 * n
      OBVIOUS
    <2>2. CASE j % 3 = 0 /\ (j + 1) % 3 = 1 /\ (j + 1) \div 3 = j \div 3
      <3>1. e[i] = "esc" /\ t[j] = At(m[j \div 3]) /\ t[i] = Inside("esc", m[j \div 3])
        BY <1>1, <1>2, <2>1, <2>2, Zenon
      <3>2. QED
        BY <2>1, <3>1, ParsedArrow, Zenon
    <2>3. CASE j % 3 = 1 /\ (j + 1) % 3 = 2 /\ (j + 1) \div 3 = j \div 3
      <3>1. e[i] = "[" /\ t[j] = Inside("esc", m[j \div 3]) /\ t[i] = Inside("csi", m[j \div 3])
        BY <1>1, <1>2, <2>1, <2>3, Zenon
      <3>2. QED
        BY <2>1, <3>1, ParsedArrow, Zenon
    <2>4. CASE j % 3 = 2 /\ (j + 1) % 3 = 0 /\ (j + 1) \div 3 = (j \div 3) + 1
      <3>1. /\ e[i] = arrow /\ t[j] = Inside("csi", m[j \div 3])
            /\ t[i] = At(m[(j \div 3) + 1])
        BY <1>1, <1>2, <2>1, <2>4, Zenon
      <3>2. m[(j \div 3) + 1] = Moved(m[j \div 3], arrow)
        <4>1. (j \div 3) + 1 \in 1 .. n /\ ((j \div 3) + 1) - 1 = j \div 3
          BY <2>1, <2>4
        <4>2. QED
          BY <4>1, Zenon
      <3>3. QED
        BY <2>1, <3>1, <3>2, ParsedArrow, Zenon
    <2>5. QED
      BY <2>2, <2>3, <2>4, Thirds
  <1>6. QED
    BY <1>1, <1>3, <1>4, <1>5, Zenon DEF Leads, IsRun, e

LEMMA LeadsArrow ==
  ASSUME NEW p \in Ideals, p.seen = "none", NEW arrow \in Arrows
  PROVE  Leads(p, Escape(arrow, 1), At(Moved(p.line, arrow)))
  <1> DEFINE m == [k \in 0 .. 1 |-> IF k = 0 THEN p.line ELSE Moved(p.line, arrow)]
  <1>1. p.line \in GoodLines /\ Moved(p.line, arrow) \in GoodLines /\ p = At(p.line)
    BY AtIsIdeal, MovedIsGood
  <1>2. m \in [0 .. 1 -> GoodLines] /\ m[0] = p.line /\ m[1] = Moved(p.line, arrow)
    BY <1>1
  <1>3. \A k \in 1 .. 1 : m[k] = Moved(m[k - 1], arrow)
    OBVIOUS
  <1> HIDE DEF m
  <1>4. Leads(At(m[0]), Escape(arrow, 1), At(m[1]))
    BY <1>2, <1>3, LeadsArrows
  <1>5. QED
    BY <1>1, <1>2, <1>4

LEMMA LeadsBack ==
  ASSUME NEW l \in GoodLines, NEW n \in Nat
  PROVE  Leads(At(l), Escape("D", n), At(MoveBackward(l, n)))
  <1> DEFINE m == [k \in 0 .. n |-> MoveBackward(l, k)]
  <1>1. \A k \in 0 .. n : MoveBackward(l, k) \in GoodLines
    BY MovesStayInLine
  <1>2. m \in [0 .. n -> GoodLines] /\ m[0] = l /\ m[n] = MoveBackward(l, n)
    <2>1. MoveBackward(l, 0) = l
      BY LineType DEF MoveBackward, Monus
    <2>2. QED
      BY <1>1, <2>1
  <1>3. ASSUME NEW k \in 1 .. n
        PROVE  m[k] = Moved(m[k - 1], "D")
    <2>1. m[k] = MoveBackward(l, k) /\ m[k - 1] = MoveBackward(l, k - 1)
      OBVIOUS
    <2>2. /\ MoveBackward(l, k) = [line |-> l.line, col |-> Monus(l.col, k)]
          /\ MoveBackward(l, k - 1) = [line |-> l.line, col |-> Monus(l.col, k - 1)]
      BY DEF MoveBackward, GoodLines, CaretLines
    <2>3. Monus(Monus(l.col, k - 1), 1) = Monus(l.col, k)
      BY LineType DEF Monus
    <2> HIDE DEF m
    <2>4. MoveBackward(m[k - 1], 1) = m[k]
      BY <2>1, <2>2, <2>3 DEF MoveBackward
    <2>5. QED
      BY <2>4 DEF Moved
  <1> HIDE DEF m
  <1>4. Leads(At(m[0]), Escape("D", n), At(m[n]))
    BY <1>2, <1>3, LeadsArrows DEF Arrows
  <1>5. QED
    BY <1>2, <1>4

----------------------------------------------------------------------------
(* ParsedPacket is what its recursion says. *)
LEMMA PacketRun ==
  ASSUME NEW start \in Parsers, NEW packet \in Seq(Bytes)
  PROVE  \E t \in [0 .. Len(packet) -> Parsers] :
           /\ t[0] = start /\ t[Len(packet)] = ParsedPacket(start, packet)
           /\ \A i \in 1 .. Len(packet) : t[i] = Parsed(t[i - 1], packet[i])
  <1> DEFINE n == Len(packet)
             step == [i \in 1 .. n |-> [p \in Parsers |-> Parsed(p, packet[i])]]
             rec(g) == [i \in 0 .. n |-> IF i = 0 THEN start ELSE Parsed(g[i - 1], packet[i])]
             f == CHOOSE g : g = rec(g)
  <1>1. n \in Nat /\ \A i \in 1 .. n : packet[i] \in Bytes
    BY LenProperties, ElementOfSeq
  <1>2. step \in [1 .. n -> [Parsers -> Parsers]]
    BY <1>1, ParsedType
  <1>3. PICK t : Computes(t, n, Parsers, start, step)
    <2> HIDE DEF step, n
    <2>1. QED
      BY <1>1, <1>2, Recursion
  <1>4. /\ t \in [0 .. n -> Parsers] /\ t[0] = start
        /\ \A i \in 1 .. n : t[i] = Parsed(t[i - 1], packet[i])
    <2>1. /\ t \in [0 .. n -> Parsers] /\ t[0] = start
          /\ \A i \in 1 .. n : t[i] = step[i][t[i - 1]]
      BY <1>3, Zenon DEF Computes
    <2>2. ASSUME NEW i \in 1 .. n PROVE step[i][t[i - 1]] = Parsed(t[i - 1], packet[i])
      <3>1. t[i - 1] \in Parsers
        BY <1>1, <2>1
      <3>2. QED
        BY <3>1, Zenon
    <2>3. QED
      BY <2>1, <2>2, Zenon
  <1>5. t = rec(t)
    BY <1>1, <1>4
  <1>6. f = rec(f)
    <2> HIDE DEF rec
    <2>1. QED
      BY <1>5, Zenon
  <1>7. ParsedPacket(start, packet) = f[n]
    BY DEF ParsedPacket
  <1> HIDE DEF f, n
  <1>8. f[0] = start /\ \A i \in 1 .. n : f[i] = Parsed(f[i - 1], packet[i])
    BY <1>1, <1>6
  <1> DEFINE E == {i \in 0 .. n : f[i] = t[i]}
  <1>9. 0 \in E /\ \A i \in 1 .. n : i - 1 \in E => i \in E
    BY <1>1, <1>4, <1>8
  <1>10. 0 .. n \subseteq E
    <2> HIDE DEF E
    <2>1. QED
      BY <1>1, <1>9, UpTo
  <1>11. f[n] = t[n]
    BY <1>1, <1>10
  <1>12. QED
    BY <1>4, <1>7, <1>11 DEF n

(* A packet read by a new parser, against the same bytes of the stream. *)
LEMMA FollowsPacket ==
  ASSUME NEW p \in Parsers, NEW q \in Ideals, Follows(p, q),
         NEW w \in Seq(Bytes), NEW r, Leads(q, w, r)
  PROVE  ParsedPacket(p, w) \in Parsers /\ Follows(ParsedPacket(p, w), r)
  <1>1. PICK s \in [0 .. Len(w) -> Parsers] :
          /\ s[0] = p /\ s[Len(w)] = ParsedPacket(p, w)
          /\ \A i \in 1 .. Len(w) : s[i] = Parsed(s[i - 1], w[i])
    BY PacketRun
  <1>2. PICK t \in [0 .. Len(w) -> Ideals] : IsRun(t, q, w, r)
    BY DEF Leads
  <1>3. Len(w) \in Nat
    BY LenProperties
  <1> DEFINE D == {i \in 0 .. Len(w) : Follows(s[i], t[i])}
  <1>4. 0 \in D
    BY <1>1, <1>2, <1>3 DEF IsRun
  <1>5. ASSUME NEW i \in 1 .. Len(w), i - 1 \in D
        PROVE  i \in D
    <2>1. i - 1 \in 0 .. Len(w) /\ i \in 0 .. Len(w)
      BY <1>3
    <2>2. s[i - 1] \in Parsers /\ t[i - 1] \in Ideals /\ w[i] \in Bytes /\ Follows(s[i - 1], t[i - 1])
      BY <1>5, <2>1, ElementOfSeq
    <2>3. /\ s[i] = Parsed(s[i - 1], w[i])
          /\ t[i] = Parsed(t[i - 1], w[i]) /\ Clean(t[i - 1], w[i])
      BY <1>1, <1>2, Zenon DEF IsRun
    <2>4. QED
      BY <2>1, <2>2, <2>3, FollowsByte
  <1>6. 0 .. Len(w) \subseteq D
    <2> HIDE DEF D
    <2>1. QED
      BY <1>3, <1>4, <1>5, UpTo
  <1>7. Follows(s[Len(w)], t[Len(w)])
    BY <1>3, <1>6
  <1>8. QED
    BY <1>1, <1>2, <1>3, <1>7 DEF IsRun

----------------------------------------------------------------------------
(* The line the shell edits. *)
LEMMA Inserted ==
  ASSUME NEW s \in Seq(Cells), NEW i \in 0 .. Len(s), NEW c \in Cells
  PROVE  InsertAt(s, i + 1, c) \in Seq(Cells) /\ Len(InsertAt(s, i + 1, c)) = Len(s) + 1
  <1> DEFINE u == SubSeq(s, 1, i)
             v == SubSeq(s, i + 1, Len(s))
  <1>1. Len(s) \in Nat /\ (i + 1) - 1 = i
    BY LenProperties
  <1>2. u \in Seq(Cells) /\ Len(u) = i /\ v \in Seq(Cells) /\ Len(v) = Len(s) - i
    BY <1>1, SubSeqProperties, ElementOfSeq
  <1>3. <<c>> \in Seq(Cells) /\ Len(<<c>>) = 1
    OBVIOUS
  <1>4. InsertAt(s, i + 1, c) = (u \o <<c>>) \o v
    BY <1>1, Zenon DEF InsertAt
  <1> HIDE DEF u, v
  <1>5. u \o <<c>> \in Seq(Cells) /\ Len(u \o <<c>>) = i + 1
    BY <1>2, <1>3, ConcatProperties
  <1>6. /\ (u \o <<c>>) \o v \in Seq(Cells)
        /\ Len((u \o <<c>>) \o v) = Len(u \o <<c>>) + Len(v)
    BY <1>2, <1>5, ConcatProperties
  <1>7. i \in Nat /\ (i + 1) + (Len(s) - i) = Len(s) + 1
    BY <1>1
  <1>8. QED
    BY <1>2, <1>4, <1>5, <1>6, <1>7, Zenon

LEMMA Removed ==
  ASSUME NEW s \in Seq(Cells), NEW i \in 1 .. Len(s)
  PROVE  RemoveAt(s, i) \in Seq(Cells) /\ Len(RemoveAt(s, i)) = Len(s) - 1
  <1> DEFINE u == SubSeq(s, 1, i - 1)
             v == SubSeq(s, i + 1, Len(s))
  <1>1. Len(s) \in Nat
    BY LenProperties
  <1>2. u \in Seq(Cells) /\ Len(u) = i - 1 /\ v \in Seq(Cells) /\ Len(v) = Len(s) - i
    BY <1>1, SubSeqProperties, ElementOfSeq
  <1>3. RemoveAt(s, i) = u \o v
    BY Zenon DEF RemoveAt
  <1> HIDE DEF u, v
  <1>4. u \o v \in Seq(Cells) /\ Len(u \o v) = Len(u) + Len(v)
    BY <1>2, ConcatProperties
  <1>5. (i - 1) + (Len(s) - i) = Len(s) - 1
    BY <1>1
  <1>6. QED
    BY <1>2, <1>3, <1>4, <1>5, Zenon

----------------------------------------------------------------------------
(* What the shell writes joins the end of the stream. *)
LEMMA WritesOn ==
  ASSUME ConsoleType, NEW at \in Stations, NEW last \in Ideals, OnItsWay(at, last),
         NEW bytes \in Seq(Bytes), NEW next \in Ideals, Leads(last, bytes, next),
         Writes(bytes), UNCHANGED <<queue, screen, torn>>
  PROVE  out' \in Seq(Bytes) /\ at \in Stations' /\ OnItsWay(at, next)'
  <1>1. out \in Seq(Bytes) /\ out' = out \o bytes
    BY DEF ConsoleType, Writes
  <1>2. Leads(at[Len(queue) + 1], out \o bytes, next)
    BY <1>1, LeadsOn DEF OnItsWay
  <1>3. at \in Stations'
    BY DEF Stations
  <1>4. Fresh' = Fresh
    BY DEF Fresh
  <1>5. QED
    BY <1>1, <1>2, <1>3, <1>4, ConcatProperties DEF OnItsWay

(* A step of the shell keeps the invariant if what it writes leads to the  *)
(* line it leaves.                                                         *)
LEMMA ShellStep ==
  ASSUME ConsoleType, NEW at \in Stations, NEW last \in Ideals, OnItsWay(at, last),
         NEW bytes \in Seq(Bytes), NEW next \in Ideals, Leads(last, bytes, next),
         Writes(bytes), UNCHANGED <<queue, screen, torn>>,
         buf' \in Seq(Cells), cursor' \in 0 .. Len(buf'), running' \in BOOLEAN,
         Arrives(next)'
  PROVE  IInv'
  <1>1. ConsoleType'
    BY WritesOn DEF ConsoleType
  <1>2. QED
    BY <1>1, WritesOn DEF IInv

(* The line the stream leads to, while the shell reads keys. *)
LEMMA Arrived ==
  ASSUME ConsoleType, NEW last \in Ideals, Arrives(last), ~running
  PROVE  /\ last.seen = "none" /\ last.line \in GoodLines /\ last = At(last.line)
         /\ last.line.line = buf /\ last.line.col \in cursor .. Len(buf)
         /\ last.line = [line |-> buf, col |-> last.line.col]
         /\ buf \in Seq(Cells) /\ Len(buf) \in Nat /\ cursor \in 0 .. Len(buf)
  <1>1. last.seen = "none" /\ last.line.line = buf /\ last.line.col \in cursor .. Len(buf)
    BY DEF Arrives
  <1>2. last.line \in GoodLines /\ last = At(last.line)
    BY <1>1, AtIsIdeal
  <1>3. QED
    BY <1>1, <1>2, LineType, LenProperties DEF ConsoleType

LEMMA InputStep ==
  ASSUME ConsoleType, NEW at \in Stations, NEW last \in Ideals, OnItsWay(at, last),
         Arrives(last), NEW c \in Letters \cup {Tab}, Input(c)
  PROVE  IInv'
  <1>0. c \in Cells /\ c \in Bytes /\ ~running
    BY ConsoleAssumption DEF Cells, Bytes, Input, Reading
  <1>1. /\ last.seen = "none" /\ last.line \in GoodLines /\ last = At(last.line)
        /\ last.line.line = buf /\ last.line.col \in cursor .. Len(buf)
        /\ last.line = [line |-> buf, col |-> last.line.col]
        /\ buf \in Seq(Cells) /\ Len(buf) \in Nat /\ cursor \in 0 .. Len(buf)
    BY <1>0, Arrived
  <1>2. CASE cursor = Len(buf) /\ buf' = Append(buf, c) /\ Writes(Encoded(c))
    <2>1. buf' \in Seq(Cells) /\ Len(buf') = Len(buf) + 1
      BY <1>0, <1>1, <1>2, AppendProperties
    <2>2. cursor' = Len(buf') /\ last.line.col = Len(buf)
      BY <1>1, <1>2, <2>1 DEF Input, Least
    <2> PICK l : l = [line |-> buf', col |-> Len(buf')]
      OBVIOUS
    <2>3. Typed(last.line, c) = l
      BY <1>0, <1>1, <1>2, <2>1, <2>2, TypedAtEnd DEF AtEnd
    <2>4. l \in GoodLines
      BY <1>0, <1>1, <2>3, TypedIsGood
    <2>5. /\ Leads(At(last.line), Encoded(c), At(Typed(last.line, c)))
          /\ At(Typed(last.line, c)) \in Ideals /\ Encoded(c) \in Seq(Bytes)
      BY <1>0, <1>1, LeadsCell
    <2>6. Leads(last, Encoded(c), At(l)) /\ At(l) \in Ideals
      BY <1>1, <2>3, <2>5, Zenon
    <2>7. Arrives(At(l))'
      BY <2>1, <2>2 DEF Arrives, At
    <2>8. cursor' \in 0 .. Len(buf') /\ running' \in BOOLEAN /\ UNCHANGED <<queue, screen, torn>>
      BY <1>1, <2>1, <2>2 DEF Input, termVars, ConsoleType
    <2>9. QED
      BY <1>2, <2>1, <2>5, <2>6, <2>7, <2>8, ShellStep
  <1>3. CASE buf' = InsertAt(buf, cursor + 1, c) /\ Writes(Reprint(buf'))
    <2>1. buf' \in Seq(Cells) /\ Len(buf') = Len(buf) + 1
      BY <1>0, <1>1, <1>3, Inserted
    <2>2. cursor' \in 0 .. Len(buf')
      BY <1>1, <2>1 DEF Input, Least
    <2> PICK l : l = [line |-> buf', col |-> Len(buf')]
      OBVIOUS
    <2>3. Leads(last, Reprint(buf'), At(l)) /\ At(l) \in Ideals /\ Reprint(buf') \in Seq(Bytes)
      BY <1>1, <2>1, LeadsReprint, LeadsText, AtIsIdeal
    <2>4. Arrives(At(l))'
      BY <2>1, <2>2 DEF Arrives, At
    <2>5. running' \in BOOLEAN /\ UNCHANGED <<queue, screen, torn>>
      BY DEF Input, termVars, ConsoleType
    <2>6. QED
      BY <1>3, <2>1, <2>2, <2>3, <2>4, <2>5, ShellStep
  <1>4. QED
    BY <1>2, <1>3 DEF Input

LEMMA MoveVerticallyStep ==
  ASSUME ConsoleType, NEW at \in Stations, NEW last \in Ideals, OnItsWay(at, last),
         Arrives(last), NEW arrow \in {"A", "B"}, MoveVertically(arrow)
  PROVE  IInv'
  <1>1. ~running /\ last.seen = "none" /\ last = At(last.line) /\ arrow \in Arrows
    BY Arrived DEF MoveVertically, Reading, Arrows
  <1>2. Moved(last.line, arrow) = last.line
    BY DEF Moved
  <1>3. Leads(last, Escape(arrow, 1), last)
    BY <1>1, <1>2, LeadsArrow
  <1>4. Escape(arrow, 1) \in Seq(Bytes)
    BY <1>1, EscapeBytes
  <1>5. /\ Writes(Escape(arrow, 1)) /\ UNCHANGED <<buf, cursor, running, queue, screen, torn>>
    BY DEF MoveVertically, shellVars, termVars
  <1>6. Arrives(last)'
    BY <1>5 DEF Arrives
  <1>7. buf' \in Seq(Cells) /\ cursor' \in 0 .. Len(buf') /\ running' \in BOOLEAN
    BY <1>5 DEF ConsoleType
  <1>8. QED
    BY <1>3, <1>4, <1>5, <1>6, <1>7, ShellStep

LEMMA CursorForwardStep ==
  ASSUME ConsoleType, NEW at \in Stations, NEW last \in Ideals, OnItsWay(at, last),
         Arrives(last), CursorForward
  PROVE  IInv'
  <1>0. ~running /\ "C" \in Arrows
    BY DEF CursorForward, Reading, Arrows
  <1>1. /\ last.seen = "none" /\ last.line \in GoodLines
        /\ last.line.line = buf /\ last.line.col \in cursor .. Len(buf)
        /\ buf \in Seq(Cells) /\ Len(buf) \in Nat /\ cursor \in 0 .. Len(buf)
    BY <1>0, Arrived
  <1>2. PICK l : l = MoveForward(last.line, 1)
    OBVIOUS
  <1>3. l \in GoodLines /\ l.line = buf /\ l.col = Least(last.line.col + 1, Len(buf))
    BY <1>1, <1>2, MovesStayInLine DEF MoveForward, GoodLines, CaretLines
  <1>4. /\ Writes(Escape("C", 1)) /\ UNCHANGED <<buf, running, queue, screen, torn>>
        /\ cursor' = Least(cursor + 1, Len(buf))
    BY DEF CursorForward, termVars
  <1>5. Leads(last, Escape("C", 1), At(l)) /\ At(l) \in Ideals
    <2>1. Moved(last.line, "C") = l
      BY <1>2 DEF Moved
    <2>2. QED
      BY <1>0, <1>1, <1>3, <2>1, LeadsArrow, AtIsIdeal
  <1>6. Escape("C", 1) \in Seq(Bytes)
    BY <1>0, EscapeBytes
  <1>7. cursor' \in 0 .. Len(buf) /\ l.col \in cursor' .. Len(buf)
    BY <1>1, <1>3, <1>4 DEF Least
  <1>8. Arrives(At(l))'
    BY <1>3, <1>4, <1>7 DEF Arrives, At
  <1>9. buf' \in Seq(Cells) /\ cursor' \in 0 .. Len(buf') /\ running' \in BOOLEAN
    BY <1>4, <1>7 DEF ConsoleType
  <1>10. QED
    BY <1>4, <1>5, <1>6, <1>8, <1>9, ShellStep

LEMMA CursorBackwardStep ==
  ASSUME ConsoleType, NEW at \in Stations, NEW last \in Ideals, OnItsWay(at, last),
         Arrives(last), CursorBackward
  PROVE  IInv'
  <1>0. ~running /\ "D" \in Arrows
    BY DEF CursorBackward, Reading, Arrows
  <1>1. /\ last.seen = "none" /\ last.line \in GoodLines
        /\ last.line.line = buf /\ last.line.col \in cursor .. Len(buf)
        /\ buf \in Seq(Cells) /\ Len(buf) \in Nat /\ cursor \in 0 .. Len(buf)
    BY <1>0, Arrived
  <1>2. PICK l : l = MoveBackward(last.line, 1)
    OBVIOUS
  <1>3. l \in GoodLines /\ l.line = buf /\ l.col = Monus(last.line.col, 1)
    BY <1>1, <1>2, MovesStayInLine DEF MoveBackward, GoodLines, CaretLines
  <1>4. /\ Writes(Escape("D", 1)) /\ UNCHANGED <<buf, running, queue, screen, torn>>
        /\ cursor' = Monus(cursor, 1)
    BY DEF CursorBackward, termVars
  <1>5. Leads(last, Escape("D", 1), At(l)) /\ At(l) \in Ideals
    <2>1. Moved(last.line, "D") = l
      BY <1>2 DEF Moved
    <2>2. QED
      BY <1>0, <1>1, <1>3, <2>1, LeadsArrow, AtIsIdeal
  <1>6. Escape("D", 1) \in Seq(Bytes)
    BY <1>0, EscapeBytes
  <1>7. cursor' \in 0 .. Len(buf) /\ l.col \in cursor' .. Len(buf)
    BY <1>1, <1>3, <1>4 DEF Monus
  <1>8. Arrives(At(l))'
    BY <1>3, <1>4, <1>7 DEF Arrives, At
  <1>9. buf' \in Seq(Cells) /\ cursor' \in 0 .. Len(buf') /\ running' \in BOOLEAN
    BY <1>4, <1>7 DEF ConsoleType
  <1>10. QED
    BY <1>4, <1>5, <1>6, <1>8, <1>9, ShellStep

(* One step back, the line again, and back to where the cell was. *)
LEMMA BackspaceStep ==
  ASSUME ConsoleType, NEW at \in Stations, NEW last \in Ideals, OnItsWay(at, last),
         Arrives(last), Backspace
  PROVE  IInv'
  <1>0. ~running /\ "D" \in Arrows
    BY DEF Backspace, Reading, Arrows
  <1>1. /\ last.seen = "none" /\ last.line \in GoodLines
        /\ buf \in Seq(Cells) /\ Len(buf) \in Nat /\ cursor \in 0 .. Len(buf)
    BY <1>0, Arrived
  <1>2. cursor \in 1 .. Len(buf) /\ cursor' = cursor - 1 /\ buf' = RemoveAt(buf, cursor)
    BY <1>1, PromptIsText DEF Backspace
  <1>3. buf' \in Seq(Cells) /\ Len(buf') = Len(buf) - 1
    BY <1>1, <1>2, Removed
  <1> DEFINE n == Monus(Len(buf'), cursor')
  <1>4. n \in Nat /\ Len(buf') \in Nat /\ cursor' \in 0 .. Len(buf') /\ Monus(Len(buf'), n) = cursor'
    BY <1>1, <1>2, <1>3 DEF Monus
  <1>5. PICK k \in Nat : k = n
    BY <1>4
  <1>6. PICK l : l = [line |-> buf', col |-> Len(buf')]
    OBVIOUS
  <1>7. PICK bytes : bytes = Escape("D", 1) \o Reprint(buf') \o Escape("D", k)
    OBVIOUS
  <1> HIDE DEF n
  <1>8. Writes(bytes) /\ UNCHANGED <<running, queue, screen, torn>>
    BY <1>5, <1>7 DEF Backspace, termVars, n
  <1>9. l \in GoodLines /\ At(l) \in Ideals /\ l.line = buf' /\ l.col = Len(buf')
    BY <1>3, <1>6, LeadsText, AtIsIdeal
  <1>10. PICK m : m = MoveBackward(l, k)
    OBVIOUS
  <1>11. m \in GoodLines /\ At(m) \in Ideals /\ m.line = buf' /\ m.col = cursor'
    <2>1. m \in GoodLines
      BY <1>9, <1>10, MovesStayInLine
    <2>2. m.line = buf' /\ m.col = Monus(Len(buf'), k)
      BY <1>6, <1>10 DEF MoveBackward
    <2>3. QED
      BY <1>4, <1>5, <2>1, <2>2, AtIsIdeal
  <1>12. bytes \in Seq(Bytes) /\ Leads(last, bytes, At(m))
    <2>1. PICK o : o = Moved(last.line, "D")
      OBVIOUS
    <2>2. o \in GoodLines /\ At(o) \in Ideals /\ At(o).seen = "none"
      BY <1>1, <2>1, MovedIsGood, AtIsIdeal
    <2>3. Leads(last, Escape("D", 1), At(o)) /\ Escape("D", 1) \in Seq(Bytes)
      BY <1>0, <1>1, <2>1, LeadsArrow, EscapeBytes
    <2>4. Leads(At(o), Reprint(buf'), At(l)) /\ Reprint(buf') \in Seq(Bytes)
      BY <1>3, <1>6, <2>2, LeadsReprint
    <2>5. Leads(At(l), Escape("D", k), At(m)) /\ Escape("D", k) \in Seq(Bytes)
      BY <1>0, <1>9, <1>10, LeadsBack, EscapeBytes
    <2>6. /\ Escape("D", 1) \o Reprint(buf') \in Seq(Bytes)
          /\ Leads(last, Escape("D", 1) \o Reprint(buf'), At(l))
      BY <2>3, <2>4, LeadsOn, ConcatProperties
    <2>7. QED
      BY <1>7, <2>5, <2>6, LeadsOn, ConcatProperties
  <1>13. Arrives(At(m))'
    BY <1>4, <1>11 DEF Arrives, At
  <1>14. running' \in BOOLEAN
    BY <1>8 DEF ConsoleType
  <1>15. QED
    BY <1>3, <1>4, <1>8, <1>11, <1>12, <1>13, <1>14, ShellStep

LEMMA CarriageReturnStep ==
  ASSUME ConsoleType, NEW at \in Stations, NEW last \in Ideals, OnItsWay(at, last),
         Arrives(last), CarriageReturn
  PROVE  IInv'
  <1>1. last.seen = "none"
    BY DEF Arrives
  <1>2. Leads(last, <<"cr">>, At(EmptyLine)) /\ At(EmptyLine) \in Ideals
    BY <1>1, LeadsToEmpty, EmptyIsGood, AtIsIdeal
  <1>3. <<"cr">> \in Seq(Bytes)
    BY OneThenTwo, Zenon DEF Bytes
  <1>4. /\ Writes(<<"cr">>) /\ UNCHANGED <<running, queue, screen, torn>>
        /\ buf' = <<>> /\ cursor' = 0
    BY DEF CarriageReturn, termVars
  <1>5. buf' \in Seq(Cells) /\ Len(buf') = 0 /\ cursor' \in 0 .. Len(buf') /\ running' \in BOOLEAN
    BY <1>4 DEF ConsoleType
  <1>6. Arrives(At(EmptyLine))'
    BY <1>4, <1>5 DEF Arrives, At, EmptyLine
  <1>7. QED
    BY <1>2, <1>3, <1>4, <1>5, <1>6, ShellStep

LEMMA LinefeedStep ==
  ASSUME ConsoleType, NEW at \in Stations, NEW last \in Ideals, OnItsWay(at, last),
         Arrives(last), Linefeed
  PROVE  IInv'
  <1>1. last.seen = "none"
    BY DEF Arrives
  <1>2. Leads(last, <<"lf">>, At(EmptyLine)) /\ At(EmptyLine) \in Ideals
    BY <1>1, LeadsToEmpty, EmptyIsGood, AtIsIdeal
  <1>3. <<"lf">> \in Seq(Bytes)
    BY OneThenTwo, Zenon DEF Bytes
  <1>4. Writes(<<"lf">>) /\ running' = TRUE /\ UNCHANGED <<buf, cursor, queue, screen, torn>>
    BY DEF Linefeed, termVars
  <1>5. buf' \in Seq(Cells) /\ cursor' \in 0 .. Len(buf') /\ running' \in BOOLEAN
    BY <1>4 DEF ConsoleType
  <1>6. Arrives(At(EmptyLine))'
    BY <1>4 DEF Arrives, At
  <1>7. QED
    BY <1>2, <1>3, <1>4, <1>5, <1>6, ShellStep

LEMMA JobWritesStep ==
  ASSUME ConsoleType, NEW at \in Stations, NEW last \in Ideals, OnItsWay(at, last),
         Arrives(last), NEW c \in Letters \cup {"lf"}, JobWrites(c)
  PROVE  IInv'
  <1>1. last.seen = "none" /\ last.line \in GoodLines /\ last = At(last.line)
    BY AtIsIdeal DEF Arrives
  <1>2. PICK l \in GoodLines : /\ At(l) \in Ideals /\ Encoded(c) \in Seq(Bytes)
                               /\ Leads(last, Encoded(c), At(l))
    <2>1. CASE c = "lf"
      <3>1. Encoded(c) = <<"lf">>
        BY <2>1, WideAreCells DEF Encoded, Controls
      <3>2. <<"lf">> \in Seq(Bytes)
        BY OneThenTwo, Zenon DEF Bytes
      <3>3. Leads(last, <<"lf">>, At(EmptyLine)) /\ At(EmptyLine) \in Ideals
        BY <1>1, LeadsToEmpty, EmptyIsGood, AtIsIdeal
      <3>4. QED
        BY <3>1, <3>2, <3>3, EmptyIsGood
    <2>2. CASE c \in Cells
      <3>1. /\ Encoded(c) \in Seq(Bytes) /\ At(Typed(last.line, c)) \in Ideals
            /\ Leads(At(last.line), Encoded(c), At(Typed(last.line, c)))
        BY <1>1, <2>2, LeadsCell
      <3>2. QED
        BY <1>1, <2>2, <3>1, TypedIsGood, Zenon
    <2>3. QED
      BY <2>1, <2>2, ConsoleAssumption DEF Cells
  <1>3. /\ Writes(Encoded(c)) /\ running
        /\ UNCHANGED <<buf, cursor, running, queue, screen, torn>>
    BY DEF JobWrites, shellVars, termVars
  <1>4. buf' \in Seq(Cells) /\ cursor' \in 0 .. Len(buf') /\ running' \in BOOLEAN
    BY <1>3 DEF ConsoleType
  <1>5. Arrives(At(l))'
    BY <1>3 DEF Arrives, At
  <1>6. QED
    BY <1>2, <1>3, <1>4, <1>5, ShellStep

LEMMA NewPromptStep ==
  ASSUME ConsoleType, NEW at \in Stations, NEW last \in Ideals, OnItsWay(at, last),
         Arrives(last), NewPrompt
  PROVE  IInv'
  <1>1. last.seen = "none" /\ At(EmptyLine) \in Ideals /\ At(EmptyLine).seen = "none"
    BY EmptyIsGood, AtIsIdeal DEF Arrives
  <1>2. PICK l : l = [line |-> Prompt, col |-> Len(Prompt)]
    OBVIOUS
  <1>3. At(l) \in Ideals /\ l \in GoodLines
    BY <1>2, PromptIsText, LeadsText, AtIsIdeal
  <1>4. /\ <<"lf", "cr">> \o PromptBytes \in Seq(Bytes)
        /\ Leads(last, <<"lf", "cr">> \o PromptBytes, At(l))
    <2>1. Leads(last, <<"lf">>, At(EmptyLine)) /\ Leads(At(EmptyLine), <<"cr">>, At(EmptyLine))
      BY <1>1, LeadsToEmpty
    <2>2. /\ <<"lf">> \in Seq(Bytes) /\ <<"cr">> \in Seq(Bytes)
          /\ <<"lf">> \o <<"cr">> = <<"lf", "cr">> /\ <<"lf", "cr">> \in Seq(Bytes)
      <3>1. "lf" \in Bytes /\ "cr" \in Bytes
        BY DEF Bytes
      <3>2. QED
        BY <3>1, OneThenTwo, Zenon
    <2>3. Leads(last, <<"lf">> \o <<"cr">>, At(EmptyLine))
      BY <2>1, <2>2, LeadsOn
    <2>4. Leads(last, <<"lf", "cr">>, At(EmptyLine))
      BY <2>2, <2>3, Zenon
    <2>5. QED
      BY <1>2, <2>2, <2>4, LeadsPrompt, LeadsOn, ConcatProperties
  <1>5. /\ Writes(<<"lf", "cr">> \o PromptBytes) /\ UNCHANGED <<queue, screen, torn>>
        /\ buf' = Prompt /\ cursor' = Len(Prompt) /\ running' = FALSE
    BY DEF NewPrompt, termVars
  <1>6. buf' \in Seq(Cells) /\ cursor' \in 0 .. Len(buf') /\ running' \in BOOLEAN
    <2>1. Prompt \in Seq(Cells) /\ Len(Prompt) = 2 /\ 2 \in 0 .. 2 /\ FALSE \in BOOLEAN
      BY PromptIsText
    <2>2. QED
      BY <1>5, <2>1, Zenon
  <1>7. Arrives(At(l))'
    BY <1>2, <1>5, PromptIsText DEF Arrives, At
  <1>8. QED
    BY <1>3, <1>4, <1>5, <1>6, <1>7, ShellStep

(* The reader thread cuts the pipe: the cut is a new station. *)
LEMMA ReadStdoutStep ==
  ASSUME ConsoleType, NEW at \in Stations, NEW last \in Ideals, OnItsWay(at, last),
         Arrives(last), ReadStdout
  PROVE  IInv'
  <1> DEFINE m == Len(queue) + 1
  <1>1. /\ out \in Seq(Bytes) /\ queue \in Seq(Seq(Bytes)) /\ Len(out) \in Nat
        /\ Len(queue) \in Nat /\ m \in Nat
    BY LenProperties DEF ConsoleType
  <1>2. PICK n \in 1 .. Len(out) : /\ queue' = Append(queue, SubSeq(out, 1, n))
                                   /\ out' = SubSeq(out, n + 1, Len(out))
    BY DEF ReadStdout
  <1>3. n \in 0 .. Len(out) /\ UNCHANGED <<shellVars, termVars>>
    BY <1>1 DEF ReadStdout
  <1>4. Leads(at[m], out, last)
    BY DEF OnItsWay
  <1>5. PICK q \in Ideals : Leads(at[m], SubSeq(out, 1, n), q) /\ Leads(q, out', last)
    BY <1>1, <1>2, <1>3, <1>4, LeadsCut
  <1>6. SubSeq(out, 1, n) \in Seq(Bytes) /\ out' \in Seq(Bytes)
    BY <1>1, <1>2, SubSeqProperties
  <1>7. /\ queue' \in Seq(Seq(Bytes)) /\ Len(queue') = m
        /\ \A k \in 1 .. Len(queue) : queue'[k] = queue[k]
        /\ queue'[m] = SubSeq(out, 1, n)
    BY <1>1, <1>2, <1>6, AppendProperties
  <1>8. PICK next \in [1 .. m + 1 -> Ideals] : next = [k \in 1 .. m + 1 |-> IF k <= m THEN at[k] ELSE q]
    <2>1. \A k \in 1 .. m : at[k] \in Ideals
      BY DEF Stations
    <2> HIDE DEF m
    <2>2. \A k \in 1 .. m + 1 : (IF k <= m THEN at[k] ELSE q) \in Ideals
      BY <1>1, <2>1
    <2>3. [k \in 1 .. m + 1 |-> IF k <= m THEN at[k] ELSE q] \in [1 .. m + 1 -> Ideals]
      BY <2>2
    <2>4. QED
      BY <2>3, Zenon
  <1>9. (\A k \in 1 .. m : next[k] = at[k]) /\ next[m + 1] = q
    BY <1>1, <1>8
  <1> HIDE DEF m
  <1>10. ASSUME NEW k \in 1 .. m
         PROVE  Leads(next[k], queue'[k], next[k + 1])
    <2>1. CASE k = m
      BY <1>5, <1>7, <1>9, <2>1
    <2>2. CASE k # m
      <3>1. k \in 1 .. Len(queue) /\ k + 1 \in 1 .. m
        BY <1>1, <2>2, SMTT(60) DEF m
      <3>2. Leads(at[k], queue[k], at[k + 1])
        BY <3>1 DEF OnItsWay
      <3>3. QED
        BY <1>7, <1>9, <3>1, <3>2, Zenon
    <2>3. QED
      BY <2>1, <2>2
  <1>11. Follows(Fresh', next[1])
    <2>1. Fresh' = Fresh /\ 1 \in 1 .. m
      BY <1>1, <1>3 DEF Fresh, termVars, m
    <2>2. QED
      BY <1>9, <2>1, Zenon DEF OnItsWay
  <1>12. OnItsWay(next, last)' /\ next \in Stations'
    <2>1. OnItsWay(next, last)'
      BY <1>5, <1>7, <1>9, <1>10, <1>11, Zenon DEF OnItsWay
    <2>2. next \in Stations'
      BY <1>7, <1>8 DEF Stations
    <2>3. QED
      BY <2>1, <2>2
  <1>13. Arrives(last)'
    BY <1>3 DEF Arrives, shellVars
  <1>14. ConsoleType'
    BY <1>3, <1>6, <1>7 DEF ConsoleType, shellVars, termVars
  <1>15. QED
    BY <1>12, <1>13, <1>14, Zenon DEF IInv

(* The event loop parses the first packet: the stations move up by one, and *)
(* if the packet ended inside a sequence the parser has torn it.            *)
LEMMA ProcessEventsStep ==
  ASSUME ConsoleType, NEW at \in Stations, NEW last \in Ideals, OnItsWay(at, last),
         Arrives(last), ProcessEvents
  PROVE  IInv'
  <1> DEFINE w == Head(queue)
  <1>1. /\ queue \in Seq(Seq(Bytes)) /\ queue # <<>> /\ Len(queue) \in Nat
        /\ Len(queue) # 0 /\ w = queue[1] /\ w \in Seq(Bytes)
        /\ Tail(queue) \in Seq(Seq(Bytes)) /\ Len(Tail(queue)) = Len(queue) - 1
        /\ \A k \in 1 .. Len(queue) - 1 : Tail(queue)[k] = queue[k + 1]
    <2>1. queue \in Seq(Seq(Bytes)) /\ queue # <<>>
      BY DEF ConsoleType, ProcessEvents
    <2>2. QED
      BY <2>1, LenProperties, EmptySeq, HeadTailProperties
  <1>2. Fresh \in Parsers
    BY DEF Fresh, Parsers, ConsoleType
  <1>3. at[1] \in Ideals /\ at[2] \in Ideals /\ Follows(Fresh, at[1]) /\ Leads(at[1], w, at[2])
    <2>1. 1 \in 1 .. Len(queue) /\ 1 \in 1 .. Len(queue) + 1 /\ 2 \in 1 .. Len(queue) + 1 /\ 1 + 1 = 2
      BY <1>1
    <2>2. Leads(at[1], queue[1], at[1 + 1])
      BY <2>1, Zenon DEF OnItsWay
    <2>3. QED
      BY <1>1, <2>1, <2>2 DEF OnItsWay, Stations
  <1>4. PICK done \in Parsers : done = ParsedPacket(Fresh, w)
    BY <1>1, <1>2, <1>3, FollowsPacket
  <1>5. Follows(done, at[2])
    BY <1>1, <1>2, <1>3, <1>4, FollowsPacket
  <1>6. /\ screen' = done.line /\ torn' = Tears(done) /\ Tears(done) \in Nat
        /\ Tears(done) = 0 <=> done.torn = 0 /\ done.seen = "none"
        /\ queue' = Tail(queue) /\ UNCHANGED <<shellVars, out>>
    <2>1. done.torn \in Nat
      BY DEF Parsers
    <2>2. Tears(done) \in Nat /\ (Tears(done) = 0 <=> done.torn = 0 /\ done.seen = "none")
      <3>1. CASE done.seen = "none"
        BY <2>1, <3>1 DEF Tears
      <3>2. CASE done.seen # "none"
        BY <2>1, <3>2 DEF Tears
      <3>3. QED
        BY <3>1, <3>2
    <2>3. QED
      BY <1>4, <2>2 DEF ProcessEvents
  <1>7. Fresh' = [seen |-> "none", line |-> done.line, torn |-> Tears(done)]
    BY <1>6 DEF Fresh
  <1>8. Follows(Fresh', at[2])
    <2>1. CASE done.torn # 0 \/ done.seen # "none"
      <3>1. Fresh'.torn # 0 /\ Fresh'.seen = "none"
        BY <1>6, <1>7, <2>1
      <3>2. QED
        BY <3>1 DEF Follows
    <2>2. CASE done.torn = 0 /\ done.seen = "none"
      <3>1. done = at[2]
        BY <1>5, <2>2 DEF Follows
      <3>2. done = [seen |-> "none", line |-> done.line, torn |-> 0]
        BY <1>3, <2>2, <3>1 DEF Ideals, Parsers
      <3>3. Fresh' = done
        BY <1>6, <1>7, <2>2, <3>2
      <3>4. QED
        BY <2>2, <3>1, <3>3 DEF Follows
    <2>3. QED
      BY <2>1, <2>2
  <1>9. PICK next \in [1 .. Len(queue) -> Ideals] : next = [k \in 1 .. Len(queue) |-> at[k + 1]]
    <2>1. \A k \in 1 .. Len(queue) : at[k + 1] \in Ideals
      BY <1>1 DEF Stations
    <2>2. QED
      BY <2>1
  <1> HIDE DEF w
  <1>10. Len(queue') = Len(queue) - 1 /\ Len(queue') + 1 = Len(queue) /\ queue' \in Seq(Seq(Bytes))
    BY <1>1, <1>6
  <1>11. next[1] = at[2] /\ next[Len(queue)] = at[Len(queue) + 1]
    BY <1>1, <1>9
  <1>12. ASSUME NEW k \in 1 .. Len(queue')
         PROVE  Leads(next[k], queue'[k], next[k + 1])
    <2>1. k + 1 \in 1 .. Len(queue) /\ k \in 1 .. Len(queue) - 1 /\ k \in 1 .. Len(queue)
      BY <1>1, <1>10
    <2>2. next[k] = at[k + 1] /\ next[k + 1] = at[(k + 1) + 1] /\ queue'[k] = queue[k + 1]
      BY <1>1, <1>6, <1>9, <2>1
    <2>3. Leads(at[k + 1], queue[k + 1], at[(k + 1) + 1])
      BY <2>1, Zenon DEF OnItsWay
    <2>4. QED
      BY <2>2, <2>3, Zenon
  <1>13. Leads(next[Len(queue') + 1], out', last)
    BY <1>6, <1>10, <1>11 DEF OnItsWay
  <1>14. OnItsWay(next, last)' /\ next \in Stations'
    <2>1. OnItsWay(next, last)'
      BY <1>8, <1>11, <1>12, <1>13, Zenon DEF OnItsWay
    <2>2. next \in Stations'
      BY <1>9, <1>10, Zenon DEF Stations
    <2>3. QED
      BY <2>1, <2>2
  <1>15. Arrives(last)'
    BY <1>6 DEF Arrives, shellVars
  <1>16. ConsoleType'
    <2>1. screen' \in GoodLines /\ torn' \in Nat
      BY <1>6 DEF Parsers
    <2>2. QED
      BY <1>6, <1>10, <2>1 DEF ConsoleType, shellVars
  <1>17. QED
    BY <1>14, <1>15, <1>16, Zenon DEF IInv

----------------------------------------------------------------------------
(* The invariant. *)
LEMMA InitIInv == Init => IInv
  <1> SUFFICES ASSUME Init PROVE IInv
    OBVIOUS
  <1>1. /\ buf = Prompt /\ cursor = Len(Prompt) /\ running = FALSE
        /\ out = PromptBytes /\ queue = <<>> /\ screen = EmptyLine /\ torn = 0
    BY DEF Init
  <1>2. Len(queue) = 0 /\ queue \in Seq(Seq(Bytes))
    BY <1>1
  <1>3. /\ Prompt \in Seq(Cells) /\ Len(Prompt) = 2 /\ PromptBytes \in Seq(Bytes)
        /\ EmptyLine \in GoodLines
    BY PromptIsText, LeadsPrompt, EmptyIsGood
  <1>4. ConsoleType
    <2>1. 2 \in 0 .. 2 /\ FALSE \in BOOLEAN
      OBVIOUS
    <2>2. QED
      BY <1>1, <1>2, <1>3, <2>1, Zenon DEF ConsoleType
  <1> DEFINE l == [line |-> Prompt, col |-> Len(Prompt)]
  <1>5. At(EmptyLine) \in Ideals /\ At(l) \in Ideals
    BY <1>3, LeadsText, AtIsIdeal
  <1>6. PICK at : at = [k \in 1 .. 1 |-> At(EmptyLine)]
    OBVIOUS
  <1>7. at \in Stations /\ at[1] = At(EmptyLine)
    BY <1>2, <1>5, <1>6 DEF Stations
  <1>8. Fresh = At(EmptyLine) /\ Fresh.torn = 0
    BY <1>1 DEF Fresh, At
  <1>9. OnItsWay(at, At(l))
    <2>1. Follows(Fresh, at[1])
      BY <1>7, <1>8 DEF Follows
    <2>2. Leads(at[1], out, At(l))
      BY <1>1, <1>7, LeadsPrompt
    <2>3. QED
      BY <1>2, <2>1, <2>2 DEF OnItsWay
  <1>10. Arrives(At(l))
    BY <1>1, <1>3 DEF Arrives, At
  <1>11. QED
    BY <1>4, <1>5, <1>7, <1>9, <1>10 DEF IInv

LEMMA StepIInv == IInv /\ [Next]_vars => IInv'
  <1> SUFFICES ASSUME IInv, [Next]_vars PROVE IInv'
    OBVIOUS
  <1>1. ConsoleType
    BY DEF IInv
  <1>2. PICK at \in Stations, last \in Ideals : OnItsWay(at, last) /\ Arrives(last)
    BY DEF IInv
  <1>3. ASSUME NEW c \in Letters \cup {Tab}, Input(c) PROVE IInv'
    BY <1>1, <1>2, <1>3, InputStep
  <1>4. ASSUME NEW arrow \in {"A", "B"}, MoveVertically(arrow) PROVE IInv'
    BY <1>1, <1>2, <1>4, MoveVerticallyStep
  <1>5. CASE CursorForward
    BY <1>1, <1>2, <1>5, CursorForwardStep
  <1>6. CASE CursorBackward
    BY <1>1, <1>2, <1>6, CursorBackwardStep
  <1>7. CASE Backspace
    BY <1>1, <1>2, <1>7, BackspaceStep
  <1>8. CASE CarriageReturn
    BY <1>1, <1>2, <1>8, CarriageReturnStep
  <1>9. CASE Linefeed
    BY <1>1, <1>2, <1>9, LinefeedStep
  <1>10. ASSUME NEW c \in Letters \cup {"lf"}, JobWrites(c) PROVE IInv'
    BY <1>1, <1>2, <1>10, JobWritesStep
  <1>11. CASE NewPrompt
    BY <1>1, <1>2, <1>11, NewPromptStep
  <1>12. CASE ReadStdout
    BY <1>1, <1>2, <1>12, ReadStdoutStep
  <1>13. CASE ProcessEvents
    BY <1>1, <1>2, <1>13, ProcessEventsStep
  <1>14. CASE UNCHANGED vars
    <2>1. /\ buf' = buf /\ cursor' = cursor /\ running' = running /\ out' = out
          /\ queue' = queue /\ screen' = screen /\ torn' = torn
      BY <1>14 DEF vars, shellVars, termVars
    <2>2. ConsoleType' /\ at \in Stations' /\ Arrives(last)' /\ Fresh' = Fresh
      BY <1>1, <1>2, <2>1 DEF ConsoleType, Stations, Arrives, Fresh
    <2>3. OnItsWay(at, last)'
      BY <1>2, <2>1, <2>2, Zenon DEF OnItsWay
    <2>4. QED
      BY <2>2, <2>3, Zenon DEF IInv
  <1>15. QED
    BY <1>3, <1>4, <1>5, <1>6, <1>7, <1>8, <1>9, <1>10, <1>11, <1>12, <1>13, <1>14
    DEF Next, Keys

(* Whatever the shell has written, cut into packets and only partly parsed, *)
(* leads a parser that is never dropped to the line the shell edits, and    *)
(* the terminal's parser follows that one but for a tear: the inductive     *)
(* invariant behind the four theorems below.                                *)
THEOREM AlwaysIInv == Spec => []IInv
  BY InitIInv, StepIInv, PTL DEF Spec

(* The shell's line and cursor, the pipe, the packets and the terminal's    *)
(* line and caret have their types.                                         *)
THEOREM AlwaysTypeOK == Spec => []TypeOK
  <1>1. IInv => TypeOK
    <2> SUFFICES ASSUME IInv PROVE TypeOK
      OBVIOUS
    <2>1. Len(buf) \in Nat
      BY LenProperties DEF IInv, ConsoleType
    <2>2. cursor \in Nat
      BY <2>1 DEF IInv, ConsoleType
    <2>3. QED
      BY <2>2 DEF IInv, ConsoleType, TypeOK, GoodLines
  <1>2. QED
    BY <1>1, AlwaysIInv, PTL

(* insert and remove of ShellState never panic: the cursor stays within the *)
(* line, through arrows into the prompt and a carriage return that empties  *)
(* the line.                                                                *)
THEOREM AlwaysCursorInLine == Spec => []CursorInLine
  <1>1. IInv => CursorInLine
    <2> SUFFICES ASSUME IInv PROVE CursorInLine
      OBVIOUS
    <2>1. Len(buf) \in Nat /\ cursor \in 0 .. Len(buf)
      BY LenProperties DEF IInv, ConsoleType
    <2>2. QED
      BY <2>1 DEF CursorInLine
  <1>2. QED
    BY <1>1, AlwaysIInv, PTL

LEMMA SettledLine ==
  ASSUME IInv, Settled, torn = 0
  PROVE  screen.line = buf /\ screen.col \in cursor .. Len(buf)
  <1>1. PICK at \in Stations, last \in Ideals : OnItsWay(at, last) /\ Arrives(last)
    BY DEF IInv
  <1>2. queue = <<>> /\ out = <<>> /\ ~running /\ Len(queue) = 0
    BY DEF Settled
  <1>3. at[1] \in Ideals /\ Leads(at[1], <<>>, last) /\ Follows(Fresh, at[1])
    BY <1>1, <1>2 DEF OnItsWay, Stations
  <1>4. at[1] = last
    BY <1>3, LeadsNowhere
  <1>5. Fresh = last
    BY <1>3, <1>4 DEF Follows, Fresh
  <1>6. screen = last.line
    BY <1>5 DEF Fresh
  <1>7. QED
    BY <1>1, <1>2, <1>6 DEF Arrives

(* Once all that was written is applied and the shell reads keys, the       *)
(* terminal shows the line the shell edits, unless a cut tore an escape     *)
(* sequence or a letter since the last carriage return, whatever letters    *)
(* take two bytes and however many cuts there were before.                  *)
THEOREM AlwaysEchoedLine == Spec => []EchoedLine
  <1>1. IInv => EchoedLine
    BY SettledLine DEF EchoedLine
  <1>2. QED
    BY <1>1, AlwaysIInv, PTL

(* The terminal's caret is then at the shell's cursor or ahead of it, and   *)
(* within the line.                                                         *)
THEOREM AlwaysCaretNotBehind == Spec => []CaretNotBehind
  <1>1. IInv => CaretNotBehind
    BY SettledLine DEF CaretNotBehind
  <1>2. QED
    BY <1>1, AlwaysIInv, PTL
=============================================================================
