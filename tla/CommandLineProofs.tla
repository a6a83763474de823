------------------------- MODULE CommandLineProofs -------------------------
(* CommandLine's invariants, for any lines, any jobs the user may type and *)
(* any width of the descriptors' numbers.                                  *)
EXTENDS CommandLine, FiniteSetTheorems, SequenceTheorems, WellFoundedInduction, TLAPS

----------------------------------------------------------------------------
(* Induction over a set of numbers, and what it says of recursion: both    *)
(* are stated of sets and functions, not of operators.                     *)
LEMMA SetInduction ==
  ASSUME NEW S, 0 \in S, \A n \in Nat : n \in S => n + 1 \in S
  PROVE  Nat \subseteq S
  <1> DEFINE T == Nat \ S
  <1>1. SUFFICES ASSUME T # {} PROVE FALSE
    OBVIOUS
  <1>2. PICK x \in T : \A y \in T : <<y, x>> \notin OpToRel(<, Nat)
    <2>1. T \subseteq Nat
      OBVIOUS
    <2> HIDE DEF T
    <2>2. QED
      BY <1>1, <2>1, NatLessThanWellFounded, WFMin, Zenon
  <1>3. x \in Nat \ {0} /\ x - 1 \in T
    OBVIOUS
  <1>4. <<x - 1, x>> \in OpToRel(<, Nat)
    BY <1>3 DEF OpToRel
  <1>5. QED
    BY <1>2, <1>3, <1>4

LEMMA UpTo ==
  ASSUME NEW n \in Nat, NEW S, 0 \in S, \A i \in 1 .. n : i - 1 \in S => i \in S
  PROVE  0 .. n \subseteq S
  <1> DEFINE T == {i \in Nat : i <= n => i \in S}
  <1>1. 0 \in T
    OBVIOUS
  <1>2. ASSUME NEW i \in Nat, i \in T PROVE i + 1 \in T
    <2>1. SUFFICES ASSUME i + 1 <= n PROVE i + 1 \in S
      OBVIOUS
    <2>2. i + 1 \in 1 .. n /\ (i + 1) - 1 = i /\ i \in S
      BY <1>2, <2>1
    <2>3. QED
      BY <2>2
  <1>3. Nat \subseteq T
    <2> HIDE DEF T
    <2>1. QED
      BY <1>1, <1>2, SetInduction
  <1>4. QED
    BY <1>3

(* The values t of a recursion over 1 .. n: step[i] makes the i-th of the   *)
(* one before.                                                             *)
Computes(t, n, S, start, step) ==
  /\ t \in [0 .. n -> S] /\ t[0] = start
  /\ \A i \in 1 .. n : t[i] = step[i][t[i - 1]]

LEMMA Recursion ==
  ASSUME NEW n \in Nat, NEW S, NEW start \in S, NEW step \in [1 .. n -> [S -> S]]
  PROVE  \E t : Computes(t, n, S, start, step)
  <1> DEFINE Run(t, m) == /\ t \in [0 .. m -> S] /\ t[0] = start
                          /\ \A i \in 1 .. m : t[i] = step[i][t[i - 1]]
             D == {m \in 0 .. n : \E t : Run(t, m)}
  <1>1. 0 \in D
    <2>1. Run([i \in 0 .. 0 |-> start], 0)
      OBVIOUS
    <2> HIDE DEF Run
    <2>2. QED
      BY <2>1
  <1>2. ASSUME NEW m \in 1 .. n, m - 1 \in D PROVE m \in D
    <2>1. PICK t : Run(t, m - 1)
      <3> HIDE DEF Run
      <3>1. QED
        BY <1>2
    <2> DEFINE u == [i \in 0 .. m |-> IF i = m THEN step[m][t[m - 1]] ELSE t[i]]
    <2>2. t[m - 1] \in S /\ step[m] \in [S -> S]
      BY <2>1
    <2>3. step[m][t[m - 1]] \in S
      BY <2>2
    <2>4. u \in [0 .. m -> S] /\ u[0] = start
      BY <2>1, <2>3
    <2>5. \A i \in 1 .. m : u[i] = step[i][u[i - 1]]
      BY <2>1
    <2>6. Run(u, m)
      BY <2>4, <2>5
    <2> HIDE DEF Run, u
    <2>7. QED
      BY <2>6
  <1>3. n \in D
    <2> HIDE DEF D
    <2>1. 0 .. n \subseteq D
      BY <1>1, <1>2, UpTo
    <2>2. QED
      BY <2>1
  <1>4. QED
    BY <1>3 DEF Computes

(* The same downwards: from the end of a line or of a chain to its start.  *)
LEMMA DownInduction ==
  ASSUME NEW m \in Nat, NEW n \in Nat, NEW S,
         \A i \in m .. n : i + 1 .. n \subseteq S => i \in S
  PROVE  m .. n \subseteq S
  <1> DEFINE T == {k \in Nat : \A i \in m .. n : n - i < k => i \in S}
  <1>1. 0 \in T
    OBVIOUS
  <1>2. ASSUME NEW k \in Nat, k \in T PROVE k + 1 \in T
    <2>1. SUFFICES ASSUME NEW i \in m .. n, n - i < k + 1 PROVE i \in S
      OBVIOUS
    <2>2. ASSUME NEW j \in i + 1 .. n PROVE j \in S
      <3>1. j \in m .. n /\ n - j < k
        BY <2>1
      <3>2. QED
        BY <1>2, <3>1
    <2>3. QED
      BY <2>2
  <1>3. Nat \subseteq T
    <2> HIDE DEF T
    <2>1. QED
      BY <1>1, <1>2, SetInduction
  <1>4. ASSUME NEW i \in m .. n PROVE i \in S
    <2>1. n - i + 1 \in Nat /\ n - i < n - i + 1
      OBVIOUS
    <2>2. QED
      BY <1>3, <2>1
  <1>5. QED
    BY <1>4

(* The values t of a recursion over m .. n in which the value at i, unless *)
(* it ends there, is made of the one at next[i].                           *)
Descends(t, m, n, S, ends, base, next, step) ==
  /\ t \in [m .. n -> S]
  /\ \A i \in m .. n : t[i] = IF i \in ends THEN base[i] ELSE step[i][t[next[i]]]

LEMMA DownRecursion ==
  ASSUME NEW m \in Nat, NEW n \in Nat, NEW S, NEW ends, NEW base \in [m .. n -> S],
         NEW next, NEW step \in [m .. n -> [S -> S]],
         \A i \in m .. n : i \notin ends => next[i] \in i + 1 .. n
  PROVE  \E t : Descends(t, m, n, S, ends, base, next, step)
  <1> DEFINE At(t, i) == IF i \in ends THEN base[i] ELSE step[i][t[next[i]]]
             Run(t, l) == t \in [l .. n -> S] /\ \A i \in l .. n : t[i] = At(t, i)
             D == {l \in m .. n + 1 : \E t : Run(t, l)}
  <1>1. ASSUME NEW l \in m .. n + 1, l + 1 .. n + 1 \subseteq D PROVE l \in D
    <2>1. CASE l = n + 1
      <3>1. l .. n = {}
        BY <2>1
      <3> DEFINE none == [i \in l .. n |-> base[i]]
      <3>2. none \in [l .. n -> S] /\ \A i \in l .. n : none[i] = At(none, i)
        <4> HIDE DEF At
        <4>1. QED
          BY <3>1
      <3>3. Run(none, l)
        BY <3>2
      <3> HIDE DEF Run, none
      <3>4. QED
        BY <3>3
    <2>2. CASE l # n + 1
      <3>1. l \in m .. n /\ l + 1 \in D
        BY <1>1, <2>2, SMTT(60)
      <3>2. PICK t : Run(t, l + 1)
        <4> HIDE DEF Run
        <4>1. QED
          BY <3>1
      <3> DEFINE u == [i \in l .. n |-> IF i = l THEN At(t, l) ELSE t[i]]
      <3>3. l \notin ends => next[l] \in l + 1 .. n
        BY <3>1
      <3>4. At(t, l) \in S
        <4>1. CASE l \in ends
          BY <3>1, <4>1
        <4>2. CASE l \notin ends
          <5>1. t[next[l]] \in S /\ step[l] \in [S -> S]
            BY <3>1, <3>2, <3>3, <4>2
          <5>2. QED
            BY <4>2, <5>1
        <4>3. QED
          BY <4>1, <4>2
      <3>5. u \in [l .. n -> S]
        <4> HIDE DEF At
        <4>1. QED
          BY <3>2, <3>4
      <3>6. ASSUME NEW i \in l .. n PROVE u[i] = At(u, i)
        <4>1. CASE i = l
          <5>1. l \notin ends => u[next[l]] = t[next[l]]
            BY <3>1, <3>3
          <5>2. QED
            BY <4>1, <5>1
        <4>2. CASE i # l
          <5>1. i \in l + 1 .. n /\ i \in m .. n
            BY <3>1, <4>2
          <5>2. i \notin ends => next[i] \in i + 1 .. n
            BY <5>1
          <5>3. i \notin ends => u[next[i]] = t[next[i]]
            BY <5>1, <5>2
          <5>4. u[i] = t[i] /\ t[i] = At(t, i)
            BY <3>2, <4>2, <5>1
          <5>5. QED
            BY <5>3, <5>4
        <4>3. QED
          BY <4>1, <4>2
      <3>7. Run(u, l)
        BY <3>5, <3>6
      <3> HIDE DEF Run, u
      <3>8. QED
        BY <3>7
    <2>3. QED
      BY <2>1, <2>2
  <1>2. CASE m <= n + 1
    <2>1. m .. n + 1 \subseteq D
      <3> HIDE DEF D
      <3>1. PICK h \in Nat : h = n + 1
        OBVIOUS
      <3>2. \A l \in m .. h : l + 1 .. h \subseteq D => l \in D
        BY <1>1, <3>1
      <3>3. m .. h \subseteq D
        BY <3>2, DownInduction
      <3>4. QED
        BY <3>1, <3>3
    <2>2. m \in D
      BY <1>2, <2>1
    <2>3. QED
      BY <2>2 DEF Descends
  <1>3. CASE m > n + 1
    <2>1. m .. n = {}
      BY <1>3
    <2>2. Descends([i \in m .. n |-> base[i]], m, n, S, ends, base, next, step)
      BY <2>1 DEF Descends
    <2>3. QED
      BY <2>2, Zenon
  <1>4. QED
    BY <1>2, <1>3

(* From i on there is a first number that is not in S. *)
FirstOut(j, i, n, S) == j \in i .. n /\ j \notin S /\ \A k \in i .. j - 1 : k \in S

LEMMA FirstExists ==
  ASSUME NEW i \in Nat, NEW n \in Nat, i <= n, NEW S, n \notin S
  PROVE  \E j : FirstOut(j, i, n, S)
  <1> DEFINE D == {m \in i .. n : \E j : FirstOut(j, m, n, S)}
  <1>1. ASSUME NEW m \in i .. n, m + 1 .. n \subseteq D PROVE m \in D
    <2>1. CASE m \notin S
      <3>1. FirstOut(m, m, n, S)
        BY <2>1 DEF FirstOut
      <3>2. QED
        BY <3>1
    <2>2. CASE m \in S
      <3>1. m + 1 \in D
        BY <1>1, <2>2
      <3>2. PICK j : FirstOut(j, m + 1, n, S)
        BY <3>1
      <3>3. FirstOut(j, m, n, S)
        BY <2>2, <3>2 DEF FirstOut
      <3>4. QED
        BY <3>3
    <2>3. QED
      BY <2>1, <2>2
  <1>2. i .. n \subseteq D
    <2> HIDE DEF D
    <2>1. QED
      BY <1>1, DownInduction
  <1>3. QED
    BY <1>2

----------------------------------------------------------------------------
(* Flat, piece by piece from the end. *)
Flattens(t, S, pieces) ==
  /\ t \in [1 .. Len(pieces) + 1 -> Seq(S)] /\ t[Len(pieces) + 1] = <<>>
  /\ \A k \in 1 .. Len(pieces) : t[k] = pieces[k] \o t[k + 1]
  /\ Flat(pieces) = t[1]

LEMMA FlatFlattens ==
  ASSUME NEW S, NEW pieces \in Seq(Seq(S))
  PROVE  \E t : Flattens(t, S, pieces)
  <1> DEFINE n == Len(pieces)
             Z == Seq(S)
             base == [k \in 1 .. n + 1 |-> <<>>]
             next == [k \in 1 .. n + 1 |-> k + 1]
             step == [k \in 1 .. n + 1 |-> [s \in Z |-> IF k > n THEN <<>> ELSE pieces[k] \o s]]
             rec(g) == [k \in 1 .. n + 1 |-> IF k > n THEN <<>> ELSE pieces[k] \o g[k + 1]]
             f == CHOOSE g : g = rec(g)
  <1>1. n \in Nat /\ <<>> \in Z
    BY LenProperties, EmptySeq
  <1>2. \A k \in 1 .. n, s \in Z : pieces[k] \o s \in Z
    <2>1. \A k \in 1 .. n : pieces[k] \in Seq(S)
      BY ElementOfSeq
    <2>2. QED
      BY <2>1, ConcatProperties
  <1> HIDE DEF Z
  <1>3. step \in [1 .. n + 1 -> [Z -> Z]] /\ base \in [1 .. n + 1 -> Z]
    <2> HIDE DEF n
    <2>1. \A k \in 1 .. n + 1, s \in Z : (IF k > n THEN <<>> ELSE pieces[k] \o s) \in Z
      <3>1. ASSUME NEW k \in 1 .. n + 1, NEW s \in Z
            PROVE  (IF k > n THEN <<>> ELSE pieces[k] \o s) \in Z
        <4>1. CASE k > n
          BY <1>1, <4>1
        <4>2. CASE ~(k > n)
          <5>1. k \in 1 .. n
            BY <1>1, <4>2
          <5>2. pieces[k] \o s \in Z
            BY <1>2, <5>1, Zenon
          <5>3. QED
            BY <4>2, <5>2, Zenon
        <4>3. QED
          BY <4>1, <4>2
      <3>2. QED
        BY <3>1, Zenon
    <2>2. QED
      BY <1>1, <2>1
  <1>4. PICK t : Descends(t, 1, n + 1, Z, {n + 1}, base, next, step)
    <2>1. \A k \in 1 .. n + 1 : k \notin {n + 1} => next[k] \in k + 1 .. n + 1
      BY <1>1
    <2>2. PICK m \in Nat : m = n + 1
      BY <1>1
    <2> HIDE DEF step, base, next, n
    <2>3. \E t : Descends(t, 1, m, Z, {n + 1}, base, next, step)
      BY <1>3, <2>1, <2>2, DownRecursion
    <2>4. QED
      BY <2>2, <2>3
  <1>5. /\ t \in [1 .. n + 1 -> Z] /\ t[n + 1] = <<>>
        /\ \A k \in 1 .. n : t[k] = pieces[k] \o t[k + 1]
    <2> HIDE DEF n
    <2>1. /\ t \in [1 .. n + 1 -> Z]
          /\ \A k \in 1 .. n + 1 : t[k] = IF k \in {n + 1} THEN base[k] ELSE step[k][t[next[k]]]
      BY <1>4, Zenon DEF Descends
    <2>2. t[n + 1] = <<>>
      <3>1. n + 1 \in 1 .. n + 1 /\ n + 1 \in {n + 1}
        BY <1>1
      <3>2. base[n + 1] = <<>>
        BY <3>1, Zenon
      <3>3. QED
        BY <2>1, <3>1, <3>2, Zenon
    <2>3. ASSUME NEW k \in 1 .. n PROVE t[k] = pieces[k] \o t[k + 1]
      <3>1. k \in 1 .. n + 1 /\ k \notin {n + 1} /\ ~(k > n) /\ k + 1 \in 1 .. n + 1
        BY <1>1
      <3>2. t[k + 1] \in Z
        BY <2>1, <3>1
      <3>3. t[k] = step[k][t[next[k]]] /\ next[k] = k + 1
        BY <2>1, <3>1
      <3>4. step[k][t[k + 1]] = pieces[k] \o t[k + 1]
        BY <3>1, <3>2, Zenon
      <3>5. QED
        BY <3>3, <3>4, Zenon
    <2>4. QED
      BY <2>1, <2>2, <2>3
  <1>6. t = rec(t)
    <2> HIDE DEF n
    <2>1. \A k \in 1 .. n + 1 : t[k] = IF k > n THEN <<>> ELSE pieces[k] \o t[k + 1]
      <3>1. ASSUME NEW k \in 1 .. n + 1
            PROVE  t[k] = IF k > n THEN <<>> ELSE pieces[k] \o t[k + 1]
        <4>1. CASE k > n
          <5>1. k = n + 1
            BY <1>1, <4>1
          <5>2. QED
            BY <1>5, <4>1, <5>1, Zenon
        <4>2. CASE ~(k > n)
          <5>1. k \in 1 .. n
            BY <1>1, <4>2
          <5>2. QED
            BY <1>5, <4>2, <5>1, Zenon
        <4>3. QED
          BY <4>1, <4>2
      <3>2. QED
        BY <3>1
    <2>2. t = [k \in 1 .. n + 1 |-> t[k]]
      BY <1>5
    <2>3. QED
      BY <2>1, <2>2, Zenon
  <1>7. f = rec(f)
    <2> HIDE DEF rec
    <2>1. QED
      BY <1>6, Zenon
  <1>8. Flat(pieces) = f[1]
    BY DEF Flat
  <1> HIDE DEF f, n
  <1>9. \A k \in 1 .. n + 1 : f[k] = IF k > n THEN <<>> ELSE pieces[k] \o f[k + 1]
    BY <1>7, Zenon
  <1> DEFINE E == {k \in 1 .. n + 1 : f[k] = t[k]}
  <1>10. ASSUME NEW k \in 1 .. n + 1, k + 1 .. n + 1 \subseteq E PROVE k \in E
    <2>1. CASE k > n
      <3>1. k = n + 1
        BY <1>1, <2>1
      <3>2. f[k] = <<>>
        BY <1>9, <2>1, Zenon
      <3>3. QED
        BY <1>5, <3>1, <3>2
    <2>2. CASE ~(k > n)
      <3>1. k \in 1 .. n /\ k + 1 \in E
        BY <1>1, <1>10, <2>2
      <3>2. f[k] = pieces[k] \o f[k + 1]
        BY <1>9, <2>2, Zenon
      <3>3. QED
        BY <1>5, <3>1, <3>2
    <2>3. QED
      BY <2>1, <2>2
  <1>11. 1 .. n + 1 \subseteq E
    <2> HIDE DEF E
    <2>1. PICK m \in Nat : m = n + 1
      BY <1>1
    <2>2. \A k \in 1 .. m : k + 1 .. m \subseteq E => k \in E
      BY <1>10, <2>1
    <2>3. 1 .. m \subseteq E
      BY <2>2, DownInduction
    <2>4. QED
      BY <2>1, <2>3
  <1>12. Flat(pieces) = t[1]
    BY <1>1, <1>8, <1>11
  <1>13. Flattens(t, S, pieces)
    BY <1>5, <1>12, Zenon DEF Flattens, n, Z
  <1>14. QED
    BY <1>13, Zenon

LEMMA FlatType ==
  ASSUME NEW S, NEW pieces \in Seq(Seq(S))
  PROVE  Flat(pieces) \in Seq(S)
  <1>1. PICK t : Flattens(t, S, pieces)
    BY FlatFlattens, Zenon
  <1>2. Len(pieces) \in Nat
    BY LenProperties
  <1>3. QED
    BY <1>1, <1>2 DEF Flattens

LEMMA FlatEmpty == Flat(<<>>) = <<>>
  <1>1. <<>> \in Seq(Seq({})) /\ Len(<<>>) = 0
    BY EmptySeq
  <1>2. PICK t : Flattens(t, {}, <<>>)
    BY <1>1, FlatFlattens, Zenon
  <1>3. QED
    BY <1>1, <1>2 DEF Flattens

LEMMA FlatCons ==
  ASSUME NEW S, NEW p \in Seq(S), NEW ps \in Seq(Seq(S))
  PROVE  Flat(<< p >> \o ps) = p \o Flat(ps)
  <1> DEFINE q == << p >> \o ps
             n == Len(ps)
  <1>1. << p >> \in Seq(Seq(S)) /\ Len(<< p >>) = 1 /\ << p >>[1] = p
    OBVIOUS
  <1>2. /\ q \in Seq(Seq(S)) /\ Len(q) = n + 1 /\ n \in Nat /\ q[1] = p
        /\ \A k \in 1 .. n : q[k + 1] = ps[k]
    BY <1>1, LenProperties, ConcatProperties
  <1> HIDE DEF q
  <1>3. PICK t : Flattens(t, S, ps)
    BY FlatFlattens, Zenon
  <1>4. PICK u : Flattens(u, S, q)
    BY <1>2, FlatFlattens, Zenon
  <1>5. /\ t[n + 1] = <<>> /\ Flat(ps) = t[1]
        /\ \A k \in 1 .. n : t[k] = ps[k] \o t[k + 1]
    BY <1>3, Zenon DEF Flattens
  <1>6. /\ u[(n + 1) + 1] = <<>> /\ Flat(q) = u[1]
        /\ \A k \in 1 .. n + 1 : u[k] = q[k] \o u[k + 1]
    BY <1>2, <1>4 DEF Flattens
  <1> HIDE DEF n
  <1> DEFINE E == {k \in 1 .. n + 1 : u[k + 1] = t[k]}
  <1>7. ASSUME NEW k \in 1 .. n + 1, k + 1 .. n + 1 \subseteq E PROVE k \in E
    <2>1. CASE k = n + 1
      BY <1>5, <1>6, <2>1
    <2>2. CASE k # n + 1
      <3>1. k \in 1 .. n /\ k + 1 \in E /\ k + 1 \in 1 .. n + 1
        BY <1>2, <1>7, <2>2
      <3>2. u[k + 1] = q[k + 1] \o u[(k + 1) + 1]
        BY <1>6, <3>1
      <3>3. QED
        BY <1>2, <1>5, <3>1, <3>2
    <2>3. QED
      BY <2>1, <2>2
  <1>8. 1 .. n + 1 \subseteq E
    <2> HIDE DEF E
    <2>1. PICK m \in Nat : m = n + 1
      BY <1>2
    <2>2. \A k \in 1 .. m : k + 1 .. m \subseteq E => k \in E
      BY <1>7, <2>1
    <2>3. 1 .. m \subseteq E
      BY <2>2, DownInduction
    <2>4. QED
      BY <2>1, <2>3
  <1>9. u[1 + 1] = t[1]
    BY <1>2, <1>8
  <1>10. u[1] = q[1] \o u[1 + 1]
    <2>1. 1 \in 1 .. n + 1
      BY <1>2
    <2>2. QED
      BY <1>6, <2>1, Zenon
  <1>11. QED
    BY <1>2, <1>5, <1>6, <1>9, <1>10, Zenon DEF q

----------------------------------------------------------------------------
(* The line and the tokens it may be cut into. *)
Chars == WordChars \cup Breaks
Nums  == 0 .. Word - 1
Modes == {"read", "write", "append"}

LineOK == src \in Seq(Chars) /\ Len(src) + 1 < MaxTokens

TokenSet ==
  [kind : {"literal"}, text : Texts \ {<<>>}]
  \cup [kind : {"space"}]
  \cup [kind : {"pipe"}, from : (SUBSET Nums) \ {{}}, to : Nums]
  \cup [kind : {"redir"}, from : SUBSET Nums, mode : Modes]

(* What a parse that starts at i returns: a token, and it has got further. *)
GoodParse(p, i) == p.ok => p.token \in TokenSet /\ p.end \in i + 1 .. Len(src)

LEMMA WordType == Word \in Nat /\ Word > 3
  <1>1. Word \in Nat \ 0 .. 3
    BY LinesAssumption, Zenon
  <1>2. QED
    BY <1>1

LEMMA SmallNums == 0 \in Nums /\ 1 \in Nums /\ 2 \in Nums
  BY WordType DEF Nums

LEMMA PeekType ==
  ASSUME LineOK, NEW i \in Nat, Peek(i) # "end"
  PROVE  i < Len(src) /\ Peek(i) = src[i + 1] /\ Peek(i) \in Chars
  <1>1. Len(src) \in Nat
    BY LenProperties DEF LineOK
  <1>2. i < Len(src) /\ Peek(i) = src[i + 1]
    BY <1>1 DEF Peek
  <1>3. i + 1 \in 1 .. Len(src)
    BY <1>1, <1>2
  <1>4. src[i + 1] \in Chars
    BY <1>3, ElementOfSeq DEF LineOK
  <1>5. QED
    BY <1>2, <1>4

LEMMA SkipSkips ==
  ASSUME LineOK, NEW S, "end" \notin S, NEW i \in 0 .. Len(src)
  PROVE  /\ Skip(i, S) \in i .. Len(src) /\ Peek(Skip(i, S)) \notin S
         /\ \A k \in i .. Skip(i, S) - 1 : Peek(k) \in S
  <1> DEFINE n == Len(src)
             T == {k \in 0 .. n : Peek(k) \in S}
  <1>1. n \in Nat
    BY LenProperties DEF LineOK
  <1>2. n \notin T
    BY <1>1 DEF Peek
  <1>3. PICK j : FirstOut(j, i, n, T)
    <2> HIDE DEF T, n
    <2>1. i \in Nat /\ i <= n
      BY <1>1 DEF n
    <2>2. QED
      BY <1>1, <1>2, <2>1, FirstExists
  <1>4. /\ j \in i .. n /\ Peek(j) \notin S /\ \A k \in i .. j - 1 : Peek(k) \in S
    BY <1>1, <1>3 DEF FirstOut
  <1>5. QED
    BY <1>4, Zenon DEF Skip

LEMMA DigitsAre == Digits = {"0", "1", "2", "3", "4", "5", "6", "7", "8", "9"}
  <1>1. DOMAIN Numerals = 1 .. 10
    BY DEF Numerals
  <1>2. /\ Numerals[1] = "0" /\ Numerals[2] = "1" /\ Numerals[3] = "2" /\ Numerals[4] = "3"
        /\ Numerals[5] = "4" /\ Numerals[6] = "5" /\ Numerals[7] = "6" /\ Numerals[8] = "7"
        /\ Numerals[9] = "8" /\ Numerals[10] = "9"
    BY DEF Numerals
  <1>3. Digits = {Numerals[n] : n \in 1 .. 10}
    BY <1>1 DEF Digits, Range
  <1>4. 1 .. 10 = {1, 2, 3, 4, 5, 6, 7, 8, 9, 10}
    OBVIOUS
  <1>5. QED
    BY <1>2, <1>3, <1>4

LEMMA DigitsOK == "end" \notin Digits /\ Digits \subseteq WordChars /\ "," \notin Digits
  <1>1. "end" \notin Digits /\ "," \notin Digits
    BY DigitsAre
  <1>2. QED
    BY <1>1 DEF WordChars

(* Characters have one meaning each. *)
LEMMA CharsOK ==
  /\ "end" \notin WordChars /\ "end" \notin Spaces
  /\ OddSpaces \cap (WordChars \cup {" ", "|", ">", "<", "end"}) = {}
  /\ WordChars \cap Breaks = {}
  <1>1. /\ (Letters \cup OddSpaces) \cap (Digits \cup {" ", "|", ">", "<", "&", ",", "=", "end"}) = {}
        /\ Letters \cap OddSpaces = {}
    BY LinesAssumption, Zenon
  <1>2. Digits \cap {" ", "|", ">", "<", "&", ",", "=", "end"} = {}
    BY DigitsAre
  <1>3. QED
    BY <1>1, <1>2 DEF WordChars, Spaces, Breaks

LEMMA NumEndProps ==
  ASSUME LineOK, NEW i \in 0 .. Len(src)
  PROVE  /\ NumEnd(i) \in i .. Len(src)
         /\ \A k \in i .. NumEnd(i) - 1 : Peek(k) \in Digits
         /\ Peek(i) \in Digits => NumEnd(i) \in i + 1 .. Len(src)
  <1>1. Len(src) \in Nat
    BY LenProperties DEF LineOK
  <1>2. CASE i < Len(src)
    <2>1. NumEnd(i) = Skip(i, Digits)
      BY <1>2 DEF NumEnd
    <2>2. /\ NumEnd(i) \in i .. Len(src) /\ Peek(NumEnd(i)) \notin Digits
          /\ \A k \in i .. NumEnd(i) - 1 : Peek(k) \in Digits
      BY <2>1, DigitsOK, SkipSkips
    <2>3. Peek(i) \in Digits => NumEnd(i) # i
      BY <2>2
    <2>4. QED
      BY <1>1, <2>2, <2>3
  <1>3. CASE ~(i < Len(src))
    <2>1. NumEnd(i) = i
      BY <1>3 DEF NumEnd
    <2>2. Peek(i) \notin Digits
      BY <1>3, DigitsOK DEF Peek
    <2>3. i \in i .. Len(src) /\ i .. i - 1 = {}
      BY <1>1
    <2>4. QED
      BY <2>1, <2>2, <2>3
  <1>4. QED
    BY <1>2, <1>3

LEMMA ValueType ==
  ASSUME NEW d \in Digits
  PROVE  Value(d) \in Nat
  <1>1. DOMAIN Numerals = 1 .. 10
    BY DEF Numerals
  <1>2. \E n \in 1 .. 10 : Numerals[n] = d
    BY <1>1 DEF Digits, Range
  <1>3. (CHOOSE n \in 1 .. 10 : Numerals[n] = d) \in 1 .. 10
    BY <1>2
  <1> DEFINE c == CHOOSE n \in 1 .. 10 : Numerals[n] = d
  <1>4. Value(d) = c - 1 /\ c \in 1 .. 10
    BY <1>3 DEF Value
  <1> HIDE DEF c
  <1>5. QED
    BY <1>4

LEMMA Remainder ==
  ASSUME NEW x \in Nat
  PROVE  x % Word \in Nums
  BY WordType DEF Nums

(* A number is taken modulo Word, digit by digit. *)
NumberFrom(f, i, default) ==
  /\ NumOr(i, default) = IF Peek(i) \notin Digits THEN default ELSE f[NumEnd(i) - i]
  /\ f[0] = 0 /\ f[NumEnd(i) - i] \in Nums
  /\ \A k \in 1 .. NumEnd(i) - i : f[k] = (10 * f[k - 1] + Value(src[i + k])) % Word

LEMMA NumOrSteps ==
  ASSUME LineOK, NEW i \in 0 .. Len(src), NEW default
  PROVE  \E f : NumberFrom(f, i, default)
  <1> DEFINE n == NumEnd(i) - i
             Added(x, k) == (10 * x + Value(src[i + k])) % Word
             step == [k \in 1 .. n |-> [x \in Nums |-> Added(x, k)]]
             rec(g) == [k \in 0 .. n |->
                          IF k = 0 THEN 0 ELSE (10 * g[k - 1] + Value(src[i + k])) % Word]
             f == CHOOSE g : g = rec(g)
  <1>1. n \in Nat /\ 0 \in Nums /\ Len(src) \in Nat /\ Nums \subseteq Nat
    BY NumEndProps, SmallNums, LenProperties DEF LineOK, Nums
  <1>2. \A x \in Nums, k \in 1 .. n : Added(x, k) \in Nums
    <2>1. SUFFICES ASSUME NEW x \in Nums, NEW k \in 1 .. n PROVE Added(x, k) \in Nums
      OBVIOUS
    <2>2. i + (k - 1) \in i .. NumEnd(i) - 1 /\ i + (k - 1) \in Nat /\ (i + (k - 1)) + 1 = i + k
      BY NumEndProps, <1>1
    <2>3. Peek(i + (k - 1)) \in Digits
      BY <2>2, NumEndProps
    <2>4. src[i + k] \in Digits
      BY <2>2, <2>3, DigitsOK, PeekType
    <2>5. Value(src[i + k]) \in Nat /\ x \in Nat
      BY <1>1, <2>4, ValueType
    <2>6. PICK y \in Nat : y = 10 * x + Value(src[i + k])
      BY <2>5
    <2>7. QED
      BY <2>6, Remainder
  <1> HIDE DEF n, Nums
  <1>3. step \in [1 .. n -> [Nums -> Nums]]
    <2> HIDE DEF Added
    <2>1. QED
      BY <1>2
  <1>4. PICK t : Computes(t, n, Nums, 0, step)
    <2> HIDE DEF step
    <2>1. QED
      BY <1>1, <1>3, Recursion
  <1>5. /\ t \in [0 .. n -> Nums] /\ t[0] = 0
        /\ \A k \in 1 .. n : t[k] = Added(t[k - 1], k)
    <2> HIDE DEF Added
    <2>1. /\ t \in [0 .. n -> Nums] /\ t[0] = 0
          /\ \A k \in 1 .. n : t[k] = step[k][t[k - 1]]
      BY <1>4, Zenon DEF Computes
    <2>2. ASSUME NEW k \in 1 .. n PROVE step[k][t[k - 1]] = Added(t[k - 1], k)
      <3>1. t[k - 1] \in Nums
        BY <1>1, <2>1
      <3>2. QED
        BY <3>1, Zenon
    <2>3. QED
      BY <2>1, <2>2, Zenon
  <1>6. rec(t) = [k \in 0 .. n |-> IF k = 0 THEN 0 ELSE Added(t[k - 1], k)]
    BY Zenon
  <1>7. t = rec(t)
    <2> HIDE DEF Added, rec
    <2>1. QED
      BY <1>1, <1>5, <1>6
  <1>8. f = rec(f)
    <2> HIDE DEF rec, Added
    <2>1. QED
      BY <1>7, Zenon
  <1>9. NumOr(i, default) = IF Peek(i) \notin Digits THEN default ELSE f[n]
    BY DEF NumOr, n
  <1> HIDE DEF f
  <1>10. f[0] = 0 /\ \A k \in 1 .. n : f[k] = Added(f[k - 1], k)
    <2>1. \A k \in 0 .. n : f[k] = IF k = 0 THEN 0 ELSE Added(f[k - 1], k)
      BY <1>8, Zenon
    <2>2. 0 \in 0 .. n /\ \A k \in 1 .. n : k \in 0 .. n /\ k # 0
      BY <1>1
    <2> HIDE DEF Added
    <2>3. QED
      BY <2>1, <2>2, Zenon
  <1> HIDE DEF Added
  <1> DEFINE E == {k \in 0 .. n : f[k] \in Nums}
  <1>11. 0 \in E /\ \A k \in 1 .. n : k - 1 \in E => k \in E
    <2>1. 0 \in 0 .. n /\ \A k \in 1 .. n : k \in 0 .. n
      BY <1>1
    <2>2. QED
      BY <1>1, <1>2, <1>10, <2>1, Zenon
  <1>12. 0 .. n \subseteq E
    <2> HIDE DEF E
    <2>1. QED
      BY <1>1, <1>11, UpTo
  <1>13. f[n] \in Nums
    BY <1>1, <1>12
  <1>14. /\ f[0] = 0 /\ f[NumEnd(i) - i] \in Nums
         /\ \A k \in 1 .. NumEnd(i) - i :
              f[k] = (10 * f[k - 1] + Value(src[i + k])) % Word
    BY <1>10, <1>13, Zenon DEF n, Added
  <1>15. NumOr(i, default) = IF Peek(i) \notin Digits THEN default ELSE f[NumEnd(i) - i]
    BY <1>9, Zenon DEF n
  <1>16. NumberFrom(f, i, default)
    BY <1>14, <1>15, Zenon DEF NumberFrom
  <1>17. QED
    BY <1>16, Zenon

LEMMA NumOrType ==
  ASSUME LineOK, NEW i \in 0 .. Len(src), NEW default \in Nums
  PROVE  NumOr(i, default) \in Nums
  BY NumOrSteps, Zenon DEF NumberFrom

(* The list of numbers after "&|" ends where the line does at the latest.  *)
NumbersFrom(f, k) ==
  IF Peek(k) \notin Digits THEN [nums |-> <<>>, end |-> k]
  ELSE IF Peek(NumEnd(k)) # "," THEN [nums |-> << NumOr(k, 0) >>, end |-> NumEnd(k)]
       ELSE [nums |-> << NumOr(k, 0) >> \o f[NumEnd(k) + 1].nums, end |-> f[NumEnd(k) + 1].end]

LEMMA NumbersSteps ==
  ASSUME LineOK, NEW start \in 0 .. Len(src)
  PROVE  \E f : /\ Numbers(start) = f[start]
                /\ f[start] \in [nums : Seq(Nums), end : start .. Len(src)]
                /\ \A k \in start .. Len(src) : f[k] = NumbersFrom(f, k)
  <1> DEFINE n == Len(src)
             S == [nums : Seq(Nums), end : start .. n]
             LastOne(k) == Peek(k) \notin Digits \/ Peek(NumEnd(k)) # ","
             one(k) == << NumOr(k, 0) >>
             Stop(k) == IF Peek(k) \notin Digits THEN [nums |-> <<>>, end |-> k]
                        ELSE [nums |-> one(k), end |-> NumEnd(k)]
             Go(k, more) == [nums |-> one(k) \o more.nums, end |-> more.end]
             base == [k \in start .. n |-> Stop(k)]
             next == [k \in start .. n |-> NumEnd(k) + 1]
             step == [k \in start .. n |-> [more \in S |-> Go(k, more)]]
             ends == {k \in start .. n : LastOne(k)}
             rec(g) == [k \in start .. n |->
                 IF Peek(k) \notin Digits THEN [nums |-> <<>>, end |-> k]
                 ELSE IF Peek(NumEnd(k)) # "," THEN [nums |-> << NumOr(k, 0) >>, end |-> NumEnd(k)]
                      ELSE [nums |-> << NumOr(k, 0) >> \o g[NumEnd(k) + 1].nums,
                            end |-> g[NumEnd(k) + 1].end]]
             f == CHOOSE g : g = rec(g)
  <1>1. n \in Nat /\ start \in Nat /\ start <= n
    BY LenProperties DEF LineOK
  <1>2. ASSUME NEW k \in start .. n
        PROVE  /\ k \in 0 .. n /\ NumEnd(k) \in k .. n /\ one(k) \in Seq(Nums)
               /\ Peek(NumEnd(k)) = "," => NumEnd(k) + 1 \in k + 1 .. n
    <2>1. k \in 0 .. Len(src)
      BY <1>1
    <2>2. NumEnd(k) \in k .. n /\ NumOr(k, 0) \in Nums
      BY <2>1, NumEndProps, NumOrType, SmallNums
    <2>3. Peek(NumEnd(k)) = "," => NumEnd(k) < n
      <3>1. NumEnd(k) \in Nat
        BY <1>1, <2>2
      <3>2. Peek(NumEnd(k)) # "end" => NumEnd(k) < Len(src)
        BY <3>1, PeekType
      <3>3. QED
        BY <3>2
    <2>4. one(k) \in Seq(Nums)
      BY <2>2
    <2>5. ASSUME Peek(NumEnd(k)) = "," PROVE NumEnd(k) + 1 \in k + 1 .. n
      <3>1. NumEnd(k) < n
        BY <2>3, <2>5
      <3>2. k \in Nat /\ NumEnd(k) \in k .. n /\ n \in Nat
        BY <1>1, <2>2
      <3> HIDE DEF n
      <3>3. QED
        BY <3>1, <3>2
    <2>6. QED
      BY <2>1, <2>2, <2>4, <2>5
  <1> HIDE DEF one, n
  <1>3. \A k \in start .. n : Stop(k) \in S
    <2>1. <<>> \in Seq(Nums)
      BY EmptySeq
    <2>2. ASSUME NEW k \in start .. n PROVE NumEnd(k) \in start .. n
      <3>1. NumEnd(k) \in k .. n
        BY <1>2
      <3>2. QED
        BY <1>1, <3>1
    <2>3. ASSUME NEW k \in start .. n
          PROVE  /\ [nums |-> <<>>, end |-> k] \in S
                 /\ [nums |-> one(k), end |-> NumEnd(k)] \in S
      BY <1>2, <2>1, <2>2
    <2> HIDE DEF S
    <2>4. QED
      BY <2>3
  <1>4. \A k \in start .. n, more \in S : Go(k, more) \in S
    BY <1>2, ConcatProperties
  <1>5. \A k \in start .. n : k \notin ends => next[k] \in k + 1 .. n
    BY <1>2
  <1> HIDE DEF S, Stop, Go, LastOne
  <1>6. base \in [start .. n -> S] /\ step \in [start .. n -> [S -> S]]
    BY <1>3, <1>4
  <1>7. PICK t : Descends(t, start, n, S, ends, base, next, step)
    <2> HIDE DEF base, step, next, ends
    <2>1. QED
      BY <1>1, <1>5, <1>6, DownRecursion
  <1>8. /\ t \in [start .. n -> S]
        /\ \A k \in start .. n : t[k] = IF LastOne(k) THEN Stop(k) ELSE Go(k, t[NumEnd(k) + 1])
    <2>1. /\ t \in [start .. n -> S]
          /\ \A k \in start .. n : t[k] = IF k \in ends THEN base[k] ELSE step[k][t[next[k]]]
      BY <1>7, Zenon DEF Descends
    <2>2. ASSUME NEW k \in start .. n
          PROVE  t[k] = IF LastOne(k) THEN Stop(k) ELSE Go(k, t[NumEnd(k) + 1])
      <3>1. CASE LastOne(k)
        <4>1. k \in ends
          BY <3>1
        <4>2. t[k] = Stop(k)
          BY <2>1, <4>1, Zenon
        <4>3. QED
          BY <3>1, <4>2
      <3>2. CASE ~LastOne(k)
        <4>1. k \notin ends /\ next[k] = NumEnd(k) + 1 /\ next[k] \in start .. n
          BY <1>1, <1>5, <3>2
        <4>2. t[next[k]] \in S
          BY <2>1, <4>1
        <4>3. t[k] = step[k][t[next[k]]]
          BY <2>1, <4>1, Zenon
        <4>4. t[k] = Go(k, t[next[k]])
          BY <4>2, <4>3, Zenon
        <4>5. QED
          BY <3>2, <4>1, <4>4
      <3>3. QED
        BY <3>1, <3>2
    <2>3. QED
      BY <2>1, <2>2
  <1>9. \A g : rec(g) = [k \in start .. n |-> IF LastOne(k) THEN Stop(k) ELSE Go(k, g[NumEnd(k) + 1])]
    <2>1. SUFFICES ASSUME NEW g
                   PROVE  rec(g) = [k \in start .. n |->
                                      IF LastOne(k) THEN Stop(k) ELSE Go(k, g[NumEnd(k) + 1])]
      BY Zenon
    <2>2. ASSUME NEW k \in start .. n
          PROVE  rec(g)[k] = IF LastOne(k) THEN Stop(k) ELSE Go(k, g[NumEnd(k) + 1])
      BY DEF LastOne, Stop, Go, one
    <2>3. QED
      BY <2>2
  <1> HIDE DEF rec
  <1>10. t = rec(t)
    <2>1. t = [k \in start .. n |-> t[k]]
      BY <1>8
    <2>2. QED
      BY <1>8, <1>9, <2>1, Zenon
  <1>11. f = rec(f)
    BY <1>10, Zenon
  <1>12. Numbers(start) = f[start]
    BY DEF Numbers, rec, n
  <1> HIDE DEF f
  <1>13. f = [k \in start .. n |-> IF LastOne(k) THEN Stop(k) ELSE Go(k, f[NumEnd(k) + 1])]
    BY <1>9, <1>11, Zenon
  <1> DEFINE E == {k \in start .. n : f[k] \in S}
  <1>14. ASSUME NEW k \in start .. n, k + 1 .. n \subseteq E PROVE k \in E
    <2>1. CASE LastOne(k)
      <3>1. f[k] = Stop(k)
        BY <1>13, <2>1, Zenon
      <3>2. QED
        BY <1>3, <3>1
    <2>2. CASE ~LastOne(k)
      <3>1. f[k] = Go(k, f[NumEnd(k) + 1])
        BY <1>13, <2>2, Zenon
      <3>2. NumEnd(k) + 1 \in E
        BY <1>2, <1>14, <2>2 DEF LastOne
      <3>3. QED
        BY <1>4, <3>1, <3>2
    <2>3. QED
      BY <2>1, <2>2
  <1>15. start .. n \subseteq E
    <2> HIDE DEF E
    <2>1. QED
      BY <1>1, <1>14, DownInduction
  <1>16. f[start] \in S
    BY <1>1, <1>15
  <1>17. ASSUME NEW k \in start .. n PROVE f[k] = NumbersFrom(f, k)
    <2>1. f[k] = IF LastOne(k) THEN Stop(k) ELSE Go(k, f[NumEnd(k) + 1])
      BY <1>13, Zenon
    <2>2. QED
      BY <2>1 DEF NumbersFrom, LastOne, Stop, Go, one
  <1>18. Numbers(start) = f[start] /\ f[start] \in [nums : Seq(Nums), end : start .. Len(src)]
    BY <1>12, <1>16, Zenon DEF S, n
  <1>19. QED
    BY <1>17, <1>18, Zenon DEF n

LEMMA NumbersType ==
  ASSUME LineOK, NEW start \in 0 .. Len(src)
  PROVE  Numbers(start).nums \in Seq(Nums) /\ Numbers(start).end \in start .. Len(src)
  BY NumbersSteps

----------------------------------------------------------------------------
(* What a documented job is typed as, piece by piece, and the token that   *)
(* each of them stands for.                                                *)
(* The pieces of a typed job, and the token each of them stands for.       *)
Reads(w, t) ==
  \/ w \in Names /\ t = Literal(w)
  \/ \E f \in RedirForms : w = f[1] /\ t = Redirection(f[2], f[3])
  \/ \E f \in PipeForms : w = f[1] /\ t = Pipe(f[2], f[3])

Agree(ps, ts) ==
  /\ ps \in Seq(Seq(Chars)) /\ ts \in Seq(TokenSet) /\ Len(ts) = Len(ps)
  /\ \A k \in 1 .. Len(ps) : Reads(ps[k], ts[k])

Meanings(s) ==
  [k \in DOMAIN s.env |-> Literal(s.env[k])] \o << Literal(s.bin) >>
    \o [k \in DOMAIN s.args |-> Literal(s.args[k])]
    \o Flat([r \in DOMAIN s.redirs |->
               << Redirection(s.redirs[r].form[2], s.redirs[r].form[3]),
                  Literal(s.redirs[r].file) >>])
    \o [p \in DOMAIN s.pipes |-> Pipe(s.pipes[p][2], s.pipes[p][3])]

JobPieces(j)   == Flat([k \in DOMAIN j |-> Pieces(j[k])])
JobMeanings(j) == Flat([k \in DOMAIN j |-> Meanings(j[k])])

LEMMA SignChars ==
  /\ {" ", "|", ">", "<", "&", ",", "=", "1", "2", "3"} \subseteq Chars
  /\ WordChars \subseteq Chars
  BY DigitsAre DEF Chars, WordChars, Breaks, Spaces

LEMMA RedirCases ==
  ASSUME NEW f \in RedirForms
  PROVE  \/ f[1] = << ">" >> /\ f[2] = {1} /\ f[3] = "write"
         \/ f[1] = << "2", ">" >> /\ f[2] = {2} /\ f[3] = "write"
         \/ f[1] = << "&", ">", ">" >> /\ f[2] = {1, 2} /\ f[3] = "write"
         \/ f[1] = << ">", ">" >> /\ f[2] = {1} /\ f[3] = "append"
         \/ f[1] = << "&", ">", ">", ">" >> /\ f[2] = {1, 2} /\ f[3] = "append"
         \/ f[1] = << "<" >> /\ f[2] = {0} /\ f[3] = "read"
  <1>1. \/ f = << << ">" >>, {1}, "write" >>
        \/ f = << << "2", ">" >>, {2}, "write" >>
        \/ f = << << "&", ">", ">" >>, {1, 2}, "write" >>
        \/ f = << << ">", ">" >>, {1}, "append" >>
        \/ f = << << "&", ">", ">", ">" >>, {1, 2}, "append" >>
        \/ f = << << "<" >>, {0}, "read" >>
    BY Zenon DEF RedirForms
  <1>2. ASSUME f = << << ">" >>, {1}, "write" >>
        PROVE  f[1] = << ">" >> /\ f[2] = {1} /\ f[3] = "write"
    BY <1>2
  <1>3. ASSUME f = << << "2", ">" >>, {2}, "write" >>
        PROVE  f[1] = << "2", ">" >> /\ f[2] = {2} /\ f[3] = "write"
    BY <1>3
  <1>4. ASSUME f = << << "&", ">", ">" >>, {1, 2}, "write" >>
        PROVE  f[1] = << "&", ">", ">" >> /\ f[2] = {1, 2} /\ f[3] = "write"
    BY <1>4
  <1>5. ASSUME f = << << ">", ">" >>, {1}, "append" >>
        PROVE  f[1] = << ">", ">" >> /\ f[2] = {1} /\ f[3] = "append"
    BY <1>5
  <1>6. ASSUME f = << << "&", ">", ">", ">" >>, {1, 2}, "append" >>
        PROVE  f[1] = << "&", ">", ">", ">" >> /\ f[2] = {1, 2} /\ f[3] = "append"
    BY <1>6
  <1>7. ASSUME f = << << "<" >>, {0}, "read" >>
        PROVE  f[1] = << "<" >> /\ f[2] = {0} /\ f[3] = "read"
    BY <1>7
  <1>8. QED
    BY <1>1, <1>2, <1>3, <1>4, <1>5, <1>6, <1>7, Zenon

LEMMA PipeCases ==
  ASSUME NEW f \in PipeForms
  PROVE  \/ f[1] = << "|" >> /\ f[2] = {1} /\ f[3] = 0
         \/ f[1] = << "2", "|" >> /\ f[2] = {2} /\ f[3] = 0
         \/ f[1] = << "1", "|", "3" >> /\ f[2] = {1} /\ f[3] = 3
         \/ f[1] = << "&", "|", "|" >> /\ f[2] = {1, 2} /\ f[3] = 0
         \/ f[1] = << "&", "|", "1", ",", "2", "|" >> /\ f[2] = {1, 2} /\ f[3] = 0
  <1>1. \/ f = << << "|" >>, {1}, 0 >>
        \/ f = << << "2", "|" >>, {2}, 0 >>
        \/ f = << << "1", "|", "3" >>, {1}, 3 >>
        \/ f = << << "&", "|", "|" >>, {1, 2}, 0 >>
        \/ f = << << "&", "|", "1", ",", "2", "|" >>, {1, 2}, 0 >>
    BY Zenon DEF PipeForms
  <1>2. ASSUME f = << << "|" >>, {1}, 0 >>
        PROVE  f[1] = << "|" >> /\ f[2] = {1} /\ f[3] = 0
    BY <1>2
  <1>3. ASSUME f = << << "2", "|" >>, {2}, 0 >>
        PROVE  f[1] = << "2", "|" >> /\ f[2] = {2} /\ f[3] = 0
    BY <1>3
  <1>4. ASSUME f = << << "1", "|", "3" >>, {1}, 3 >>
        PROVE  f[1] = << "1", "|", "3" >> /\ f[2] = {1} /\ f[3] = 3
    BY <1>4
  <1>5. ASSUME f = << << "&", "|", "|" >>, {1, 2}, 0 >>
        PROVE  f[1] = << "&", "|", "|" >> /\ f[2] = {1, 2} /\ f[3] = 0
    BY <1>5
  <1>6. ASSUME f = << << "&", "|", "1", ",", "2", "|" >>, {1, 2}, 0 >>
        PROVE  f[1] = << "&", "|", "1", ",", "2", "|" >> /\ f[2] = {1, 2} /\ f[3] = 0
    BY <1>6
  <1>7. QED
    BY <1>1, <1>2, <1>3, <1>4, <1>5, <1>6, Zenon

LEMMA TupleTypes ==
  ASSUME NEW S, NEW a \in S, NEW b \in S, NEW c \in S, NEW d \in S, NEW e \in S, NEW f \in S
  PROVE  /\ << a >> \in Seq(S) /\ << a, b >> \in Seq(S) /\ << a, b, c >> \in Seq(S)
         /\ << a, b, c, d >> \in Seq(S) /\ << a, b, c, d, e, f >> \in Seq(S)
  OBVIOUS

LEMMA SignsType ==
  /\ << ">" >> \in Seq(Chars) /\ << "2", ">" >> \in Seq(Chars) /\ << "&", ">", ">" >> \in Seq(Chars)
  /\ << ">", ">" >> \in Seq(Chars) /\ << "&", ">", ">", ">" >> \in Seq(Chars) /\ << "<" >> \in Seq(Chars)
  /\ << "|" >> \in Seq(Chars) /\ << "2", "|" >> \in Seq(Chars) /\ << "1", "|", "3" >> \in Seq(Chars)
  /\ << "&", "|", "|" >> \in Seq(Chars) /\ << "&", "|", "1", ",", "2", "|" >> \in Seq(Chars)
  <1>1. /\ " " \in Chars /\ "|" \in Chars /\ ">" \in Chars /\ "<" \in Chars /\ "&" \in Chars
        /\ "," \in Chars /\ "1" \in Chars /\ "2" \in Chars /\ "3" \in Chars
    BY SignChars
  <1>2. /\ \A a \in Chars : << a >> \in Seq(Chars)
        /\ \A a, b \in Chars : << a, b >> \in Seq(Chars)
        /\ \A a, b, c \in Chars : << a, b, c >> \in Seq(Chars)
        /\ \A a, b, c, d \in Chars : << a, b, c, d >> \in Seq(Chars)
        /\ \A a, b, c, d, e, f \in Chars : << a, b, c, d, e, f >> \in Seq(Chars)
    BY TupleTypes, Zenon
  <1>3. QED
    BY <1>1, <1>2, Zenon

LEMMA RedirFormsRead ==
  ASSUME NEW f \in RedirForms
  PROVE  f[1] \in Seq(Chars) /\ Redirection(f[2], f[3]) \in TokenSet
  <1>1. f[1] \in Seq(Chars)
    BY SignsType, RedirCases, Zenon
  <1>2. f[2] \in SUBSET Nums /\ f[3] \in Modes
    BY SmallNums, RedirCases DEF Modes
  <1>3. QED
    BY <1>1, <1>2 DEF Redirection, TokenSet

LEMMA PipeFormsRead ==
  ASSUME NEW f \in PipeForms
  PROVE  f[1] \in Seq(Chars) /\ Pipe(f[2], f[3]) \in TokenSet
  <1>1. f[1] \in Seq(Chars)
    BY SignsType, PipeCases, Zenon
  <1>2. 3 \in Nums
    BY WordType DEF Nums
  <1>3. f[2] \in (SUBSET Nums) \ {{}} /\ f[3] \in Nums
    BY <1>2, SmallNums, PipeCases
  <1>4. QED
    BY <1>1, <1>3 DEF Pipe, TokenSet

LEMMA NamesRead ==
  ASSUME NEW w \in Names
  PROVE  w \in Seq(Chars) /\ Literal(w) \in TokenSet /\ Reads(w, Literal(w))
  <1>1. w \in Seq(WordChars) /\ w # <<>>
    BY DEF Names
  <1>2. w \in Seq(Chars)
    BY <1>1, SignChars, SeqMonotonic
  <1>3. QED
    BY <1>1, <1>2 DEF Literal, TokenSet, Texts, Reads, Names

LEMMA AgreeConcat ==
  ASSUME NEW ps, NEW ts, NEW qs, NEW us, Agree(ps, ts), Agree(qs, us)
  PROVE  Agree(ps \o qs, ts \o us)
  <1> DEFINE S == Seq(Chars)
             T == TokenSet
  <1>1. /\ ps \in Seq(S) /\ qs \in Seq(S) /\ ts \in Seq(T) /\ us \in Seq(T)
        /\ Len(ts) = Len(ps) /\ Len(us) = Len(qs)
        /\ \A k \in 1 .. Len(ps) : Reads(ps[k], ts[k])
        /\ \A k \in 1 .. Len(qs) : Reads(qs[k], us[k])
    BY DEF Agree
  <1> HIDE DEF S, T
  <1>2. Len(ps) \in Nat /\ Len(qs) \in Nat
    BY <1>1, LenProperties
  <1>3. /\ ps \o qs \in Seq(S) /\ ts \o us \in Seq(T)
        /\ Len(ps \o qs) = Len(ps) + Len(qs) /\ Len(ts \o us) = Len(ps) + Len(qs)
        /\ \A k \in 1 .. Len(ps) + Len(qs) :
             /\ (ps \o qs)[k] = IF k <= Len(ps) THEN ps[k] ELSE qs[k - Len(ps)]
             /\ (ts \o us)[k] = IF k <= Len(ps) THEN ts[k] ELSE us[k - Len(ps)]
    <2>1. /\ ps \o qs \in Seq(S) /\ Len(ps \o qs) = Len(ps) + Len(qs)
          /\ \A k \in 1 .. Len(ps) + Len(qs) :
               (ps \o qs)[k] = IF k <= Len(ps) THEN ps[k] ELSE qs[k - Len(ps)]
      BY <1>1, ConcatProperties, Zenon
    <2>2. /\ ts \o us \in Seq(T) /\ Len(ts \o us) = Len(ts) + Len(us)
          /\ \A k \in 1 .. Len(ts) + Len(us) :
               (ts \o us)[k] = IF k <= Len(ts) THEN ts[k] ELSE us[k - Len(ts)]
      BY <1>1, ConcatProperties, Zenon
    <2>3. QED
      BY <1>1, <2>1, <2>2, Zenon
  <1>4. ASSUME NEW k \in 1 .. Len(ps) + Len(qs) PROVE Reads((ps \o qs)[k], (ts \o us)[k])
    <2>1. CASE k <= Len(ps)
      <3>1. k \in 1 .. Len(ps) /\ (ps \o qs)[k] = ps[k] /\ (ts \o us)[k] = ts[k]
        BY <1>2, <1>3, <2>1
      <3>2. QED
        BY <1>1, <3>1
    <2>2. CASE ~(k <= Len(ps))
      <3>1. /\ k - Len(ps) \in 1 .. Len(qs)
            /\ (ps \o qs)[k] = qs[k - Len(ps)] /\ (ts \o us)[k] = us[k - Len(ps)]
        BY <1>2, <1>3, <2>2
      <3>2. QED
        BY <1>1, <3>1
    <2>3. QED
      BY <2>1, <2>2
  <1>5. QED
    BY <1>3, <1>4 DEF Agree, S, T

LEMMA AgreeEmpty == Agree(<<>>, <<>>)
  BY EmptySeq DEF Agree

LEMMA AgreeFlat ==
  ASSUME NEW ps \in Seq(Seq(Seq(Chars))), NEW ts \in Seq(Seq(TokenSet)), Len(ts) = Len(ps),
         \A k \in 1 .. Len(ps) : Agree(ps[k], ts[k])
  PROVE  Agree(Flat(ps), Flat(ts))
  <1>1. PICK t : Flattens(t, Seq(Chars), ps)
    BY FlatFlattens, Zenon
  <1>2. PICK u : Flattens(u, TokenSet, ts)
    BY FlatFlattens, Zenon
  <1> DEFINE n == Len(ps)
             E == {k \in 1 .. n + 1 : Agree(t[k], u[k])}
  <1>3. n \in Nat /\ Len(ts) = n
    BY LenProperties
  <1>4. /\ t[n + 1] = <<>> /\ u[n + 1] = <<>> /\ Flat(ps) = t[1] /\ Flat(ts) = u[1]
        /\ \A k \in 1 .. n : t[k] = ps[k] \o t[k + 1] /\ u[k] = ts[k] \o u[k + 1]
    BY <1>1, <1>2 DEF Flattens
  <1> HIDE DEF n
  <1>5. ASSUME NEW k \in 1 .. n + 1, k + 1 .. n + 1 \subseteq E PROVE k \in E
    <2>1. CASE k = n + 1
      BY <1>4, <2>1, AgreeEmpty
    <2>2. CASE k # n + 1
      <3>1. k \in 1 .. n /\ k + 1 \in E
        BY <1>3, <1>5, <2>2
      <3>2. Agree(ps[k], ts[k]) /\ Agree(t[k + 1], u[k + 1])
        BY <3>1 DEF n
      <3>3. Agree(ps[k] \o t[k + 1], ts[k] \o u[k + 1])
        BY <3>2, AgreeConcat, Zenon
      <3>4. t[k] = ps[k] \o t[k + 1] /\ u[k] = ts[k] \o u[k + 1]
        BY <1>4, <3>1
      <3>5. QED
        BY <3>3, <3>4
    <2>3. QED
      BY <2>1, <2>2
  <1>6. 1 .. n + 1 \subseteq E
    <2> HIDE DEF E
    <2>1. PICK m \in Nat : m = n + 1
      BY <1>3
    <2>2. \A k \in 1 .. m : k + 1 .. m \subseteq E => k \in E
      BY <1>5, <2>1
    <2>3. 1 .. m \subseteq E
      BY <2>2, DownInduction
    <2>4. QED
      BY <2>1, <2>3
  <1>7. 1 \in E
    BY <1>3, <1>6
  <1>8. QED
    BY <1>4, <1>7

(* A sequence that agrees with another one, given by what they hold.       *)
LEMMA AgreeMade ==
  ASSUME NEW n \in Nat, NEW p, NEW m, p = [k \in 1 .. n |-> p[k]], m = [k \in 1 .. n |-> m[k]],
         \A k \in 1 .. n : p[k] \in Seq(Chars) /\ m[k] \in TokenSet /\ Reads(p[k], m[k])
  PROVE  Agree(p, m)
  <1> DEFINE S == Seq(Chars)
             T == TokenSet
  <1>1. \A k \in 1 .. n : p[k] \in S /\ m[k] \in T
    OBVIOUS
  <1> HIDE DEF S, T
  <1>2. p \in [1 .. n -> S] /\ m \in [1 .. n -> T]
    BY <1>1
  <1>3. p \in Seq(S) /\ m \in Seq(T) /\ Len(p) = n /\ Len(m) = n
    BY <1>2
  <1>4. QED
    BY <1>3 DEF Agree, S, T

LEMMA StageAgrees ==
  ASSUME NEW s \in UserStages
  PROVE  Agree(Pieces(s), Meanings(s))
  <1> DEFINE envM == [k \in DOMAIN s.env |-> Literal(s.env[k])]
             argM == [k \in DOMAIN s.args |-> Literal(s.args[k])]
             redP == [r \in DOMAIN s.redirs |-> << s.redirs[r].form[1], s.redirs[r].file >>]
             redM == [r \in DOMAIN s.redirs |->
                        << Redirection(s.redirs[r].form[2], s.redirs[r].form[3]),
                           Literal(s.redirs[r].file) >>]
             pipP == [p \in DOMAIN s.pipes |-> s.pipes[p][1]]
             pipM == [p \in DOMAIN s.pipes |-> Pipe(s.pipes[p][2], s.pipes[p][3])]
  <1>1. /\ s.env \in Seq({w \in Names : IsAssignment(Literal(w))})
        /\ s.bin \in Names /\ s.args \in Seq(Names)
        /\ s.redirs \in Seq([form : RedirForms, file : Names]) /\ s.pipes \in Seq(PipeForms)
    BY DEF UserStages
  <1>2. Agree(s.env, envM)
    <2>1. s.env \in Seq(Names)
      <3>1. {w \in Names : IsAssignment(Literal(w))} \subseteq Names
        OBVIOUS
      <3>2. QED
        BY <1>1, <3>1, SeqMonotonic
    <2>2. /\ Len(s.env) \in Nat /\ DOMAIN s.env = 1 .. Len(s.env)
          /\ s.env = [k \in 1 .. Len(s.env) |-> s.env[k]]
          /\ \A k \in 1 .. Len(s.env) : s.env[k] \in Names
      BY <2>1, LenProperties, ElementOfSeq
    <2>3. envM = [k \in 1 .. Len(s.env) |-> envM[k]]
      BY <2>2
    <2>4. \A k \in 1 .. Len(s.env) :
            s.env[k] \in Seq(Chars) /\ envM[k] \in TokenSet /\ Reads(s.env[k], envM[k])
      BY <2>2, NamesRead
    <2> HIDE DEF envM
    <2>5. QED
      BY <2>2, <2>3, <2>4, AgreeMade
  <1>3. Agree(<< s.bin >>, << Literal(s.bin) >>)
    <2>1. Agree([k \in 1 .. 1 |-> s.bin], [k \in 1 .. 1 |-> Literal(s.bin)])
      <3> DEFINE p == [k \in 1 .. 1 |-> s.bin]
                 m == [k \in 1 .. 1 |-> Literal(s.bin)]
      <3>1. p = [k \in 1 .. 1 |-> p[k]] /\ m = [k \in 1 .. 1 |-> m[k]] /\ 1 \in Nat
        OBVIOUS
      <3>2. \A k \in 1 .. 1 : p[k] \in Seq(Chars) /\ m[k] \in TokenSet /\ Reads(p[k], m[k])
        BY <1>1, NamesRead
      <3> HIDE DEF p, m
      <3>3. QED
        <4>1. PICK n \in Nat : n = 1
          OBVIOUS
        <4>2. /\ p = [k \in 1 .. n |-> p[k]] /\ m = [k \in 1 .. n |-> m[k]]
              /\ \A k \in 1 .. n : p[k] \in Seq(Chars) /\ m[k] \in TokenSet /\ Reads(p[k], m[k])
          BY <4>1, <3>1, <3>2
        <4>3. Agree(p, m)
          BY <4>2, AgreeMade
        <4>4. QED
          BY <4>3 DEF p, m
    <2>2. /\ << s.bin >> = [k \in 1 .. 1 |-> s.bin]
          /\ << Literal(s.bin) >> = [k \in 1 .. 1 |-> Literal(s.bin)]
      OBVIOUS
    <2>3. QED
      BY <2>1, <2>2
  <1>4. Agree(s.args, argM)
    <2>2. /\ Len(s.args) \in Nat /\ DOMAIN s.args = 1 .. Len(s.args)
          /\ s.args = [k \in 1 .. Len(s.args) |-> s.args[k]]
          /\ \A k \in 1 .. Len(s.args) : s.args[k] \in Names
      BY <1>1, LenProperties, ElementOfSeq
    <2>3. argM = [k \in 1 .. Len(s.args) |-> argM[k]]
      BY <2>2
    <2>4. \A k \in 1 .. Len(s.args) :
            s.args[k] \in Seq(Chars) /\ argM[k] \in TokenSet /\ Reads(s.args[k], argM[k])
      BY <2>2, NamesRead
    <2> HIDE DEF argM
    <2>5. QED
      BY <2>2, <2>3, <2>4, AgreeMade
  <1>5. Agree(Flat(redP), Flat(redM))
    <2>1. /\ Len(s.redirs) \in Nat /\ DOMAIN s.redirs = 1 .. Len(s.redirs)
          /\ \A k \in 1 .. Len(s.redirs) : s.redirs[k].form \in RedirForms /\ s.redirs[k].file \in Names
      <3>1. \A k \in 1 .. Len(s.redirs) : s.redirs[k] \in [form : RedirForms, file : Names]
        BY <1>1, ElementOfSeq
      <3>2. QED
        BY <1>1, <3>1, LenProperties
    <2>2. ASSUME NEW r \in 1 .. Len(s.redirs) PROVE Agree(redP[r], redM[r])
      <3> DEFINE f == s.redirs[r].form
                 w == s.redirs[r].file
                 p == << f[1], w >>
                 m == << Redirection(f[2], f[3]), Literal(w) >>
      <3>1. redP[r] = p /\ redM[r] = m
        BY <2>1
      <3>2. /\ f[1] \in Seq(Chars) /\ Redirection(f[2], f[3]) \in TokenSet
            /\ w \in Seq(Chars) /\ Literal(w) \in TokenSet /\ Reads(w, Literal(w))
        BY <2>1, RedirFormsRead, NamesRead
      <3>3. Reads(f[1], Redirection(f[2], f[3]))
        BY <2>1 DEF Reads
      <3> HIDE DEF f, w
      <3>4. p = [k \in 1 .. 2 |-> p[k]] /\ m = [k \in 1 .. 2 |-> m[k]] /\ 2 \in Nat
        OBVIOUS
      <3>5. \A k \in 1 .. 2 : p[k] \in Seq(Chars) /\ m[k] \in TokenSet /\ Reads(p[k], m[k])
        <4>1. p[1] = f[1] /\ p[2] = w /\ m[1] = Redirection(f[2], f[3]) /\ m[2] = Literal(w)
          OBVIOUS
        <4>2. \A k \in 1 .. 2 : k = 1 \/ k = 2
          OBVIOUS
        <4> HIDE DEF p, m
        <4>3. QED
          BY <3>2, <3>3, <4>1, <4>2
      <3> HIDE DEF p, m
      <3>6. QED
        <4>1. PICK n \in Nat : n = 2
          OBVIOUS
        <4>2. /\ p = [k \in 1 .. n |-> p[k]] /\ m = [k \in 1 .. n |-> m[k]]
              /\ \A k \in 1 .. n : p[k] \in Seq(Chars) /\ m[k] \in TokenSet /\ Reads(p[k], m[k])
          BY <4>1, <3>4, <3>5
        <4>3. Agree(p, m)
          BY <4>2, AgreeMade
        <4>4. QED
          BY <3>1, <4>3
    <2>3. /\ redP \in Seq(Seq(Seq(Chars))) /\ redM \in Seq(Seq(TokenSet))
          /\ Len(redP) = Len(s.redirs) /\ Len(redM) = Len(s.redirs)
      <3>1. \A r \in 1 .. Len(s.redirs) : redP[r] \in Seq(Seq(Chars)) /\ redM[r] \in Seq(TokenSet)
        BY <2>2 DEF Agree
      <3>2. redP = [r \in 1 .. Len(s.redirs) |-> redP[r]] /\ redM = [r \in 1 .. Len(s.redirs) |-> redM[r]]
        BY <2>1
      <3> HIDE DEF redP, redM
      <3> DEFINE S == Seq(Seq(Chars))
                 T == Seq(TokenSet)
      <3>3. redP \in [1 .. Len(s.redirs) -> S] /\ redM \in [1 .. Len(s.redirs) -> T]
        BY <3>1, <3>2
      <3> HIDE DEF S, T
      <3>4. redP \in Seq(S) /\ redM \in Seq(T) /\ Len(redP) = Len(s.redirs) /\ Len(redM) = Len(s.redirs)
        BY <2>1, <3>3
      <3>5. QED
        BY <3>4 DEF S, T
    <2> HIDE DEF redP, redM
    <2>4. QED
      BY <2>2, <2>3, AgreeFlat
  <1>6. Agree(pipP, pipM)
    <2>1. /\ Len(s.pipes) \in Nat /\ DOMAIN s.pipes = 1 .. Len(s.pipes)
          /\ \A k \in 1 .. Len(s.pipes) : s.pipes[k] \in PipeForms
      BY <1>1, LenProperties, ElementOfSeq
    <2>2. pipP = [k \in 1 .. Len(s.pipes) |-> pipP[k]] /\ pipM = [k \in 1 .. Len(s.pipes) |-> pipM[k]]
      BY <2>1
    <2>3. ASSUME NEW k \in 1 .. Len(s.pipes)
          PROVE  pipP[k] \in Seq(Chars) /\ pipM[k] \in TokenSet /\ Reads(pipP[k], pipM[k])
      <3> DEFINE f == s.pipes[k]
      <3>1. f \in PipeForms /\ pipP[k] = f[1] /\ pipM[k] = Pipe(f[2], f[3])
        BY <2>1
      <3> HIDE DEF f, pipP, pipM
      <3>2. QED
        BY <3>1, PipeFormsRead DEF Reads
    <2> HIDE DEF pipP, pipM
    <2>4. QED
      BY <2>1, <2>2, <2>3, AgreeMade
  <1>7. /\ Pieces(s) = s.env \o << s.bin >> \o s.args \o Flat(redP) \o pipP
        /\ Meanings(s) = envM \o << Literal(s.bin) >> \o argM \o Flat(redM) \o pipM
    BY Zenon DEF Pieces, Meanings
  <1> HIDE DEF envM, argM, redP, redM, pipP, pipM
  <1>8. Agree(s.env \o << s.bin >>, envM \o << Literal(s.bin) >>)
    BY <1>2, <1>3, AgreeConcat, Zenon
  <1>9. Agree(s.env \o << s.bin >> \o s.args, envM \o << Literal(s.bin) >> \o argM)
    BY <1>4, <1>8, AgreeConcat, Zenon
  <1>10. Agree(s.env \o << s.bin >> \o s.args \o Flat(redP),
               envM \o << Literal(s.bin) >> \o argM \o Flat(redM))
    BY <1>5, <1>9, AgreeConcat, Zenon
  <1>11. QED
    BY <1>6, <1>7, <1>10, AgreeConcat, Zenon

(* Where each piece lies in the whole that Flat makes of them: behind the  *)
(* first at[k] elements.                                                   *)
Places(at, pieces, whole) ==
  /\ at \in [1 .. Len(pieces) + 1 -> 0 .. Len(whole)]
  /\ at[1] = 0 /\ at[Len(pieces) + 1] = Len(whole)
  /\ \A k \in 1 .. Len(pieces) :
       /\ at[k + 1] = at[k] + Len(pieces[k])
       /\ \A x \in 1 .. Len(pieces[k]) : whole[at[k] + x] = pieces[k][x]

LEMMA FlatPlaces ==
  ASSUME NEW S, NEW pieces \in Seq(Seq(S))
  PROVE  \E at : Places(at, pieces, Flat(pieces))
  <1>1. PICK t : Flattens(t, S, pieces)
    BY FlatFlattens, Zenon
  <1> DEFINE n == Len(pieces)
             whole == t[1]
             at == [k \in 1 .. n + 1 |-> Len(t[1]) - Len(t[k])]
             Lasts(k) == /\ Len(t[k]) <= Len(t[1])
                        /\ \A y \in 1 .. Len(t[k]) : whole[(Len(t[1]) - Len(t[k])) + y] = t[k][y]
             D == {i \in 0 .. n : Lasts(i + 1)}
  <1>2. /\ n \in Nat /\ t[n + 1] = <<>> /\ Flat(pieces) = whole
        /\ \A k \in 1 .. n + 1 : t[k] \in Seq(S)
        /\ \A k \in 1 .. n : pieces[k] \in Seq(S) /\ t[k] = pieces[k] \o t[k + 1]
    BY <1>1, LenProperties, ElementOfSeq DEF Flattens
  <1>3. ASSUME NEW k \in 1 .. n
        PROVE  /\ Len(t[k]) \in Nat /\ Len(t[k + 1]) \in Nat /\ Len(pieces[k]) \in Nat
               /\ Len(t[k]) = Len(pieces[k]) + Len(t[k + 1])
               /\ \A x \in 1 .. Len(pieces[k]) : t[k][x] = pieces[k][x]
               /\ \A y \in 1 .. Len(t[k + 1]) : t[k][Len(pieces[k]) + y] = t[k + 1][y]
    <2>1. k + 1 \in 1 .. n + 1 /\ k \in 1 .. n + 1
      BY <1>2
    <2>2. pieces[k] \in Seq(S) /\ t[k + 1] \in Seq(S) /\ t[k] \in Seq(S) /\ t[k] = pieces[k] \o t[k + 1]
      BY <1>2, <2>1
    <2> DEFINE p == pieces[k]
               r == t[k + 1]
    <2>3. /\ Len(p \o r) = Len(p) + Len(r)
          /\ \A i \in 1 .. Len(p) + Len(r) : (p \o r)[i] = IF i <= Len(p) THEN p[i] ELSE r[i - Len(p)]
      BY <2>2, ConcatProperties
    <2>4. Len(p) \in Nat /\ Len(r) \in Nat /\ Len(t[k]) \in Nat /\ t[k] = p \o r
      BY <2>2, LenProperties
    <2> HIDE DEF p, r, n
    <2>5. \A x \in 1 .. Len(p) : (p \o r)[x] = p[x]
      BY <2>3, <2>4
    <2>6. ASSUME NEW y \in 1 .. Len(r) PROVE (p \o r)[Len(p) + y] = r[y]
      <3>1. Len(p) + y \in 1 .. Len(p) + Len(r) /\ ~(Len(p) + y <= Len(p)) /\ (Len(p) + y) - Len(p) = y
        BY <2>4
      <3>2. QED
        BY <2>3, <3>1
    <2>7. QED
      BY <2>3, <2>4, <2>5, <2>6, Zenon DEF p, r
  <1>4. t[1] \in Seq(S) /\ Len(t[1]) \in Nat /\ Len(t[n + 1]) = 0
    BY <1>2, LenProperties, EmptySeq
  <1>5. 0 \in D
    <2>1. Lasts(1)
      BY <1>4
    <2>2. QED
      BY <1>2, <2>1
  <1> HIDE DEF n, whole
  <1>6. ASSUME NEW i \in 1 .. n, i - 1 \in D PROVE i \in D
    <2>1. Lasts(i)
      <3>1. (i - 1) + 1 = i
        OBVIOUS
      <3>2. Lasts((i - 1) + 1)
        BY <1>6
      <3> HIDE DEF Lasts
      <3>3. QED
        BY <3>1, <3>2
    <2> DEFINE l == Len(pieces[i])
               a == Len(t[i])
               b == Len(t[i + 1])
               c == Len(t[1])
    <2>2. a \in Nat /\ b \in Nat /\ l \in Nat /\ a = l + b /\ c \in Nat /\ a <= c
      BY <1>3, <1>4, <2>1
    <2>3. /\ \A x \in 1 .. a : whole[(c - a) + x] = t[i][x]
          /\ \A y \in 1 .. b : t[i][l + y] = t[i + 1][y]
      BY <1>3, <2>1
    <2> HIDE DEF Lasts, a, b, c, l
    <2>4. b <= c
      BY <2>2
    <2>5. ASSUME NEW y \in 1 .. b PROVE whole[(c - b) + y] = t[i + 1][y]
      <3>1. l + y \in 1 .. a /\ (c - b) + y = (c - a) + (l + y)
        BY <2>2
      <3>2. whole[(c - a) + (l + y)] = t[i][l + y]
        BY <2>3, <3>1
      <3>3. QED
        BY <2>3, <3>1, <3>2
    <2>8. Lasts(i + 1)
      BY <2>4, <2>5 DEF Lasts, b, c
    <2> HIDE DEF Lasts
    <2>6. i \in 0 .. n
      BY <1>2
    <2>7. QED
      BY <2>6, <2>8
  <1>7. 0 .. n \subseteq D
    <2> HIDE DEF D
    <2>1. QED
      BY <1>2, <1>5, <1>6, UpTo
  <1>8. ASSUME NEW k \in 1 .. n + 1 PROVE Lasts(k) /\ Len(t[k]) \in Nat
    <2>1. k - 1 \in 0 .. n /\ (k - 1) + 1 = k
      BY <1>2
    <2>2. Lasts((k - 1) + 1)
      <3> HIDE DEF Lasts
      <3>1. QED
        BY <1>7, <2>1
    <2>3. t[k] \in Seq(S)
      BY <1>2
    <2>4. Len(t[k]) \in Nat
      BY <2>3, LenProperties
    <2> HIDE DEF Lasts
    <2>5. QED
      BY <2>1, <2>2, <2>4
  <1>9. at \in [1 .. n + 1 -> 0 .. Len(whole)]
    <2>1. ASSUME NEW k \in 1 .. n + 1 PROVE Len(t[1]) - Len(t[k]) \in 0 .. Len(t[1])
      <3>1. Len(t[k]) \in Nat /\ Len(t[k]) <= Len(t[1]) /\ Len(t[1]) \in Nat
        BY <1>4, <1>8
      <3>2. \A a, b \in Nat : a <= b => b - a \in 0 .. b
        OBVIOUS
      <3>3. QED
        BY <3>1, <3>2, Zenon
    <2>2. QED
      BY <2>1 DEF whole
  <1>10. at[1] = 0 /\ at[n + 1] = Len(whole)
    <2>1. 1 \in 1 .. n + 1 /\ n + 1 \in 1 .. n + 1
      BY <1>2
    <2>2. at[1] = Len(t[1]) - Len(t[1]) /\ at[n + 1] = Len(t[1]) - Len(t[n + 1])
      BY <2>1
    <2> HIDE DEF at
    <2>3. QED
      BY <1>4, <2>2 DEF whole
  <1>11. ASSUME NEW k \in 1 .. n
         PROVE  /\ at[k + 1] = at[k] + Len(pieces[k])
                /\ \A x \in 1 .. Len(pieces[k]) : whole[at[k] + x] = pieces[k][x]
    <2>1. k \in 1 .. n + 1 /\ k + 1 \in 1 .. n + 1
      BY <1>2
    <2>2. at[k] = Len(t[1]) - Len(t[k]) /\ at[k + 1] = Len(t[1]) - Len(t[k + 1])
      BY <2>1
    <2>3. at[k + 1] = at[k] + Len(pieces[k])
      <3>1. /\ Len(t[k]) = Len(pieces[k]) + Len(t[k + 1]) /\ Len(t[1]) \in Nat
            /\ Len(t[k]) \in Nat /\ Len(t[k + 1]) \in Nat /\ Len(pieces[k]) \in Nat
        BY <1>3, <1>4
      <3> HIDE DEF at
      <3>2. QED
        BY <2>2, <3>1
    <2>4. ASSUME NEW x \in 1 .. Len(pieces[k]) PROVE whole[at[k] + x] = pieces[k][x]
      <3>1. x \in 1 .. Len(t[k])
        <4>1. /\ Len(t[k]) = Len(pieces[k]) + Len(t[k + 1])
              /\ Len(t[k]) \in Nat /\ Len(t[k + 1]) \in Nat /\ Len(pieces[k]) \in Nat
          BY <1>3
        <4>2. \A a, b, c \in Nat : a = b + c => 1 .. b \subseteq 1 .. a
          OBVIOUS
        <4>3. QED
          BY <4>1, <4>2, Zenon
      <3>2. whole[(Len(t[1]) - Len(t[k])) + x] = t[k][x]
        BY <1>8, <2>1, <3>1
      <3>3. t[k][x] = pieces[k][x]
        BY <1>3
      <3> HIDE DEF at
      <3>4. QED
        BY <2>2, <3>2, <3>3
    <2>5. QED
      BY <2>3, <2>4
  <1> HIDE DEF at
  <1>12. Places(at, pieces, whole)
    BY <1>9, <1>10, <1>11 DEF Places, n
  <1>13. QED
    BY <1>2, <1>12, Zenon

(* A job's stages agree with their meanings, so does the job.              *)
LEMMA JobAgrees ==
  ASSUME NEW j \in Seq(UserStages)
  PROVE  /\ [k \in DOMAIN j |-> Pieces(j[k])] \in Seq(Seq(Seq(Chars)))
         /\ [k \in DOMAIN j |-> Meanings(j[k])] \in Seq(Seq(TokenSet))
         /\ Agree(JobPieces(j), JobMeanings(j))
  <1> DEFINE S == Seq(Seq(Chars))
             T == Seq(TokenSet)
             p == [k \in DOMAIN j |-> Pieces(j[k])]
             m == [k \in DOMAIN j |-> Meanings(j[k])]
  <1>1. /\ Len(j) \in Nat /\ DOMAIN j = 1 .. Len(j)
        /\ \A k \in 1 .. Len(j) : j[k] \in UserStages
    BY LenProperties, ElementOfSeq
  <1>2. \A k \in 1 .. Len(j) : Agree(Pieces(j[k]), Meanings(j[k]))
    BY <1>1, StageAgrees
  <1>3. \A k \in 1 .. Len(j) : Pieces(j[k]) \in S /\ Meanings(j[k]) \in T
    BY <1>2 DEF Agree
  <1> HIDE DEF S, T
  <1>4. /\ p \in [1 .. Len(j) -> S] /\ m \in [1 .. Len(j) -> T]
        /\ \A k \in 1 .. Len(j) : p[k] = Pieces(j[k]) /\ m[k] = Meanings(j[k])
    BY <1>1, <1>3
  <1> HIDE DEF p, m
  <1>5. p \in Seq(S) /\ m \in Seq(T) /\ Len(p) = Len(j) /\ Len(m) = Len(j)
    BY <1>1, <1>4
  <1>6. \A k \in 1 .. Len(p) : Agree(p[k], m[k])
    BY <1>2, <1>4, <1>5
  <1>7. Agree(Flat(p), Flat(m))
    BY <1>5, <1>6, AgreeFlat DEF S, T
  <1>8. QED
    BY <1>5, <1>7 DEF S, T, p, m, JobPieces, JobMeanings

(* The line that is typed: pieces with a blank after each of them.         *)
LEMMA SpacedPieces ==
  ASSUME NEW ps \in Seq(Seq(Chars))
  PROVE  /\ [k \in DOMAIN ps |-> ps[k] \o << " " >>] \in Seq(Seq(Chars))
         /\ Len([k \in DOMAIN ps |-> ps[k] \o << " " >>]) = Len(ps)
         /\ \A k \in 1 .. Len(ps) : [l \in DOMAIN ps |-> ps[l] \o << " " >>][k] = ps[k] \o << " " >>
  <1> DEFINE S == Seq(Chars)
             q == [k \in DOMAIN ps |-> ps[k] \o << " " >>]
  <1>1. /\ Len(ps) \in Nat /\ DOMAIN ps = 1 .. Len(ps)
        /\ \A k \in 1 .. Len(ps) : ps[k] \in Seq(Chars)
    BY LenProperties, ElementOfSeq
  <1>2. << " " >> \in Seq(Chars)
    <2>1. " " \in Chars
      BY SignChars
    <2>2. QED
      BY <2>1, TupleTypes, Zenon
  <1>3. \A k \in 1 .. Len(ps) : ps[k] \o << " " >> \in S
    BY <1>1, <1>2, ConcatProperties
  <1> HIDE DEF S
  <1> DEFINE n == Len(ps)
  <1>4. \A k \in 1 .. Len(ps) : q[k] = ps[k] \o << " " >>
    BY <1>1
  <1>5. q \in [1 .. n -> S] /\ n \in Nat
    BY <1>1, <1>3
  <1> HIDE DEF q, n
  <1>6. q \in Seq(S) /\ Len(q) = n
    BY <1>5
  <1>7. QED
    BY <1>4, <1>6 DEF S, q, n

LEMMA TypedType ==
  ASSUME NEW j \in Seq(UserStages)
  PROVE  Typed(j) \in Seq(Chars)
  <1>1. JobPieces(j) \in Seq(Seq(Chars))
    BY JobAgrees DEF Agree
  <1>2. Spaced(JobPieces(j)) \in Seq(Chars)
    BY <1>1, SpacedPieces, FlatType DEF Spaced
  <1>3. QED
    BY <1>2 DEF Typed, JobPieces

----------------------------------------------------------------------------
(* Each parse, when it succeeds, returns a token and has got further.      *)
LEMMA LineLength == ASSUME LineOK PROVE Len(src) \in Nat
  BY LenProperties DEF LineOK

LEMMA PipeToGood ==
  ASSUME LineOK, NEW writers \in (SUBSET Nums) \ {{}}, NEW i \in Nat, NEW bar \in i .. Len(src)
  PROVE  GoodParse(PipeTo(writers, bar), i)
  <1>1. CASE Peek(bar) # "|"
    <2>1. PipeTo(writers, bar) = Malformed
      BY <1>1 DEF PipeTo
    <2>2. ~Malformed.ok
      BY DEF Malformed
    <2>3. QED
      BY <2>1, <2>2 DEF GoodParse
  <1>2. CASE Peek(bar) = "|"
    <2>1. bar < Len(src)
      BY <1>2, LineLength, PeekType
    <2>2. bar + 1 \in 0 .. Len(src)
      BY <2>1, LineLength
    <2>3. NumEnd(bar + 1) \in bar + 1 .. Len(src) /\ NumOr(bar + 1, 0) \in Nums
      BY <2>2, NumEndProps, NumOrType, SmallNums
    <2>4. Pipe(writers, NumOr(bar + 1, 0)) \in TokenSet
      BY <2>3 DEF Pipe, TokenSet
    <2>5. NumEnd(bar + 1) \in i + 1 .. Len(src)
      BY <2>1, <2>3, LineLength
    <2>6. PipeTo(writers, bar) = Parsed(Pipe(writers, NumOr(bar + 1, 0)), NumEnd(bar + 1))
      BY <1>2 DEF PipeTo
    <2>7. QED
      BY <2>4, <2>5, <2>6 DEF GoodParse, Parsed
  <1>3. QED
    BY <1>1, <1>2

LEMMA PipeAtGood ==
  ASSUME LineOK, NEW i \in 0 .. Len(src)
  PROVE  GoodParse(PipeAt(i), i)
  <1>1. CASE Peek(i) = "&" /\ Peek(i + 1) = "|"
    <2> DEFINE list == Numbers(i + 2)
               writers == IF list.nums = <<>> THEN {1, 2} ELSE Range(list.nums)
    <2>1. i + 1 < Len(src)
      <3>1. i + 1 \in Nat
        OBVIOUS
      <3>2. QED
        BY <1>1, <3>1, PeekType
    <2>2. i + 2 \in 0 .. Len(src)
      BY <2>1, LineLength
    <2>3. list.nums \in Seq(Nums) /\ list.end \in i + 2 .. Len(src)
      BY <2>2, NumbersType
    <2> HIDE DEF list
    <2>4. writers \in (SUBSET Nums) \ {{}}
      <3>1. CASE list.nums = <<>>
        BY <3>1, SmallNums
      <3>2. CASE list.nums # <<>>
        <4>1. Range(list.nums) \subseteq Nums
          BY <2>3, RangeOfSeq
        <4>2. 1 \in DOMAIN list.nums
          BY <2>3, <3>2, LenProperties, EmptySeq
        <4>3. list.nums[1] \in Range(list.nums)
          BY <4>2 DEF Range
        <4>4. QED
          BY <3>2, <4>1, <4>3
      <3>3. QED
        BY <3>1, <3>2
    <2>5. list.end \in i .. Len(src)
      BY <2>3, LineLength
    <2> HIDE DEF writers
    <2>6. GoodParse(PipeTo(writers, list.end), i)
      BY <2>4, <2>5, PipeToGood
    <2>7. PipeAt(i) = Malformed \/ PipeAt(i) = PipeTo(writers, list.end)
      BY <1>1, Zenon DEF PipeAt, writers, list
    <2>8. ~Malformed.ok
      BY DEF Malformed
    <2>9. GoodParse(Malformed, i)
      BY <2>8 DEF GoodParse
    <2>10. QED
      BY <2>6, <2>7, <2>9
  <1>2. CASE ~(Peek(i) = "&" /\ Peek(i + 1) = "|")
    <2>1. PipeAt(i) = PipeTo({NumOr(i, 1)}, NumEnd(i))
      BY <1>2, Zenon DEF PipeAt
    <2>2. {NumOr(i, 1)} \in (SUBSET Nums) \ {{}} /\ NumEnd(i) \in i .. Len(src)
      BY NumOrType, NumEndProps, SmallNums
    <2>3. QED
      BY <2>1, <2>2, PipeToGood
  <1>3. QED
    BY <1>1, <1>2

LEMMA RedirAtGood ==
  ASSUME LineOK, NEW i \in 0 .. Len(src), RedirOpens(i)
  PROVE  GoodParse(RedirAt(i), i)
  <1> DEFINE dual == Peek(i) = "&"
             op == IF dual THEN i + 2 ELSE NumEnd(i)
             From(default) == IF dual THEN {default, 1, 2} ELSE {NumOr(i, default)}
  <1>1. op \in i .. Len(src)
    <2>1. CASE dual
      <3>1. Peek(i + 1) = ">" /\ i + 1 \in Nat
        BY <2>1 DEF RedirOpens
      <3>2. i + 1 < Len(src)
        BY <3>1, PeekType
      <3>3. QED
        BY <2>1, <3>2, LineLength
    <2>2. CASE ~dual
      BY <2>2, NumEndProps
    <2>3. QED
      BY <2>1, <2>2
  <1>2. From(0) \in SUBSET Nums /\ From(1) \in SUBSET Nums
    BY NumOrType, SmallNums
  <1> DEFINE onePast == op + 1
             twoPast == op + 2
  <1>3. op \in Nat /\ op + 1 \in Nat /\ Len(src) \in Nat
    BY <1>1, LineLength
  <1>4. Peek(op) \in {"<", ">"} => onePast \in i + 1 .. Len(src)
    <2>1. SUFFICES ASSUME Peek(op) \in {"<", ">"} PROVE onePast \in i + 1 .. Len(src)
      OBVIOUS
    <2>2. op < Len(src)
      <3> HIDE DEF op
      <3>1. Peek(op) # "end"
        BY <2>1
      <3>2. QED
        BY <1>3, <3>1, PeekType
    <2> HIDE DEF op
    <2>3. QED
      BY <1>1, <1>3, <2>2
  <1>5. Peek(op + 1) = ">" => twoPast \in i + 1 .. Len(src)
    <2>1. SUFFICES ASSUME Peek(op + 1) = ">" PROVE twoPast \in i + 1 .. Len(src)
      OBVIOUS
    <2> HIDE DEF op
    <2>2. op + 1 < Len(src)
      BY <1>3, <2>1, PeekType
    <2>3. QED
      BY <1>1, <1>3, <2>2
  <1>6. /\ \A mode \in Modes : Redirection(From(1), mode) \in TokenSet
        /\ Redirection(From(0), "read") \in TokenSet
    <2> HIDE DEF From
    <2>1. QED
      BY <1>2 DEF Redirection, TokenSet, Modes
  <1>7. RedirAt(i) =
          CASE Peek(op) = ">" /\ Peek(op + 1) = ">" -> Parsed(Redirection(From(1), "append"), twoPast)
            [] Peek(op) = "<"                       -> Parsed(Redirection(From(0), "read"), onePast)
            [] Peek(op) = ">" /\ Peek(op + 1) # ">" -> Parsed(Redirection(From(1), "write"), onePast)
            [] OTHER                                -> Malformed
    BY Zenon DEF RedirAt
  <1> HIDE DEF op, From, onePast, twoPast
  <1>8. CASE Peek(op) = ">" /\ Peek(op + 1) = ">"
    <2>1. RedirAt(i) = Parsed(Redirection(From(1), "append"), twoPast)
      BY <1>7, <1>8
    <2>2. QED
      BY <1>5, <1>6, <1>8, <2>1 DEF GoodParse, Parsed, Modes
  <1>9. CASE Peek(op) = "<"
    <2>1. RedirAt(i) = Parsed(Redirection(From(0), "read"), onePast)
      BY <1>7, <1>9
    <2>2. QED
      BY <1>4, <1>6, <1>9, <2>1 DEF GoodParse, Parsed
  <1>10. CASE Peek(op) = ">" /\ Peek(op + 1) # ">"
    <2>1. RedirAt(i) = Parsed(Redirection(From(1), "write"), onePast)
      BY <1>7, <1>10
    <2>2. QED
      BY <1>4, <1>6, <1>10, <2>1 DEF GoodParse, Parsed, Modes
  <1>11. CASE Peek(op) # "<" /\ Peek(op) # ">"
    <2>1. RedirAt(i) = Malformed
      BY <1>7, <1>11
    <2>2. ~Malformed.ok
      BY DEF Malformed
    <2>3. QED
      BY <2>1, <2>2 DEF GoodParse
  <1>12. QED
    BY <1>8, <1>9, <1>10, <1>11

(* A word has one character at least, white space is passed; only white    *)
(* space that is not ASCII white space is looked at and left where it is.  *)
LEMMA LiteralAtGood ==
  ASSUME LineOK, NEW i \in 0 .. Len(src) - 1, ~PipeOpens(i), ~RedirOpens(i)
  PROVE  /\ LiteralAt(i).ok /\ LiteralAt(i).token \in TokenSet
         /\ LiteralAt(i).end \in i .. Len(src)
         /\ Peek(i) \in OddSpaces \/ LiteralAt(i).end \in i + 1 .. Len(src)
  <1>1. /\ i \in Nat /\ i \in 0 .. Len(src) /\ Len(src) \in Nat
        /\ Peek(i) = src[i + 1] /\ src[i + 1] \in Chars
    <2>1. i \in Nat /\ i + 1 \in 1 .. Len(src) /\ Len(src) \in Nat
      BY LineLength
    <2>2. src[i + 1] \in Chars
      BY <2>1, ElementOfSeq DEF LineOK
    <2>3. QED
      BY <2>1, <2>2 DEF Peek
  <1>2. CASE Peek(i) \in Spaces
    <2> DEFINE end == Skip(i, {" "})
    <2>1. "end" \notin {" "}
      OBVIOUS
    <2>2. end \in i .. Len(src) /\ Peek(end) \notin {" "}
      BY <1>1, <2>1, SkipSkips
    <2>3. Peek(i) \in OddSpaces \/ Peek(i) = " "
      BY <1>2 DEF Spaces
    <2>4. LiteralAt(i) = Parsed(WhiteSpace, end)
      BY <1>2 DEF LiteralAt
    <2> HIDE DEF end
    <2>5. Peek(i) = " " => end # i
      BY <2>2
    <2>6. ASSUME Peek(i) = " " PROVE end \in i + 1 .. Len(src)
      <3>1. end # i /\ end \in i .. Len(src)
        BY <2>2, <2>5, <2>6
      <3>2. i \in Nat /\ Len(src) \in Nat
        BY <1>1
      <3>3. QED
        BY <3>1, <3>2
    <2>7. WhiteSpace \in TokenSet
      BY DEF WhiteSpace, TokenSet
    <2>8. /\ LiteralAt(i).ok /\ LiteralAt(i).token = WhiteSpace /\ LiteralAt(i).end = end
      BY <2>4 DEF Parsed
    <2>9. QED
      BY <2>2, <2>3, <2>6, <2>7, <2>8, Zenon
  <1>3. CASE Peek(i) \notin Spaces
    <2> DEFINE end == Skip(i, WordChars)
               text == SubSeq(src, i + 1, end)
    <2>1. end \in i .. Len(src) /\ Peek(end) \notin WordChars
          /\ \A k \in i .. end - 1 : Peek(k) \in WordChars
      BY <1>1, CharsOK, SkipSkips
    <2>2. LiteralAt(i) = Parsed(Literal(text), end)
      BY <1>3 DEF LiteralAt
    <2> HIDE DEF end
    <2>3. Peek(i) \in WordChars
      <3>1. Peek(i) \notin {"|", ">", "<"}
        BY DEF PipeOpens, RedirOpens
      <3>2. QED
        BY <1>1, <1>3, <3>1 DEF Chars, Breaks
    <2>4. end \in i + 1 .. Len(src)
      <3>1. end # i
        BY <2>1, <2>3
      <3>2. QED
        BY <1>1, <2>1, <3>1
    <2>5. \A k \in i + 1 .. end : src[k] \in WordChars
      <3>1. SUFFICES ASSUME NEW k \in i + 1 .. end PROVE src[k] \in WordChars
        OBVIOUS
      <3>2. k - 1 \in i .. end - 1 /\ k - 1 \in Nat /\ (k - 1) + 1 = k
        BY <1>1, <2>4
      <3>3. Peek(k - 1) \in WordChars
        BY <2>1, <3>2
      <3>4. Peek(k - 1) = src[(k - 1) + 1]
        BY <3>2, <3>3, CharsOK, PeekType
      <3>5. QED
        BY <3>2, <3>3, <3>4
    <2>6. text \in Texts /\ text # <<>>
      <3>1. i + 1 \in Int /\ end \in Int /\ i + 1 <= end
        BY <1>1, <2>4
      <3>2. text \in Seq(WordChars) /\ Len(text) = end - (i + 1) + 1
        BY <2>5, <3>1, SubSeqProperties
      <3>3. Len(text) # 0
        BY <3>1, <3>2
      <3>4. QED
        BY <3>2, <3>3, EmptySeq DEF Texts
    <2> HIDE DEF text
    <2>7. Literal(text) \in TokenSet
      BY <2>6 DEF Literal, TokenSet
    <2>8. end \in i .. Len(src)
      BY <1>1, <2>4
    <2>9. QED
      BY <2>2, <2>4, <2>7, <2>8 DEF Parsed
  <1>4. QED
    BY <1>2, <1>3

----------------------------------------------------------------------------
(* The tokenizer's invariant.  Every token stands for a character at least *)
(* until a white space is met that is not passed; MaxTokens then ends it.  *)
AllTokens == TokenSet \cup {EOF}
Ended(toks) ==
  /\ toks \in Seq(AllTokens) /\ toks # <<>>
  /\ \A k \in DOMAIN toks : toks[k].kind = "eof" <=> k = Len(toks)

TokInv ==
  /\ LineOK /\ cursor \in 0 .. Len(src) /\ Len(stream) <= MaxTokens + 1
  /\ phase \in {"scan", "done", "error", "built"}
  /\ phase \in {"done", "built"} => Ended(stream)
  /\ phase \in {"scan", "error"} => stream \in Seq(TokenSet) /\ Len(stream) <= MaxTokens
  /\ phase = "scan" => Len(stream) <= cursor \/ Peek(cursor) \in OddSpaces

LEMMA MaxTokensType == MaxTokens \in Nat
  BY LinesAssumption, Zenon

LEMMA TokensNotEof == \A t \in TokenSet : t.kind # "eof"
  BY DEF TokenSet

LEMMA AppendToken ==
  ASSUME NEW p, p.token \in TokenSet, stream \in Seq(TokenSet)
  PROVE  Append(stream, p.token) \in Seq(TokenSet) /\ Len(Append(stream, p.token)) = Len(stream) + 1
  BY AppendProperties

LEMMA TakeKeeps ==
  ASSUME TokInv, Scanning, NEW p, Take(p), p.ok => p.token \in TokenSet,
         p.ok => p.end \in 0 .. Len(src) /\ Len(stream) + 1 <= MaxTokens,
         p.ok => p.end >= Len(stream) + 1 \/ Peek(p.end) \in OddSpaces
  PROVE  TokInv'
  <1>1. stream \in Seq(TokenSet) /\ src' = src /\ LineOK'
    BY DEF TokInv, Scanning, Take, LineOK
  <1>2. CASE p.ok
    <2>1. /\ cursor' = p.end /\ stream' = Append(stream, p.token) /\ phase' = "scan"
      BY <1>2 DEF Take, Scanning
    <2>2. stream' \in Seq(TokenSet) /\ Len(stream') = Len(stream) + 1
      BY <1>1, <1>2, <2>1, AppendToken
    <2>3. Len(stream) \in Nat
      BY <1>1, LenProperties
    <2>4. Len(stream') <= MaxTokens /\ Len(stream') <= MaxTokens + 1
      BY <1>2, <2>2, <2>3, MaxTokensType
    <2>5. cursor' \in 0 .. Len(src)
      BY <1>2, <2>1
    <2>6. Len(stream') <= cursor' \/ Peek(cursor)' \in OddSpaces
      BY <1>1, <1>2, <2>1, <2>2, <2>3 DEF Peek
    <2>7. QED
      BY <1>1, <2>1, <2>2, <2>4, <2>5, <2>6 DEF TokInv
  <1>3. CASE ~p.ok
    <2>1. phase' = "error" /\ cursor' = cursor /\ stream' = stream
      BY <1>3 DEF Take
    <2>2. QED
      BY <1>1, <2>1 DEF TokInv, Scanning
  <1>4. QED
    BY <1>2, <1>3

(* What a parse consumes of a line without odd white space. *)
LEMMA ScanFacts ==
  ASSUME TokInv, Scanning
  PROVE  /\ cursor \in 0 .. Len(src) - 1 /\ cursor \in 0 .. Len(src) /\ Len(src) \in Nat
         /\ Len(stream) \in Nat /\ Len(src) + 1 < MaxTokens /\ MaxTokens \in Nat
  BY LineLength, LenProperties, MaxTokensType DEF TokInv, Scanning, LineOK

LEMMA OperatorFacts ==
  ASSUME LineOK, NEW i \in 0 .. Len(src), PipeOpens(i) \/ RedirOpens(i)
  PROVE  Peek(i) \notin OddSpaces
  <1>1. Peek(i) \in {"|", ">", "<"} \cup WordChars
    BY DigitsOK DEF PipeOpens, RedirOpens, WordChars
  <1>2. QED
    BY <1>1, CharsOK

LEMMA ParsePipeKeeps ==
  ASSUME TokInv, ParsePipe
  PROVE  TokInv' /\ (phase' = "scan" => cursor' > cursor)
  <1> DEFINE p == PipeAt(cursor)
  <1>1. Scanning /\ PipeOpens(cursor) /\ Take(p) /\ LineOK
    BY DEF ParsePipe, TokInv
  <1>2. GoodParse(p, cursor)
    BY <1>1, ScanFacts, PipeAtGood
  <1>3. Len(stream) <= cursor
    BY <1>1, ScanFacts, OperatorFacts DEF TokInv, Scanning
  <1> HIDE DEF p
  <1>4. p.ok => p.token \in TokenSet /\ p.end \in cursor + 1 .. Len(src)
    BY <1>2 DEF GoodParse
  <1>5. p.ok => /\ p.end \in 0 .. Len(src) /\ Len(stream) + 1 <= MaxTokens
                /\ p.end >= Len(stream) + 1
    BY <1>1, <1>3, <1>4, ScanFacts
  <1>6. TokInv'
    BY <1>1, <1>4, <1>5, TakeKeeps
  <1>7. phase' = "scan" => cursor' > cursor
    <2>1. CASE p.ok
      BY <1>1, <1>4, <2>1, ScanFacts DEF Take
    <2>2. CASE ~p.ok
      BY <1>1, <2>2 DEF Take
    <2>3. QED
      BY <2>1, <2>2
  <1>8. QED
    BY <1>6, <1>7

LEMMA ParseRedirKeeps ==
  ASSUME TokInv, ParseRedir
  PROVE  TokInv' /\ (phase' = "scan" => cursor' > cursor)
  <1> DEFINE p == RedirAt(cursor)
  <1>1. Scanning /\ RedirOpens(cursor) /\ Take(p) /\ LineOK
    BY DEF ParseRedir, TokInv
  <1>2. GoodParse(p, cursor)
    BY <1>1, ScanFacts, RedirAtGood
  <1>3. Len(stream) <= cursor
    BY <1>1, ScanFacts, OperatorFacts DEF TokInv, Scanning
  <1> HIDE DEF p
  <1>4. p.ok => p.token \in TokenSet /\ p.end \in cursor + 1 .. Len(src)
    BY <1>2 DEF GoodParse
  <1>5. p.ok => /\ p.end \in 0 .. Len(src) /\ Len(stream) + 1 <= MaxTokens
                /\ p.end >= Len(stream) + 1
    BY <1>1, <1>3, <1>4, ScanFacts
  <1>6. TokInv'
    BY <1>1, <1>4, <1>5, TakeKeeps
  <1>7. phase' = "scan" => cursor' > cursor
    <2>1. CASE p.ok
      BY <1>1, <1>4, <2>1, ScanFacts DEF Take
    <2>2. CASE ~p.ok
      BY <1>1, <2>2 DEF Take
    <2>3. QED
      BY <2>1, <2>2
  <1>8. QED
    BY <1>6, <1>7

LEMMA ParseLiteralKeeps ==
  ASSUME TokInv, ParseLiteral
  PROVE  /\ TokInv'
         /\ Peek(cursor) \in OddSpaces \/ cursor' > cursor
  <1> DEFINE p == LiteralAt(cursor)
  <1>1. /\ Scanning /\ ~PipeOpens(cursor) /\ ~RedirOpens(cursor) /\ Take(p) /\ LineOK
        /\ Len(stream) < MaxTokens
    BY DEF ParseLiteral, TokInv
  <1>2. /\ p.ok /\ p.token \in TokenSet /\ p.end \in cursor .. Len(src)
        /\ Peek(cursor) \in OddSpaces \/ p.end \in cursor + 1 .. Len(src)
    BY <1>1, ScanFacts, LiteralAtGood
  <1>3. Len(stream) <= cursor \/ Peek(cursor) \in OddSpaces
    BY <1>1 DEF TokInv, Scanning
  <1>4. Peek(cursor) \in OddSpaces => p.end = cursor
    <2>1. SUFFICES ASSUME Peek(cursor) \in OddSpaces PROVE p.end = cursor
      OBVIOUS
    <2>2. Peek(cursor) # " "
      BY <2>1, CharsOK
    <2>3. "end" \notin {" "}
      OBVIOUS
    <2> DEFINE stop == Skip(cursor, {" "})
    <2>4. stop \in cursor .. Len(src) /\ \A k \in cursor .. stop - 1 : Peek(k) \in {" "}
      BY <1>1, <2>3, ScanFacts, SkipSkips
    <2>5. p.end = stop
      BY <2>1 DEF LiteralAt, Spaces, Parsed
    <2> HIDE DEF stop, p
    <2>6. stop = cursor
      <3>1. SUFFICES ASSUME stop # cursor PROVE FALSE
        OBVIOUS
      <3>2. cursor \in Nat /\ Len(src) \in Nat
        BY <1>1, ScanFacts
      <3>3. stop \in cursor .. Len(src)
        BY <2>4
      <3>4. cursor \in cursor .. stop - 1
        BY <3>1, <3>2, <3>3
      <3>5. QED
        BY <2>2, <2>4, <3>4
    <2>7. QED
      BY <2>5, <2>6
  <1> HIDE DEF p
  <1>5. /\ p.end \in 0 .. Len(src) /\ Len(stream) + 1 <= MaxTokens
    BY <1>1, <1>2, ScanFacts
  <1>6. p.end >= Len(stream) + 1 \/ Peek(p.end) \in OddSpaces
    <2>1. CASE Peek(cursor) \in OddSpaces
      BY <1>4, <2>1
    <2>2. CASE Peek(cursor) \notin OddSpaces
      <3>1. Len(stream) <= cursor /\ p.end \in cursor + 1 .. Len(src)
        BY <1>2, <1>3, <2>2
      <3>2. cursor \in Nat /\ Len(src) \in Nat /\ Len(stream) \in Nat
        BY <1>1, ScanFacts
      <3>3. QED
        BY <3>1, <3>2
    <2>3. QED
      BY <2>1, <2>2
  <1>7. TokInv'
    BY <1>1, <1>2, <1>5, <1>6, TakeKeeps
  <1>8. cursor' = p.end
    BY <1>1, <1>2 DEF Take
  <1>9. Peek(cursor) \in OddSpaces \/ cursor' > cursor
    BY <1>1, <1>2, <1>8, ScanFacts
  <1>10. QED
    BY <1>7, <1>9

LEMMA ParseEndKeeps ==
  ASSUME TokInv, ParseEnd
  PROVE  TokInv'
  <1>1. /\ stream \in Seq(TokenSet) /\ Len(stream) <= MaxTokens /\ src' = src /\ cursor' = cursor
        /\ phase' = "done" /\ stream' = Append(stream, EOF)
    BY DEF TokInv, ParseEnd
  <1>2. TokenSet \subseteq AllTokens /\ EOF \in AllTokens
    BY DEF AllTokens
  <1>3. stream \in Seq(AllTokens) /\ Len(stream) \in Nat
    BY <1>1, <1>2, SeqMonotonic, LenProperties
  <1>4. /\ stream' \in Seq(AllTokens) /\ Len(stream') = Len(stream) + 1
        /\ stream'[Len(stream) + 1] = EOF
        /\ \A k \in 1 .. Len(stream) : stream'[k] = stream[k]
    BY <1>1, <1>2, <1>3, AppendProperties
  <1>5. EOF.kind = "eof"
    BY DEF EOF
  <1>6. \A k \in 1 .. Len(stream) : stream[k].kind # "eof"
    <2>1. \A k \in 1 .. Len(stream) : stream[k] \in TokenSet
      BY <1>1, ElementOfSeq
    <2>2. QED
      BY <2>1, TokensNotEof
  <1>7. \A k \in 1 .. Len(stream) + 1 : stream'[k].kind = "eof" <=> k = Len(stream) + 1
    BY <1>3, <1>4, <1>5, <1>6
  <1>8. Ended(stream)'
    <2>1. DOMAIN stream' = 1 .. Len(stream) + 1
      BY <1>4, LenProperties
    <2>2. stream' # <<>>
      BY <1>3, <1>4, EmptySeq
    <2>3. QED
      BY <1>4, <1>7, <2>1, <2>2 DEF Ended
  <1>9. Len(stream') <= MaxTokens + 1
    BY <1>1, <1>3, <1>4, MaxTokensType
  <1>10. QED
    BY <1>1, <1>8, <1>9 DEF TokInv, LineOK

LEMMA InitTokInv ==
  ASSUME Init
  PROVE  TokInv
  <1>1. LineOK
    <2>1. CASE src \in Lines
      <3>1. \A l \in Lines : l \in Seq(WordChars \cup Breaks) /\ Len(l) + 1 < MaxTokens
        BY LinesAssumption, Zenon
      <3>2. QED
        BY <2>1, <3>1 DEF LineOK, Chars
    <2>2. CASE job \in Jobs /\ src = Typed(job)
      BY <2>2, JobsAssumption, TypedType DEF LineOK
    <2>3. QED
      BY <2>1, <2>2 DEF Init
  <1>2. cursor = 0 /\ stream = <<>> /\ phase = "scan"
    BY DEF Init
  <1>3. stream \in Seq(TokenSet) /\ Len(stream) = 0
    BY <1>2, EmptySeq
  <1>4. QED
    BY <1>1, <1>2, <1>3, LineLength, MaxTokensType DEF TokInv

LEMMA StepTokInv ==
  ASSUME TokInv, [Next]_vars
  PROVE  TokInv'
  <1>1. CASE ParsePipe
    BY <1>1, ParsePipeKeeps
  <1>2. CASE ParseRedir
    BY <1>2, ParseRedirKeeps
  <1>3. CASE ParseLiteral
    BY <1>3, ParseLiteralKeeps
  <1>4. CASE ParseEnd
    BY <1>4, ParseEndKeeps
  <1>5. CASE BuildCommand
    BY <1>5 DEF BuildCommand, TokInv, LineOK, Peek
  <1>6. CASE UNCHANGED vars
    BY <1>6 DEF vars, TokInv, LineOK, Peek, Ended
  <1>7. QED
    BY <1>1, <1>2, <1>3, <1>4, <1>5, <1>6 DEF Next, Scan, Tokenize

----------------------------------------------------------------------------
(* Where build finds the parts of a stage, in tokens that end with EOF.    *)
LEMMA KindFacts ==
  ASSUME NEW t \in AllTokens
  PROVE  /\ IsLiteral(t) => t.text \in Texts \ {<<>>}
         /\ IsPipe(t) => t.from \in (SUBSET Nums) \ {{}} /\ t.to \in Nums
         /\ IsRedir(t) => t.from \in SUBSET Nums /\ t.mode \in Modes
  BY DEF AllTokens, TokenSet, EOF, IsLiteral, IsPipe, IsRedir

LEMMA EndedFacts ==
  ASSUME NEW toks, Ended(toks)
  PROVE  /\ Len(toks) \in Nat \ {0} /\ DOMAIN toks = 1 .. Len(toks)
         /\ \A k \in 1 .. Len(toks) : toks[k] \in AllTokens
         /\ \A k \in 1 .. Len(toks) : toks[k].kind = "eof" => k = Len(toks)
         /\ ~IsLiteral(toks[Len(toks)]) /\ ~IsPipe(toks[Len(toks)])
         /\ ~IsRedir(toks[Len(toks)]) /\ ~IsAssignment(toks[Len(toks)])
  <1>1. Len(toks) \in Nat /\ DOMAIN toks = 1 .. Len(toks) /\ Len(toks) # 0
    BY LenProperties, EmptySeq DEF Ended
  <1>2. Len(toks) \in DOMAIN toks
    BY <1>1
  <1>3. toks[Len(toks)].kind = "eof"
    BY <1>2 DEF Ended
  <1>4. ~IsLiteral(toks[Len(toks)]) /\ ~IsPipe(toks[Len(toks)]) /\ ~IsRedir(toks[Len(toks)])
    BY <1>3 DEF IsLiteral, IsPipe, IsRedir
  <1>5. ~IsAssignment(toks[Len(toks)])
    BY <1>4 DEF IsAssignment
  <1>6. \A k \in 1 .. Len(toks) : toks[k] \in AllTokens
    BY ElementOfSeq DEF Ended
  <1>7. \A k \in 1 .. Len(toks) : toks[k].kind = "eof" => k = Len(toks)
    BY <1>1 DEF Ended
  <1>8. QED
    BY <1>1, <1>4, <1>5, <1>6, <1>7

(* collect_all stops at the first token of another kind. *)
LEMMA CollectStops ==
  ASSUME NEW n \in Nat, NEW i \in 1 .. n, NEW S, S \subseteq 1 .. n, n \notin S
  PROVE  FirstOut(Collect(i, S), i, n, S)
  <1>1. PICK j : FirstOut(j, i, n, S)
    BY FirstExists
  <1>2. IsFiniteSet(S) /\ Cardinality(S) \in Nat
    <2>1. IsFiniteSet(1 .. n)
      BY FS_Interval
    <2>2. QED
      BY <2>1, FS_Subset, FS_CardinalityType
  <1>3. j - i <= Cardinality(S)
    <2>1. i .. j - 1 \subseteq S
      BY <1>1 DEF FirstOut
    <2>2. Cardinality(i .. j - 1) <= Cardinality(S)
      BY <1>2, <2>1, FS_Subset
    <2>3. Cardinality(i .. j - 1) = IF i > j - 1 THEN 0 ELSE (j - 1) - i + 1
      <3>1. i \in Int /\ j - 1 \in Int
        BY <1>1 DEF FirstOut
      <3>2. QED
        BY <3>1, FS_Interval
    <2>4. j \in i .. n
      BY <1>1 DEF FirstOut
    <2>5. QED
      BY <1>2, <2>2, <2>3, <2>4
  <1> DEFINE Stops(k) == k \notin S /\ \A l \in i .. k - 1 : l \in S
             c == CHOOSE k \in i .. i + Cardinality(S) : Stops(k)
  <1>4. j \in i .. i + Cardinality(S) /\ Stops(j)
    BY <1>1, <1>2, <1>3 DEF FirstOut
  <1>5. c \in i .. i + Cardinality(S) /\ Stops(c)
    <2> HIDE DEF Stops
    <2>1. QED
      BY <1>4
  <1>6. Collect(i, S) = c
    BY DEF Collect
  <1> HIDE DEF c
  <1>7. c <= n
    <2>1. SUFFICES ASSUME c > n PROVE FALSE
      BY <1>2, <1>5
    <2>2. n \in i .. c - 1
      BY <1>2, <1>5, <2>1
    <2>3. QED
      BY <1>5, <2>2
  <1>8. QED
    BY <1>2, <1>5, <1>6, <1>7 DEF FirstOut

(* Redirections and files take turns. *)
FilesRun(toks, i, j) ==
  /\ (j - i) % 2 = 0
  /\ \A k \in i .. j - 1 : IF (k - i) % 2 = 0 THEN IsRedir(toks[k]) ELSE IsLiteral(toks[k])

LEMMA FilesStop ==
  ASSUME NEW toks, Ended(toks), NEW i \in 1 .. Len(toks)
  PROVE  /\ FilesEnd(toks, i) \in i .. Len(toks) /\ FilesRun(toks, i, FilesEnd(toks, i))
         /\ ~(IsRedir(toks[FilesEnd(toks, i)]) /\ IsLiteral(toks[FilesEnd(toks, i) + 1]))
  <1> DEFINE n == Len(toks)
             More(j) == IsRedir(toks[j]) /\ IsLiteral(toks[j + 1])
             Stops(j) == FilesRun(toks, i, j) /\ ~More(j)
             E == {j \in i .. n : FilesRun(toks, i, j) => \E k \in i .. n : Stops(k)}
  <1>1. n \in Nat /\ i \in Nat /\ ~IsLiteral(toks[n]) /\ ~IsRedir(toks[n])
    BY EndedFacts
  <1>2. ASSUME NEW j \in i .. n, j + 1 .. n \subseteq E PROVE j \in E
    <2>1. SUFFICES ASSUME FilesRun(toks, i, j), More(j) PROVE \E k \in i .. n : Stops(k)
      OBVIOUS
    <2>2. j # n /\ j + 1 # n
      BY <1>1, <2>1
    <2>3. j + 2 \in j + 1 .. n
      BY <1>1, <2>2
    <2>4. FilesRun(toks, i, j + 2)
      <3>1. (j - i) % 2 = 0 /\ j - i \in Nat
        BY <1>1, <2>1 DEF FilesRun
      <3>2. ((j + 2) - i) % 2 = 0 /\ ((j + 1) - i) % 2 # 0
        BY <1>1, <3>1
      <3>3. ASSUME NEW k \in i .. (j + 2) - 1
            PROVE  IF (k - i) % 2 = 0 THEN IsRedir(toks[k]) ELSE IsLiteral(toks[k])
        <4>1. CASE k = j
          BY <2>1, <3>1, <4>1
        <4>2. CASE k = j + 1
          BY <2>1, <3>2, <4>2
        <4>3. CASE k # j /\ k # j + 1
          <5>1. k \in i .. j - 1
            BY <1>1, <4>3
          <5>2. QED
            BY <2>1, <5>1, Zenon DEF FilesRun
        <4>4. QED
          BY <4>1, <4>2, <4>3
      <3>4. QED
        BY <3>2, <3>3, Zenon DEF FilesRun
    <2>5. j + 2 \in E
      BY <1>2, <2>3
    <2> HIDE DEF Stops, More
    <2>6. QED
      BY <2>4, <2>5
  <1>3. i .. n \subseteq E
    <2> HIDE DEF E
    <2>1. QED
      BY <1>1, <1>2, DownInduction
  <1>4. FilesRun(toks, i, i)
    BY <1>1 DEF FilesRun
  <1>5. \E k \in i .. n : Stops(k)
    <2> HIDE DEF Stops
    <2>1. i \in i .. n
      BY <1>1
    <2>2. QED
      BY <1>3, <1>4, <2>1
  <1>6. FilesEnd(toks, i) = CHOOSE j \in i .. n : Stops(j)
    BY Zenon DEF FilesEnd, FilesRun
  <1>7. FilesEnd(toks, i) \in i .. n /\ Stops(FilesEnd(toks, i))
    <2> HIDE DEF Stops
    <2>1. QED
      BY <1>5, <1>6
  <1>8. QED
    BY <1>7

(* The parts of the stage at i, in order. *)
LEMMA StageShape ==
  ASSUME NEW toks, Ended(toks), NEW i \in 1 .. Len(toks), ~Refused(toks, i)
  PROVE  /\ BinAt(toks, i) \in i .. Len(toks) - 1
         /\ \A k \in i .. BinAt(toks, i) : IsLiteral(toks[k])
         /\ FilesAt(toks, i) \in BinAt(toks, i) + 1 .. Len(toks)
         /\ \A k \in BinAt(toks, i) + 1 .. FilesAt(toks, i) - 1 : IsLiteral(toks[k])
         /\ ~IsLiteral(toks[FilesAt(toks, i)])
         /\ LeftAt(toks, i) \in FilesAt(toks, i) .. Len(toks)
         /\ FilesRun(toks, FilesAt(toks, i), LeftAt(toks, i))
         /\ ~(IsRedir(toks[LeftAt(toks, i)]) /\ IsLiteral(toks[LeftAt(toks, i) + 1]))
         /\ PipesAt(toks, i) \in LeftAt(toks, i) .. Len(toks)
         /\ PipesAt(toks, i) = IF IsRedir(toks[LeftAt(toks, i)]) THEN LeftAt(toks, i) + 1
                               ELSE LeftAt(toks, i)
         /\ EndAt(toks, i) \in PipesAt(toks, i) .. Len(toks)
         /\ \A k \in PipesAt(toks, i) .. EndAt(toks, i) - 1 : IsPipe(toks[k])
         /\ ~IsPipe(toks[EndAt(toks, i)])
         /\ i < EndAt(toks, i)
  <1> DEFINE n == Len(toks)
             bin == BinAt(toks, i)
             files == FilesAt(toks, i)
             left == LeftAt(toks, i)
             pipes == PipesAt(toks, i)
             end == EndAt(toks, i)
             assignments == {k \in DOMAIN toks : IsAssignment(toks[k])}
             literals == {k \in DOMAIN toks : IsLiteral(toks[k])}
             bars == {k \in DOMAIN toks : IsPipe(toks[k])}
  <1>1. /\ n \in Nat \ {0} /\ DOMAIN toks = 1 .. n /\ i \in Nat
        /\ ~IsLiteral(toks[n]) /\ ~IsPipe(toks[n]) /\ ~IsRedir(toks[n])
        /\ n \notin assignments /\ n \notin literals /\ n \notin bars
        /\ assignments \subseteq 1 .. n /\ literals \subseteq 1 .. n /\ bars \subseteq 1 .. n
    BY EndedFacts
  <1>2. IsLiteral(toks[bin])
    BY DEF Refused
  <1>3. bin = Collect(i, assignments) /\ files = Collect(bin + 1, literals)
        /\ left = FilesEnd(toks, files) /\ end = Collect(pipes, bars)
        /\ pipes = IF IsRedir(toks[left]) THEN left + 1 ELSE left
    BY Zenon DEF BinAt, FilesAt, LeftAt, PipesAt, EndAt
  <1> HIDE DEF bin, files, left, pipes, end
  <1>4. bin \in i .. n /\ \A k \in i .. bin - 1 : k \in assignments
    <2>1. FirstOut(bin, i, n, assignments)
      <3> HIDE DEF assignments, n
      <3>1. QED
        BY <1>1, <1>3, CollectStops DEF n
    <2>2. QED
      BY <2>1 DEF FirstOut
  <1>5. bin \in i .. n - 1 /\ \A k \in i .. bin : IsLiteral(toks[k])
    <2>1. bin # n
      BY <1>1, <1>2
    <2>2. ASSUME NEW k \in i .. bin - 1 PROVE IsLiteral(toks[k])
      <3>1. IsAssignment(toks[k])
        BY <1>4
      <3>2. QED
        BY <3>1, Zenon DEF IsAssignment
    <2>3. bin \in i .. n - 1
      <3>1. n \in Nat /\ i \in Nat /\ bin \in i .. n
        BY <1>1, <1>4
      <3> HIDE DEF n
      <3>2. QED
        BY <2>1, <3>1
    <2>4. \A k \in i .. bin : k = bin \/ k \in i .. bin - 1
      BY <1>1, <2>3
    <2>5. QED
      BY <1>2, <2>2, <2>3, <2>4
  <1>6. files \in bin + 1 .. n /\ files \notin literals /\ \A k \in bin + 1 .. files - 1 : k \in literals
    <2>1. bin + 1 \in 1 .. n
      BY <1>1, <1>5
    <2>2. FirstOut(files, bin + 1, n, literals)
      <3> HIDE DEF literals, n
      <3>1. PICK j \in 1 .. n : j = bin + 1
        BY <2>1
      <3>2. FirstOut(Collect(j, literals), j, n, literals)
        BY <1>1, CollectStops DEF n
      <3>3. QED
        BY <1>3, <3>1, <3>2
    <2>3. QED
      BY <2>2 DEF FirstOut
  <1>7. files \in 1 .. n
    BY <1>1, <1>5, <1>6
  <1>8. /\ left \in files .. n /\ FilesRun(toks, files, left)
        /\ ~(IsRedir(toks[left]) /\ IsLiteral(toks[left + 1]))
    BY <1>3, <1>7, FilesStop
  <1>9. pipes \in left .. n
    BY <1>1, <1>3, <1>7, <1>8
  <1>10. pipes \in 1 .. n
    BY <1>1, <1>7, <1>8, <1>9
  <1>11. end \in pipes .. n /\ end \notin bars /\ \A k \in pipes .. end - 1 : k \in bars
    <2>1. FirstOut(end, pipes, n, bars)
      <3> HIDE DEF bars, n
      <3>1. QED
        BY <1>1, <1>3, <1>10, CollectStops DEF n
    <2>2. QED
      BY <2>1 DEF FirstOut
  <1>12. i < end
    BY <1>1, <1>5, <1>6, <1>8, <1>9, <1>11
  <1>13. ~IsLiteral(toks[files]) /\ \A k \in bin + 1 .. files - 1 : IsLiteral(toks[k])
    BY <1>1, <1>6, <1>7
  <1>14. ~IsPipe(toks[end]) /\ \A k \in pipes .. end - 1 : IsPipe(toks[k])
    BY <1>1, <1>10, <1>11
  <1>15. QED
    BY <1>3, <1>5, <1>6, <1>8, <1>9, <1>11, <1>12, <1>13, <1>14
         DEF bin, files, left, pipes, end, n

----------------------------------------------------------------------------
(* The stage at i is one that can be run. *)
Wordy     == Texts \ {<<>>}
RedirSet  == [from : SUBSET Nums, mode : Modes, file : Wordy]
LinkSet   == [to : Nums, from : (SUBSET Nums) \ {{}}]

LEMMA TextsInWordy == Wordy \subseteq Texts
  BY DEF Wordy

LEMMA LiteralText ==
  ASSUME NEW toks, Ended(toks), NEW k \in 1 .. Len(toks), IsLiteral(toks[k])
  PROVE  toks[k].text \in Wordy
  BY EndedFacts, KindFacts DEF Wordy

LEMMA WordsType ==
  ASSUME NEW toks, Ended(toks), NEW a \in 1 .. Len(toks), NEW b \in a .. Len(toks),
         \A k \in a .. b - 1 : IsLiteral(toks[k])
  PROVE  /\ Words(toks, a, b) \in Seq(Wordy) /\ Len(Words(toks, a, b)) = b - a
         /\ \A k \in 1 .. b - a : Words(toks, a, b)[k] = toks[a + k - 1].text
  <1> DEFINE w == [k \in 1 .. b - a |-> toks[a + k - 1].text]
  <1>1. Len(toks) \in Nat /\ a \in Nat /\ b \in Nat /\ b - a \in Nat
    BY EndedFacts
  <1>2. ASSUME NEW k \in 1 .. b - a PROVE toks[a + k - 1].text \in Wordy
    <2>1. a + k - 1 \in a .. b - 1 /\ a + k - 1 \in 1 .. Len(toks)
      BY <1>1
    <2>2. QED
      BY <2>1, LiteralText
  <1>3. w \in Seq(Wordy) /\ Len(w) = b - a
    <2>1. w \in [1 .. b - a -> Wordy]
      BY <1>2
    <2> HIDE DEF w
    <2>2. QED
      BY <1>1, <2>1
  <1>4. Words(toks, a, b) = w
    BY Zenon DEF Words
  <1>5. QED
    BY <1>3, <1>4

LEMMA RedirsType ==
  ASSUME NEW toks, Ended(toks), NEW i \in 1 .. Len(toks), NEW j \in i .. Len(toks),
         FilesRun(toks, i, j)
  PROVE  /\ Redirs(toks, i, j) \in Seq(RedirSet)
         /\ Len(Redirs(toks, i, j)) = (j - i) \div 2
         /\ \A k \in 1 .. (j - i) \div 2 : Redirs(toks, i, j)[k].file = toks[i + 2 * k - 1].text
  <1> DEFINE m == (j - i) \div 2
             r(k) == [from |-> toks[i + 2 * k - 2].from, mode |-> toks[i + 2 * k - 2].mode,
                      file |-> toks[i + 2 * k - 1].text]
             R == [k \in 1 .. m |-> r(k)]
  <1>1. Len(toks) \in Nat /\ i \in Nat /\ j \in Nat /\ j - i \in Nat
    BY EndedFacts
  <1>2. m \in Nat /\ 2 * m = j - i
    BY <1>1 DEF FilesRun
  <1> HIDE DEF m
  <1>3. ASSUME NEW k \in 1 .. m PROVE r(k) \in RedirSet
    <2>1. /\ i + 2 * k - 2 \in i .. j - 1 /\ i + 2 * k - 1 \in i .. j - 1
          /\ i + 2 * k - 2 \in 1 .. Len(toks) /\ i + 2 * k - 1 \in 1 .. Len(toks)
      BY <1>1, <1>2
    <2>2. ((i + 2 * k - 2) - i) % 2 = 0 /\ ((i + 2 * k - 1) - i) % 2 # 0
      BY <1>1
    <2>3. IsRedir(toks[i + 2 * k - 2]) /\ IsLiteral(toks[i + 2 * k - 1])
      <3>1. \A l \in i .. j - 1 : IF (l - i) % 2 = 0 THEN IsRedir(toks[l]) ELSE IsLiteral(toks[l])
        BY Zenon DEF FilesRun
      <3>2. QED
        BY <2>1, <2>2, <3>1
    <2>4. toks[i + 2 * k - 1].text \in Wordy
      BY <2>1, <2>3, LiteralText
    <2>5. toks[i + 2 * k - 2].from \in SUBSET Nums /\ toks[i + 2 * k - 2].mode \in Modes
      BY <2>1, <2>3, EndedFacts, KindFacts
    <2>6. QED
      BY <2>4, <2>5 DEF RedirSet
  <1>4. \A k \in 1 .. m : R[k].file = toks[i + 2 * k - 1].text
    OBVIOUS
  <1>5. R \in [1 .. m -> RedirSet]
    <2> HIDE DEF r
    <2>1. QED
      BY <1>3
  <1>6. Redirs(toks, i, j) = R
    BY Zenon DEF Redirs, m
  <1> HIDE DEF R
  <1>7. R \in Seq(RedirSet) /\ Len(R) = m
    BY <1>2, <1>5
  <1>8. QED
    BY <1>4, <1>6, <1>7 DEF m

LEMMA LinksGood ==
  ASSUME NEW toks, Ended(toks), NEW i \in 1 .. Len(toks), NEW j \in i .. Len(toks),
         \A k \in i .. j - 1 : IsPipe(toks[k])
  PROVE  /\ Links(toks, i, j) \subseteq LinkSet
         /\ \A l, m \in Links(toks, i, j) : l.to = m.to => l = m
         /\ Links(toks, i, j) = {} <=> i = j
  <1> DEFINE K == i .. j - 1
             ends == {toks[k].to : k \in K}
             at(fd) == UNION {toks[k].from : k \in {l \in K : toks[l].to = fd}}
             link(fd) == [to |-> fd, from |-> at(fd)]
  <1>1. Len(toks) \in Nat /\ i \in Nat /\ j \in Nat
    BY EndedFacts
  <1>2. Links(toks, i, j) = {link(fd) : fd \in ends}
    BY Zenon DEF Links
  <1>3. \A k \in K : toks[k].from \in (SUBSET Nums) \ {{}} /\ toks[k].to \in Nums
    <2>1. ASSUME NEW k \in K PROVE toks[k].from \in (SUBSET Nums) \ {{}} /\ toks[k].to \in Nums
      <3>1. k \in 1 .. Len(toks) /\ IsPipe(toks[k])
        BY <1>1
      <3>2. QED
        BY <3>1, EndedFacts, KindFacts
    <2>2. QED
      BY <2>1
  <1>4. K = {} <=> i = j
    BY <1>1
  <1> HIDE DEF K
  <1>5. ASSUME NEW fd \in ends PROVE link(fd) \in LinkSet
    <2>1. PICK k \in K : toks[k].to = fd
      OBVIOUS
    <2>2. fd \in Nums /\ toks[k].from \subseteq at(fd) /\ toks[k].from # {}
      BY <1>3, <2>1
    <2>3. at(fd) \subseteq Nums /\ at(fd) # {}
      BY <1>3, <2>2
    <2> HIDE DEF at
    <2>4. QED
      BY <2>2, <2>3 DEF LinkSet
  <1>6. \A fd \in ends : link(fd).to = fd
    OBVIOUS
  <1>7. ends = {} <=> i = j
    BY <1>4
  <1> HIDE DEF link, ends
  <1>8. QED
    BY <1>2, <1>5, <1>6, <1>7

FitChain(c) ==
  /\ c \in Seq(Stages)
  /\ \A k \in DOMAIN c :
       /\ c[k].links = {} <=> k = Len(c)
       /\ \A l, m \in c[k].links : l.to = m.to => l = m
       /\ \A l \in c[k].links : l.from # {}
       /\ StageWords(c[k]) \in Seq(Wordy)
Chains == {c \in Seq(Stages) : FitChain(c)}

Files(rs) == [r \in DOMAIN rs |-> rs[r].file]

LEMMA FilesType ==
  ASSUME NEW rs \in Seq(RedirSet)
  PROVE  Files(rs) \in Seq(Wordy) /\ Len(Files(rs)) = Len(rs)
  <1>1. Len(rs) \in Nat /\ DOMAIN rs = 1 .. Len(rs) /\ \A r \in 1 .. Len(rs) : rs[r] \in RedirSet
    BY LenProperties, ElementOfSeq
  <1>2. \A r \in 1 .. Len(rs) : rs[r].file \in Wordy
    BY <1>1 DEF RedirSet
  <1>3. Files(rs) \in [1 .. Len(rs) -> Wordy]
    BY <1>1, <1>2 DEF Files
  <1>4. QED
    BY <1>1, <1>3

LEMMA StageGood ==
  ASSUME NEW toks, Ended(toks), NEW i \in 1 .. Len(toks), ~Refused(toks, i),
         NEW links \in SUBSET LinkSet
  PROVE  /\ StageAt(toks, i, links) \in Stages /\ StageAt(toks, i, links).links = links
         /\ StageWords(StageAt(toks, i, links)) \in Seq(Wordy)
         /\ StageWords(StageAt(toks, i, links)) =
              ((Words(toks, i, BinAt(toks, i)) \o << toks[BinAt(toks, i)].text >>)
               \o Words(toks, BinAt(toks, i) + 1, FilesAt(toks, i)))
              \o Files(Redirs(toks, FilesAt(toks, i), LeftAt(toks, i)))
  <1> DEFINE n == Len(toks)
             bin == BinAt(toks, i)
             files == FilesAt(toks, i)
             left == LeftAt(toks, i)
             env == Words(toks, i, bin)
             args == Words(toks, bin + 1, files)
             redirs == Redirs(toks, files, left)
             s == StageAt(toks, i, links)
  <1>1. /\ bin \in i .. n - 1 /\ \A k \in i .. bin : IsLiteral(toks[k])
        /\ files \in bin + 1 .. n /\ \A k \in bin + 1 .. files - 1 : IsLiteral(toks[k])
        /\ left \in files .. n /\ FilesRun(toks, files, left)
    BY StageShape
  <1>2. n \in Nat /\ i \in Nat
    BY EndedFacts
  <1> HIDE DEF bin, files, left, n
  <1>3. /\ i \in 1 .. n /\ bin \in 1 .. n /\ bin + 1 \in 1 .. n /\ files \in 1 .. n
        /\ bin \in i .. n /\ bin \in i .. bin /\ \A k \in i .. bin - 1 : k \in i .. bin
    BY <1>1, <1>2 DEF n
  <1>4. env \in Seq(Wordy)
    <2>1. \A k \in i .. bin - 1 : IsLiteral(toks[k])
      BY <1>1, <1>3
    <2>2. QED
      BY <1>3, <2>1, WordsType DEF n
  <1>5. args \in Seq(Wordy)
    BY <1>1, <1>3, WordsType DEF n
  <1>6. toks[bin].text \in Wordy
    BY <1>1, <1>3, LiteralText DEF n
  <1>7. redirs \in Seq(RedirSet)
    BY <1>1, <1>3, RedirsType DEF n
  <1> HIDE DEF env, args, redirs
  <1>8. s = [env |-> env, bin |-> toks[bin].text, args |-> args, redirs |-> redirs, links |-> links]
    BY Zenon DEF StageAt, Stage, env, args, redirs, bin, files, left
  <1> HIDE DEF s
  <1>9. env \in Seq(Texts) /\ args \in Seq(Texts) /\ toks[bin].text \in Texts
    BY <1>4, <1>5, <1>6, TextsInWordy, SeqMonotonic
  <1>10. redirs \in Seq([from : SUBSET Nums, mode : Modes, file : Texts])
    <2>1. RedirSet \subseteq [from : SUBSET Nums, mode : Modes, file : Texts]
      BY DEF RedirSet, Wordy
    <2>2. QED
      BY <1>7, <2>1, SeqMonotonic
  <1>11. links \in SUBSET [to : Nums, from : SUBSET Nums]
    BY DEF LinkSet
  <1>12. s \in Stages
    <2>1. Stages = [ env : Seq(Texts), bin : Texts, args : Seq(Texts),
                     redirs : Seq([from : SUBSET Nums, mode : Modes, file : Texts]),
                     links : SUBSET [to : Nums, from : SUBSET Nums] ]
      BY Zenon DEF Stages, Nums, Modes
    <2>2. QED
      BY <1>8, <1>9, <1>10, <1>11, <2>1
  <1>13. s.env = env /\ s.bin = toks[bin].text /\ s.args = args /\ s.redirs = redirs /\ s.links = links
    BY <1>8
  <1>14. StageWords(s) = ((env \o << toks[bin].text >>) \o args) \o Files(redirs)
    BY <1>13, Zenon DEF StageWords, Files
  <1>15. StageWords(s) \in Seq(Wordy)
    <2>1. << toks[bin].text >> \in Seq(Wordy) /\ Files(redirs) \in Seq(Wordy)
      BY <1>6, <1>7, FilesType
    <2>2. env \o << toks[bin].text >> \in Seq(Wordy)
      BY <1>4, <2>1, ConcatProperties
    <2>3. (env \o << toks[bin].text >>) \o args \in Seq(Wordy)
      BY <1>5, <2>2, ConcatProperties
    <2>4. QED
      BY <1>14, <2>1, <2>3, ConcatProperties
  <1>16. QED
    BY <1>12, <1>13, <1>14, <1>15, Zenon DEF s, env, args, redirs, bin, files, left

(* A stage in front of the chain that its pipes lead to. *)
LEMMA LastStageFits ==
  ASSUME NEW s \in Stages, s.links = {}, StageWords(s) \in Seq(Wordy)
  PROVE  << s >> \in Chains
  <1>1. << s >> \in Seq(Stages) /\ Len(<< s >>) = 1 /\ DOMAIN << s >> = {1} /\ << s >>[1] = s
    OBVIOUS
  <1>2. QED
    BY <1>1 DEF Chains, FitChain

LEMMA LinkedStageFits ==
  ASSUME NEW s \in Stages, s.links # {}, s.links \subseteq LinkSet,
         \A l, m \in s.links : l.to = m.to => l = m, StageWords(s) \in Seq(Wordy),
         NEW next \in Chains, next # <<>>
  PROVE  << s >> \o next \in Chains
  <1> DEFINE c == << s >> \o next
             n == Len(next)
  <1>1. << s >> \in Seq(Stages) /\ Len(<< s >>) = 1 /\ << s >>[1] = s
    OBVIOUS
  <1>2. next \in Seq(Stages) /\ FitChain(next)
    BY DEF Chains
  <1>3. n \in Nat \ {0} /\ DOMAIN next = 1 .. n
    BY <1>2, LenProperties, EmptySeq
  <1>4. /\ c \in Seq(Stages) /\ Len(c) = n + 1
        /\ \A k \in 1 .. n + 1 : c[k] = IF k <= 1 THEN s ELSE next[k - 1]
    BY <1>1, <1>2, <1>3, ConcatProperties
  <1>5. DOMAIN c = 1 .. n + 1
    BY <1>4, LenProperties
  <1> HIDE DEF c
  <1>6. \A l \in s.links : l.from # {}
    BY DEF LinkSet
  <1>7. ASSUME NEW k \in 1 .. n + 1
        PROVE  /\ c[k].links = {} <=> k = Len(c)
               /\ \A l, m \in c[k].links : l.to = m.to => l = m
               /\ \A l \in c[k].links : l.from # {}
               /\ StageWords(c[k]) \in Seq(Wordy)
    <2>1. CASE k = 1
      <3>1. c[k] = s /\ k # Len(c)
        BY <1>3, <1>4, <2>1
      <3>2. QED
        BY <1>6, <3>1
    <2>2. CASE k # 1
      <3>1. k - 1 \in 1 .. n /\ ~(k <= 1) /\ (k - 1 = n <=> k = n + 1)
        BY <1>3, <2>2
      <3>2. c[k] = next[k - 1]
        BY <1>4, <3>1
      <3>3. k - 1 \in DOMAIN next
        BY <1>3, <3>1
      <3>4. /\ next[k - 1].links = {} <=> k - 1 = n
            /\ \A l, m \in next[k - 1].links : l.to = m.to => l = m
            /\ \A l \in next[k - 1].links : l.from # {}
            /\ StageWords(next[k - 1]) \in Seq(Wordy)
        BY <1>2, <3>3, Zenon DEF FitChain
      <3>5. QED
        BY <1>4, <3>1, <3>2, <3>4
    <2>3. QED
      BY <2>1, <2>2
  <1>8. FitChain(c)
    BY <1>4, <1>5, <1>7, Zenon DEF FitChain
  <1>9. QED
    BY <1>4, <1>8 DEF Chains, c

LEMMA ChainedFits ==
  ASSUME NEW toks, Ended(toks), NEW i \in 1 .. Len(toks), ~Refused(toks, i), NEW next \in Chains
  PROVE  Chained(toks, i, next) \in Chains /\ Chained(toks, i, next) # <<>>
  <1> DEFINE pipes == PipesAt(toks, i)
             end == EndAt(toks, i)
             links == Links(toks, pipes, end)
             s == StageAt(toks, i, links)
             last == StageAt(toks, i, {})
  <1>1. CASE end # pipes /\ next # <<>>
    <2>1. /\ pipes \in LeftAt(toks, i) .. Len(toks) /\ LeftAt(toks, i) \in FilesAt(toks, i) .. Len(toks)
          /\ FilesAt(toks, i) \in BinAt(toks, i) + 1 .. Len(toks) /\ BinAt(toks, i) \in i .. Len(toks) - 1
          /\ end \in pipes .. Len(toks) /\ \A k \in pipes .. end - 1 : IsPipe(toks[k])
      BY StageShape
    <2>2. Len(toks) \in Nat
      BY EndedFacts
    <2> HIDE DEF pipes, end
    <2>3. pipes \in 1 .. Len(toks)
      BY <2>1, <2>2
    <2>4. links \subseteq LinkSet /\ links # {} /\ \A l, m \in links : l.to = m.to => l = m
      BY <1>1, <2>1, <2>3, LinksGood
    <2> HIDE DEF links
    <2>5. s \in Stages /\ s.links = links /\ StageWords(s) \in Seq(Wordy)
      BY <2>4, StageGood, Zenon
    <2> HIDE DEF s
    <2>6. << s >> \o next \in Chains
      BY <1>1, <2>4, <2>5, LinkedStageFits
    <2>7. Chained(toks, i, next) = << s >> \o next
      BY <1>1, Zenon DEF Chained, s, links, pipes, end
    <2>8. << s >> \o next # <<>>
      <3>1. << s >> \in Seq(Stages) /\ << s >> # <<>> /\ next \in Seq(Stages)
        BY <2>5 DEF Chains
      <3>2. QED
        BY <3>1, ConcatEqualIffEmpty
    <2>9. QED
      BY <2>6, <2>7, <2>8
  <1>2. CASE ~(end # pipes /\ next # <<>>)
    <2>1. {} \in SUBSET LinkSet
      OBVIOUS
    <2>2. last \in Stages /\ last.links = {} /\ StageWords(last) \in Seq(Wordy)
      BY <2>1, StageGood, Zenon
    <2>3. Chained(toks, i, next) = << last >>
      BY <1>2, Zenon DEF Chained
    <2> HIDE DEF last
    <2>4. QED
      BY <2>2, <2>3, LastStageFits
  <1>3. QED
    BY <1>1, <1>2

(* Build, stage by stage from the end of the tokens. *)
Builds(f, toks) ==
  /\ f \in [1 .. Len(toks) -> Chains] /\ Build(toks) = f[1]
  /\ \A i \in 1 .. Len(toks) :
       f[i] = IF Refused(toks, i) THEN <<>> ELSE Chained(toks, i, f[EndAt(toks, i)])

LEMMA EmptyChain == <<>> \in Chains
  <1>1. <<>> \in Seq(Stages) /\ DOMAIN <<>> = {}
    OBVIOUS
  <1>2. QED
    BY <1>1 DEF Chains, FitChain

LEMMA BuildBuilds ==
  ASSUME NEW toks, Ended(toks)
  PROVE  \E f : Builds(f, toks)
  <1> DEFINE n == Len(toks)
             ends == {i \in 1 .. n : Refused(toks, i)}
             base == [i \in 1 .. n |-> <<>>]
             next == [i \in 1 .. n |-> EndAt(toks, i)]
             step == [i \in 1 .. n |->
                        [c \in Chains |-> IF Refused(toks, i) THEN <<>> ELSE Chained(toks, i, c)]]
             rec(g) == [i \in 1 .. n |->
                          IF Refused(toks, i) THEN <<>> ELSE Chained(toks, i, g[EndAt(toks, i)])]
             f == CHOOSE g : g = rec(g)
  <1>1. n \in Nat \ {0}
    BY EndedFacts
  <1>2. \A i \in 1 .. n : ~Refused(toks, i) => EndAt(toks, i) \in i + 1 .. n
    <2>1. ASSUME NEW i \in 1 .. n, ~Refused(toks, i) PROVE EndAt(toks, i) \in i + 1 .. n
      <3>1. /\ BinAt(toks, i) \in i .. n - 1 /\ FilesAt(toks, i) \in BinAt(toks, i) + 1 .. n
            /\ LeftAt(toks, i) \in FilesAt(toks, i) .. n /\ PipesAt(toks, i) \in LeftAt(toks, i) .. n
            /\ EndAt(toks, i) \in PipesAt(toks, i) .. n
        BY <2>1, StageShape
      <3> HIDE DEF n
      <3>2. QED
        BY <1>1, <3>1
    <2>2. QED
      BY <2>1
  <1>3. \A i \in 1 .. n, c \in Chains : ~Refused(toks, i) => Chained(toks, i, c) \in Chains
    BY ChainedFits
  <1>4. base \in [1 .. n -> Chains] /\ step \in [1 .. n -> [Chains -> Chains]]
    <2>1. \A i \in 1 .. n, c \in Chains :
            (IF Refused(toks, i) THEN <<>> ELSE Chained(toks, i, c)) \in Chains
      BY <1>3, EmptyChain
    <2>2. QED
      BY <2>1, EmptyChain
  <1>5. \A i \in 1 .. n : i \notin ends => next[i] \in i + 1 .. n
    BY <1>2
  <1>6. PICK t : Descends(t, 1, n, Chains, ends, base, next, step)
    <2> HIDE DEF n, ends, base, next, step
    <2>1. QED
      BY <1>1, <1>4, <1>5, DownRecursion
  <1>7. t \in [1 .. n -> Chains]
    BY <1>6, Zenon DEF Descends
  <1>8. ASSUME NEW i \in 1 .. n
        PROVE  t[i] = IF Refused(toks, i) THEN <<>> ELSE Chained(toks, i, t[EndAt(toks, i)])
    <2>1. t[i] = IF i \in ends THEN base[i] ELSE step[i][t[next[i]]]
      BY <1>6, Zenon DEF Descends
    <2>2. CASE Refused(toks, i)
      BY <2>1, <2>2
    <2>3. CASE ~Refused(toks, i)
      <3>1. i \notin ends /\ next[i] = EndAt(toks, i) /\ EndAt(toks, i) \in 1 .. n
        <4>1. EndAt(toks, i) \in i + 1 .. n
          BY <1>2, <2>3
        <4>2. EndAt(toks, i) \in 1 .. n
          BY <1>1, <4>1
        <4>3. QED
          BY <2>3, <4>2
      <3>2. t[EndAt(toks, i)] \in Chains
        BY <1>7, <3>1
      <3>3. step[i][t[EndAt(toks, i)]] = Chained(toks, i, t[EndAt(toks, i)])
        BY <2>3, <3>2, Zenon
      <3> HIDE DEF step, next, ends
      <3>4. QED
        BY <2>1, <2>3, <3>1, <3>3, Zenon
    <2>4. QED
      BY <2>2, <2>3
  <1>9. t = rec(t)
    <2> HIDE DEF n
    <2>1. t = [i \in 1 .. n |-> t[i]]
      BY <1>7
    <2>2. QED
      BY <1>8, <2>1, Zenon
  <1>10. f = rec(f)
    <2> HIDE DEF rec
    <2>1. QED
      BY <1>9, Zenon
  <1>11. Build(toks) = f[1]
    BY DEF Build
  <1> HIDE DEF f
  <1>12. \A i \in 1 .. n :
           f[i] = IF Refused(toks, i) THEN <<>> ELSE Chained(toks, i, f[EndAt(toks, i)])
    <2> HIDE DEF n
    <2>1. QED
      BY <1>10, Zenon
  <1> DEFINE E == {i \in 1 .. n : f[i] \in Chains}
  <1>13. ASSUME NEW i \in 1 .. n, i + 1 .. n \subseteq E PROVE i \in E
    <2>1. CASE Refused(toks, i)
      <3>1. f[i] = <<>>
        BY <1>12, <2>1, Zenon
      <3>2. QED
        BY <3>1, EmptyChain
    <2>2. CASE ~Refused(toks, i)
      <3>1. EndAt(toks, i) \in E
        BY <1>2, <1>13, <2>2
      <3>2. f[i] = Chained(toks, i, f[EndAt(toks, i)])
        BY <1>12, <2>2, Zenon
      <3>3. f[EndAt(toks, i)] \in Chains
        BY <3>1
      <3>4. f[i] \in Chains
        BY <1>3, <2>2, <3>2, <3>3, Zenon
      <3>5. QED
        BY <3>4
    <2>3. QED
      BY <2>1, <2>2
  <1>14. 1 .. n \subseteq E
    <2> HIDE DEF E, n
    <2>1. QED
      BY <1>1, <1>13, DownInduction
  <1>15. f \in [1 .. n -> Chains]
    <2>1. \A i \in 1 .. n : f[i] \in Chains
      BY <1>14
    <2>2. f = [i \in 1 .. n |-> f[i]]
      BY <1>10, <1>12, Zenon
    <2> HIDE DEF n, E
    <2>3. QED
      BY <2>1, <2>2
  <1>16. Builds(f, toks)
    BY <1>11, <1>12, <1>15, Zenon DEF Builds, n
  <1>17. QED
    BY <1>16, Zenon

----------------------------------------------------------------------------
(* What build is given: the tokens without the white space between them.   *)
NoSpace(toks) == \A k \in DOMAIN toks : toks[k].kind # "space"
SpelledOut(toks) == Flat([k \in DOMAIN toks |-> Spelled(toks[k])])

LEMMA SpelledType ==
  ASSUME NEW toks \in Seq(AllTokens)
  PROVE  /\ [k \in DOMAIN toks |-> Spelled(toks[k])] \in Seq(Seq(Texts))
         /\ Len([k \in DOMAIN toks |-> Spelled(toks[k])]) = Len(toks)
  <1> DEFINE p == [k \in DOMAIN toks |-> Spelled(toks[k])]
  <1>1. Len(toks) \in Nat /\ DOMAIN toks = 1 .. Len(toks)
    BY LenProperties
  <1>2. ASSUME NEW k \in 1 .. Len(toks) PROVE Spelled(toks[k]) \in Seq(Texts)
    <2>1. toks[k] \in AllTokens
      BY ElementOfSeq
    <2>2. CASE IsLiteral(toks[k])
      <3>1. toks[k].text \in Texts
        BY <2>1, <2>2, KindFacts
      <3>2. QED
        BY <2>2, <3>1 DEF Spelled
    <2>3. CASE ~IsLiteral(toks[k])
      BY <2>3, EmptySeq DEF Spelled
    <2>4. QED
      BY <2>2, <2>3
  <1>3. p \in [1 .. Len(toks) -> Seq(Texts)]
    BY <1>1, <1>2
  <1> HIDE DEF p
  <1>4. p \in Seq(Seq(Texts)) /\ Len(p) = Len(toks)
    BY <1>1, <1>3
  <1>5. QED
    BY <1>4 DEF p

LEMMA ConsTokens ==
  ASSUME NEW S, NEW x \in S, NEW q \in Seq(S)
  PROVE  /\ << x >> \o q \in Seq(S) /\ Len(<< x >> \o q) = Len(q) + 1
         /\ DOMAIN (<< x >> \o q) = 1 .. Len(q) + 1 /\ (<< x >> \o q)[1] = x
         /\ \A k \in 1 .. Len(q) : (<< x >> \o q)[k + 1] = q[k]
  <1>1. << x >> \in Seq(S) /\ Len(<< x >>) = 1 /\ << x >>[1] = x
    OBVIOUS
  <1>2. Len(q) \in Nat
    BY LenProperties
  <1>3. /\ << x >> \o q \in Seq(S) /\ Len(<< x >> \o q) = 1 + Len(q)
        /\ \A k \in 1 .. 1 + Len(q) : (<< x >> \o q)[k] = IF k <= 1 THEN << x >>[k] ELSE q[k - 1]
    BY <1>1, ConcatProperties
  <1>4. DOMAIN (<< x >> \o q) = 1 .. Len(q) + 1
    BY <1>2, <1>3, LenProperties
  <1> DEFINE r == << x >> \o q
  <1> HIDE DEF r
  <1>5. /\ r \in Seq(S) /\ Len(r) = 1 + Len(q) /\ DOMAIN r = 1 .. Len(q) + 1
        /\ \A k \in 1 .. 1 + Len(q) : r[k] = IF k <= 1 THEN << x >>[k] ELSE q[k - 1]
    BY <1>3, <1>4 DEF r
  <1>6. r[1] = x
    BY <1>1, <1>2, <1>5
  <1>7. \A k \in 1 .. Len(q) : r[k + 1] = q[k]
    BY <1>2, <1>5
  <1>8. QED
    BY <1>2, <1>5, <1>6, <1>7 DEF r

(* The pieces s are a first one and p. *)
LEMMA FlatShift ==
  ASSUME NEW S, NEW s \in Seq(Seq(S)), NEW p \in Seq(Seq(S)), Len(s) = Len(p) + 1,
         \A k \in 1 .. Len(p) : s[k + 1] = p[k]
  PROVE  Flat(s) = s[1] \o Flat(p)
  <1> DEFINE c == << s[1] >> \o p
  <1>1. Len(p) \in Nat
    BY LenProperties
  <1>2. s[1] \in Seq(S)
    <2>1. 1 \in 1 .. Len(s)
      BY <1>1
    <2>2. QED
      BY <2>1, ElementOfSeq
  <1>3. /\ c \in Seq(Seq(S)) /\ Len(c) = Len(p) + 1 /\ c[1] = s[1]
        /\ \A k \in 1 .. Len(p) : c[k + 1] = p[k]
    BY <1>2, ConsTokens
  <1>4. Flat(c) = s[1] \o Flat(p)
    BY <1>2, FlatCons
  <1> HIDE DEF c
  <1>5. ASSUME NEW k \in 1 .. Len(s) PROVE s[k] = c[k]
    <2>1. CASE k = 1
      BY <1>3, <2>1
    <2>2. CASE k # 1
      <3>1. PICK l \in 1 .. Len(p) : k = l + 1
        <4>1. k - 1 \in 1 .. Len(p) /\ k = (k - 1) + 1
          BY <1>1, <2>2
        <4>2. QED
          BY <4>1
      <3>2. QED
        BY <1>3, <3>1
    <2>3. QED
      BY <2>1, <2>2
  <1>6. s = c
    BY <1>3, <1>5, SeqEqual
  <1>7. QED
    BY <1>4, <1>6

LEMMA SpelledCons ==
  ASSUME NEW t \in AllTokens, NEW q \in Seq(AllTokens)
  PROVE  SpelledOut(<< t >> \o q) = Spelled(t) \o SpelledOut(q)
  <1> DEFINE r == << t >> \o q
             p == [k \in DOMAIN q |-> Spelled(q[k])]
             s == [k \in DOMAIN r |-> Spelled(r[k])]
  <1>1. /\ r \in Seq(AllTokens) /\ Len(r) = Len(q) + 1 /\ DOMAIN r = 1 .. Len(q) + 1
        /\ r[1] = t /\ \A k \in 1 .. Len(q) : r[k + 1] = q[k]
    BY ConsTokens
  <1> HIDE DEF r
  <1>2. p \in Seq(Seq(Texts)) /\ s \in Seq(Seq(Texts)) /\ Len(p) = Len(q) /\ Len(s) = Len(q) + 1
    BY <1>1, SpelledType
  <1>3. Len(q) \in Nat /\ DOMAIN q = 1 .. Len(q)
    BY LenProperties
  <1>4. s[1] = Spelled(t) /\ \A k \in 1 .. Len(q) : s[k + 1] = p[k]
    BY <1>1, <1>3
  <1>5. SpelledOut(r) = Flat(s) /\ SpelledOut(q) = Flat(p)
    BY Zenon DEF SpelledOut
  <1> HIDE DEF s, p
  <1>6. Flat(s) = s[1] \o Flat(p)
    BY <1>2, <1>4, FlatShift
  <1>7. QED
    BY <1>4, <1>5, <1>6 DEF r

LEMMA EndedCons ==
  ASSUME NEW t \in TokenSet, NEW q, Ended(q)
  PROVE  Ended(<< t >> \o q)
  <1> DEFINE r == << t >> \o q
  <1>1. t \in AllTokens /\ t.kind # "eof" /\ q \in Seq(AllTokens)
    BY TokensNotEof DEF AllTokens, Ended
  <1>2. /\ r \in Seq(AllTokens) /\ Len(r) = Len(q) + 1 /\ DOMAIN r = 1 .. Len(q) + 1
        /\ r[1] = t /\ \A k \in 1 .. Len(q) : r[k + 1] = q[k]
    BY <1>1, ConsTokens
  <1> HIDE DEF r
  <1>3. Len(q) \in Nat \ {0} /\ \A k \in 1 .. Len(q) : q[k].kind = "eof" <=> k = Len(q)
    BY EndedFacts DEF Ended
  <1>4. ASSUME NEW k \in 1 .. Len(q) + 1 PROVE r[k].kind = "eof" <=> k = Len(q) + 1
    <2>1. CASE k = 1
      BY <1>1, <1>2, <1>3, <2>1
    <2>2. CASE k # 1
      <3>1. PICK l \in 1 .. Len(q) : k = l + 1
        <4>1. k - 1 \in 1 .. Len(q) /\ k = (k - 1) + 1
          BY <1>3, <2>2
        <4>2. QED
          BY <4>1
      <3>2. r[k] = q[l]
        BY <1>2, <3>1
      <3>3. l = Len(q) <=> k = Len(q) + 1
        BY <1>3, <3>1
      <3>4. QED
        BY <1>3, <3>2, <3>3
    <2>3. QED
      BY <2>1, <2>2
  <1>5. r # <<>>
    BY <1>2, <1>3, EmptySeq
  <1>6. QED
    BY <1>2, <1>4, <1>5 DEF Ended, r

LEMMA NoSpaceCons ==
  ASSUME NEW t \in AllTokens, t.kind # "space", NEW q \in Seq(AllTokens), NoSpace(q)
  PROVE  NoSpace(<< t >> \o q)
  <1> DEFINE r == << t >> \o q
  <1>1. /\ DOMAIN r = 1 .. Len(q) + 1
        /\ r[1] = t /\ \A k \in 1 .. Len(q) : r[k + 1] = q[k]
    BY ConsTokens
  <1> HIDE DEF r
  <1>2. Len(q) \in Nat /\ DOMAIN q = 1 .. Len(q)
    BY LenProperties
  <1>3. ASSUME NEW k \in 1 .. Len(q) + 1 PROVE r[k].kind # "space"
    <2>1. CASE k = 1
      BY <1>1, <2>1
    <2>2. CASE k # 1
      <3>1. PICK l \in 1 .. Len(q) : k = l + 1
        <4>1. k - 1 \in 1 .. Len(q) /\ k = (k - 1) + 1
          BY <1>2, <2>2
        <4>2. QED
          BY <4>1
      <3>2. QED
        BY <1>1, <1>2, <3>1 DEF NoSpace
    <2>3. QED
      BY <2>1, <2>2
  <1>4. QED
    BY <1>1, <1>3 DEF NoSpace, r

(* The tokens end with EOF too, and they spell the words of the line. *)
LEMMA TokensEnd ==
  ASSUME Ended(stream)
  PROVE  Ended(Tokens) /\ NoSpace(Tokens) /\ SpelledOut(Tokens) = LineWords
  <1> DEFINE n == Len(stream)
             p == [k \in DOMAIN stream |-> Kept(stream[k])]
             s == [k \in DOMAIN stream |-> Spelled(stream[k])]
  <1>1. /\ n \in Nat \ {0} /\ DOMAIN stream = 1 .. n /\ stream \in Seq(AllTokens)
        /\ \A k \in 1 .. n : stream[k] \in AllTokens /\ (stream[k].kind = "eof" <=> k = n)
    BY EndedFacts DEF Ended
  <1>2. p \in Seq(Seq(AllTokens)) /\ Len(p) = n
    <2> HIDE DEF n
    <2>1. ASSUME NEW k \in 1 .. n PROVE Kept(stream[k]) \in Seq(AllTokens)
      <3>1. stream[k] \in AllTokens
        BY <1>1
      <3>2. << stream[k] >> \in Seq(AllTokens) /\ <<>> \in Seq(AllTokens)
        BY <3>1
      <3>3. QED
        BY <3>2, Zenon DEF Kept
    <2>2. p \in [1 .. n -> Seq(AllTokens)]
      BY <1>1, <2>1
    <2> HIDE DEF p
    <2>3. QED
      BY <1>1, <2>2
  <1>3. s \in Seq(Seq(Texts)) /\ Len(s) = n
    BY <1>1, SpelledType
  <1>4. \A k \in 1 .. n : p[k] = Kept(stream[k]) /\ s[k] = Spelled(stream[k])
    BY <1>1
  <1>5. Tokens = Flat(p) /\ LineWords = Flat(s)
    BY Zenon DEF Tokens, LineWords
  <1> HIDE DEF p, s
  <1>6. PICK t : Flattens(t, AllTokens, p)
    BY <1>2, FlatFlattens, Zenon
  <1>7. PICK u : Flattens(u, Texts, s)
    BY <1>3, FlatFlattens, Zenon
  <1>8. /\ t \in [1 .. n + 1 -> Seq(AllTokens)] /\ t[n + 1] = <<>> /\ Tokens = t[1]
        /\ \A k \in 1 .. n : t[k] = Kept(stream[k]) \o t[k + 1]
    BY <1>2, <1>4, <1>5, <1>6 DEF Flattens
  <1>9. /\ u \in [1 .. n + 1 -> Seq(Texts)] /\ u[n + 1] = <<>> /\ LineWords = u[1]
        /\ \A k \in 1 .. n : u[k] = Spelled(stream[k]) \o u[k + 1]
    BY <1>3, <1>4, <1>5, <1>7 DEF Flattens
  <1> HIDE DEF n
  <1> DEFINE Good(k) == Ended(t[k]) /\ NoSpace(t[k]) /\ SpelledOut(t[k]) = u[k]
             E == {k \in 1 .. n : Good(k)}
  <1>10. ASSUME NEW k \in 1 .. n, k + 1 .. n \subseteq E PROVE k \in E
    <2>1. stream[k] \in AllTokens /\ t[k + 1] \in Seq(AllTokens) /\ u[k + 1] \in Seq(Texts)
      <3>1. n \in Nat /\ k \in 1 .. n
        BY <1>1, <1>10
      <3>2. k + 1 \in 1 .. n + 1
        BY <3>1
      <3> HIDE DEF E, Good
      <3>3. stream[k] \in AllTokens
        BY <1>1, <3>1
      <3>4. t[k + 1] \in Seq(AllTokens)
        BY <1>8, <3>2, Zenon
      <3>5. u[k + 1] \in Seq(Texts)
        BY <1>9, <3>2, Zenon
      <3>6. QED
        BY <3>3, <3>4, <3>5
    <2>2. t[k] = Kept(stream[k]) \o t[k + 1] /\ u[k] = Spelled(stream[k]) \o u[k + 1]
      BY <1>8, <1>9
    <2>3. CASE k = n
      <3>1. stream[k].kind = "eof" /\ t[k + 1] = <<>> /\ u[k + 1] = <<>>
        BY <1>1, <1>8, <1>9, <2>3
      <3>2. stream[k] = EOF
        BY <2>1, <3>1 DEF AllTokens, TokenSet
      <3>3. Kept(EOF) = << EOF >> /\ Spelled(EOF) = <<>> /\ EOF \in AllTokens
        BY DEF Kept, Spelled, IsLiteral, EOF, AllTokens
      <3>4. t[k] = << EOF >> /\ u[k] = <<>>
        BY <2>2, <3>1, <3>2, <3>3
      <3>5. Ended(<< EOF >>) /\ NoSpace(<< EOF >>)
        BY <3>3 DEF Ended, NoSpace, EOF
      <3>6. SpelledOut(<< EOF >>) = <<>>
        <4>1. <<>> \in Seq(AllTokens) /\ << EOF >> = << EOF >> \o <<>>
          BY <3>3
        <4>2. SpelledOut(<< EOF >>) = Spelled(EOF) \o SpelledOut(<<>>)
          BY <3>3, <4>1, SpelledCons
        <4>3. SpelledOut(<<>>) = <<>>
          <5>1. [l \in DOMAIN <<>> |-> Spelled(<<>>[l])] = <<>>
            OBVIOUS
          <5>2. QED
            BY <5>1, FlatEmpty DEF SpelledOut
        <4>4. QED
          BY <3>3, <4>2, <4>3
      <3>7. QED
        BY <3>4, <3>5, <3>6
    <2>4. CASE k # n
      <3>1. k + 1 \in E /\ stream[k].kind # "eof"
        BY <1>1, <1>10, <2>4
      <3>2. Ended(t[k + 1]) /\ NoSpace(t[k + 1]) /\ SpelledOut(t[k + 1]) = u[k + 1]
        BY <3>1
      <3>3. stream[k] \in TokenSet
        BY <2>1, <3>1 DEF AllTokens, EOF
      <3> HIDE DEF E
      <3>4. CASE stream[k].kind = "space"
        <4>1. Kept(stream[k]) = <<>> /\ Spelled(stream[k]) = <<>>
          BY <3>4 DEF Kept, Spelled, IsLiteral
        <4>2. t[k] = t[k + 1] /\ u[k] = u[k + 1]
          BY <2>1, <2>2, <4>1, ConcatEmptySeq
        <4>3. QED
          BY <3>2, <4>2 DEF E
      <3>5. CASE stream[k].kind # "space"
        <4>1. t[k] = << stream[k] >> \o t[k + 1]
          BY <2>2, <3>5 DEF Kept
        <4>2. Ended(t[k]) /\ NoSpace(t[k])
          BY <2>1, <3>2, <3>3, <3>5, <4>1, EndedCons, NoSpaceCons
        <4>3. SpelledOut(t[k]) = u[k]
          BY <2>1, <2>2, <3>2, <4>1, SpelledCons
        <4>4. QED
          BY <4>2, <4>3 DEF E
      <3>6. QED
        BY <3>4, <3>5
    <2>5. QED
      BY <2>3, <2>4
  <1>11. 1 .. n \subseteq E
    <2> HIDE DEF E
    <2>1. QED
      BY <1>1, <1>10, DownInduction
  <1>12. 1 \in E
    BY <1>1, <1>11
  <1>13. QED
    BY <1>8, <1>9, <1>12

----------------------------------------------------------------------------
(* The words of a chain, and what follows them in the tokens it is built   *)
(* from.                                                                   *)
Said(c) == Flat([k \in DOMAIN c |-> StageWords(c[k])])

LEMMA TextsAssoc ==
  ASSUME NEW a \in Seq(Texts), NEW b \in Seq(Texts), NEW c \in Seq(Texts)
  PROVE  (a \o b) \o c = a \o (b \o c)
  <1> DEFINE T == Texts
  <1>1. a \in Seq(T) /\ b \in Seq(T) /\ c \in Seq(T)
    OBVIOUS
  <1> HIDE DEF T
  <1>2. QED
    BY <1>1, ConcatAssociative

LEMMA SaidPieces ==
  ASSUME NEW c \in Chains
  PROVE  /\ [k \in DOMAIN c |-> StageWords(c[k])] \in Seq(Seq(Texts))
         /\ Len([k \in DOMAIN c |-> StageWords(c[k])]) = Len(c)
         /\ DOMAIN c = 1 .. Len(c) /\ Len(c) \in Nat
  <1> DEFINE p == [k \in DOMAIN c |-> StageWords(c[k])]
  <1>1. c \in Seq(Stages) /\ FitChain(c)
    BY DEF Chains
  <1>2. DOMAIN c = 1 .. Len(c) /\ Len(c) \in Nat
    BY <1>1, LenProperties
  <1>3. ASSUME NEW k \in 1 .. Len(c) PROVE StageWords(c[k]) \in Seq(Texts)
    <2>1. StageWords(c[k]) \in Seq(Wordy)
      BY <1>1, <1>2, Zenon DEF FitChain
    <2>2. QED
      BY <2>1, TextsInWordy, SeqMonotonic
  <1>4. p \in [1 .. Len(c) -> Seq(Texts)]
    BY <1>2, <1>3
  <1> HIDE DEF p
  <1>5. p \in Seq(Seq(Texts)) /\ Len(p) = Len(c)
    BY <1>2, <1>4
  <1>6. QED
    BY <1>2, <1>5 DEF p

LEMMA SaidType ==
  ASSUME NEW c \in Chains
  PROVE  Said(c) \in Seq(Texts)
  BY SaidPieces, FlatType DEF Said

LEMMA SaidNothing == Said(<<>>) = <<>>
  <1>1. [k \in DOMAIN <<>> |-> StageWords(<<>>[k])] = <<>>
    OBVIOUS
  <1>2. QED
    BY <1>1, FlatEmpty DEF Said

LEMMA SaidCons ==
  ASSUME NEW s \in Stages, NEW c \in Chains, << s >> \o c \in Chains
  PROVE  Said(<< s >> \o c) = StageWords(s) \o Said(c)
  <1> DEFINE r == << s >> \o c
             p == [k \in DOMAIN c |-> StageWords(c[k])]
             q == [k \in DOMAIN r |-> StageWords(r[k])]
  <1>1. /\ Len(r) = Len(c) + 1 /\ DOMAIN r = 1 .. Len(c) + 1
        /\ r[1] = s /\ \A k \in 1 .. Len(c) : r[k + 1] = c[k]
    BY ConsTokens DEF Chains
  <1>2. r \in Chains
    OBVIOUS
  <1> HIDE DEF r
  <1>3. p \in Seq(Seq(Texts)) /\ q \in Seq(Seq(Texts)) /\ Len(p) = Len(c) /\ Len(q) = Len(c) + 1
    BY <1>1, <1>2, SaidPieces
  <1>4. Len(c) \in Nat /\ DOMAIN c = 1 .. Len(c)
    BY SaidPieces
  <1>5. q[1] = StageWords(s) /\ \A k \in 1 .. Len(c) : q[k + 1] = p[k]
    BY <1>1, <1>4
  <1>6. Said(r) = Flat(q) /\ Said(c) = Flat(p)
    BY Zenon DEF Said
  <1> HIDE DEF q, p
  <1>7. Flat(q) = q[1] \o Flat(p)
    BY <1>3, <1>5, FlatShift
  <1>8. QED
    BY <1>5, <1>6, <1>7 DEF r

LEMMA SaidLast ==
  ASSUME NEW s \in Stages, << s >> \in Chains
  PROVE  Said(<< s >>) = StageWords(s)
  <1>1. << s >> \o <<>> = << s >> /\ <<>> \in Chains
    BY EmptyChain
  <1>2. Said(<< s >>) = StageWords(s) \o <<>>
    BY <1>1, SaidCons, SaidNothing
  <1>3. StageWords(s) \in Seq(Wordy)
    <2>1. << s >>[1] = s /\ 1 \in DOMAIN << s >>
      OBVIOUS
    <2>2. FitChain(<< s >>)
      BY DEF Chains
    <2>3. QED
      BY <2>1, <2>2 DEF FitChain
  <1>4. QED
    BY <1>2, <1>3, ConcatEmptySeq

(* The words of the tokens from each of them on. *)
WordsFrom(w, toks) ==
  /\ w \in [1 .. Len(toks) + 1 -> Seq(Texts)] /\ w[Len(toks) + 1] = <<>> /\ SpelledOut(toks) = w[1]
  /\ \A k \in 1 .. Len(toks) : w[k] = Spelled(toks[k]) \o w[k + 1]

LEMMA WordsFromExist ==
  ASSUME NEW toks, Ended(toks)
  PROVE  \E w : WordsFrom(w, toks)
  <1> DEFINE p == [k \in DOMAIN toks |-> Spelled(toks[k])]
  <1>1. toks \in Seq(AllTokens) /\ DOMAIN toks = 1 .. Len(toks)
    BY EndedFacts DEF Ended
  <1>2. p \in Seq(Seq(Texts)) /\ Len(p) = Len(toks)
    BY <1>1, SpelledType
  <1>3. SpelledOut(toks) = Flat(p) /\ \A k \in 1 .. Len(toks) : p[k] = Spelled(toks[k])
    BY <1>1 DEF SpelledOut
  <1> HIDE DEF p
  <1>4. PICK w : Flattens(w, Texts, p)
    BY <1>2, FlatFlattens, Zenon
  <1>5. WordsFrom(w, toks)
    BY <1>2, <1>3, <1>4 DEF Flattens, WordsFrom
  <1>6. QED
    BY <1>5, Zenon

(* A token that is no word adds none. *)
LEMMA WordlessRun ==
  ASSUME NEW toks, Ended(toks), NEW w, WordsFrom(w, toks),
         NEW a \in 1 .. Len(toks), NEW b \in a .. Len(toks),
         \A k \in a .. b - 1 : ~IsLiteral(toks[k])
  PROVE  w[a] = w[b]
  <1> DEFINE n == Len(toks)
             E == {k \in a .. b : w[k] = w[b]}
  <1>1. n \in Nat /\ a \in Nat /\ b \in Nat
    BY EndedFacts
  <1>2. /\ w \in [1 .. n + 1 -> Seq(Texts)]
        /\ \A k \in 1 .. n : w[k] = Spelled(toks[k]) \o w[k + 1]
    BY DEF WordsFrom
  <1>3. ASSUME NEW k \in a .. b, k + 1 .. b \subseteq E PROVE k \in E
    <2>1. CASE k = b
      BY <2>1
    <2>2. CASE k # b
      <3>1. k \in a .. b - 1 /\ k \in 1 .. n /\ k + 1 \in 1 .. n + 1 /\ k + 1 \in k + 1 .. b
        BY <1>1, <2>2
      <3>2. w[k + 1] = w[b]
        BY <1>3, <3>1
      <3>3. Spelled(toks[k]) = <<>>
        BY <3>1 DEF Spelled
      <3>4. w[k + 1] \in Seq(Texts)
        BY <1>2, <3>1
      <3>5. w[k] = <<>> \o w[k + 1]
        BY <1>2, <3>1, <3>3, Zenon
      <3>6. w[k] = w[b]
        BY <3>2, <3>4, <3>5, ConcatEmptySeq
      <3>7. QED
        BY <3>6
    <2>3. QED
      BY <2>1, <2>2
  <1>4. a .. b \subseteq E
    <2> HIDE DEF E
    <2>1. QED
      BY <1>1, <1>3, DownInduction
  <1>5. a \in E
    BY <1>1, <1>4
  <1>6. QED
    BY <1>5

(* One after the other, words are the words they spell. *)
LEMMA LiteralRun ==
  ASSUME NEW toks, Ended(toks), NEW w, WordsFrom(w, toks),
         NEW a \in 1 .. Len(toks), NEW b \in a .. Len(toks),
         \A k \in a .. b - 1 : IsLiteral(toks[k])
  PROVE  w[a] = Words(toks, a, b) \o w[b]
  <1> DEFINE n == Len(toks)
             E == {k \in a .. b : w[k] = Words(toks, k, b) \o w[b]}
  <1>1. n \in Nat /\ a \in Nat /\ b \in Nat
    BY EndedFacts
  <1>2. /\ w \in [1 .. n + 1 -> Seq(Texts)]
        /\ \A k \in 1 .. n : w[k] = Spelled(toks[k]) \o w[k + 1]
    BY DEF WordsFrom
  <1>3. w[b] \in Seq(Texts)
    BY <1>1, <1>2
  <1>4. ASSUME NEW k \in a .. b
        PROVE  /\ Words(toks, k, b) \in Seq(Texts) /\ Len(Words(toks, k, b)) = b - k
               /\ \A l \in 1 .. b - k : Words(toks, k, b)[l] = toks[k + l - 1].text
    <2>1. k \in 1 .. Len(toks) /\ b \in k .. Len(toks) /\ \A l \in k .. b - 1 : l \in a .. b - 1
      BY <1>1
    <2>2. \A l \in k .. b - 1 : IsLiteral(toks[l])
      BY <2>1
    <2>3. /\ Words(toks, k, b) \in Seq(Wordy) /\ Len(Words(toks, k, b)) = b - k
          /\ \A l \in 1 .. b - k : Words(toks, k, b)[l] = toks[k + l - 1].text
      BY <2>1, <2>2, WordsType
    <2>4. QED
      BY <2>3, TextsInWordy, SeqMonotonic
  <1>5. ASSUME NEW k \in a .. b, k + 1 .. b \subseteq E PROVE k \in E
    <2>1. CASE k = b
      <3>1. Words(toks, b, b) \in Seq(Texts) /\ Len(Words(toks, b, b)) = 0
        BY <1>1, <1>4, <2>1
      <3>2. Words(toks, b, b) = <<>>
        BY <3>1, EmptySeq
      <3>3. w[b] = <<>> \o w[b]
        BY <1>3, ConcatEmptySeq
      <3>4. QED
        BY <2>1, <3>2, <3>3
    <2>2. CASE k # b
      <3>1. k \in a .. b - 1 /\ k \in 1 .. n /\ k + 1 \in k + 1 .. b /\ k + 1 \in a .. b
        BY <1>1, <2>2
      <3>2. w[k + 1] = Words(toks, k + 1, b) \o w[b]
        BY <1>5, <3>1
      <3>3. Spelled(toks[k]) = << toks[k].text >> /\ toks[k].text \in Texts
        <4>1. IsLiteral(toks[k])
          BY <3>1
        <4>2. toks[k].text \in Wordy
          BY <3>1, <4>1, LiteralText
        <4>3. QED
          BY <4>1, <4>2, TextsInWordy DEF Spelled
      <3>4. w[k] = << toks[k].text >> \o (Words(toks, k + 1, b) \o w[b])
        BY <1>2, <3>1, <3>2, <3>3, Zenon
      <3> DEFINE v == Words(toks, k + 1, b)
                 u == Words(toks, k, b)
                 c == << toks[k].text >> \o v
      <3>5. /\ v \in Seq(Texts) /\ Len(v) = b - (k + 1)
            /\ \A l \in 1 .. b - (k + 1) : v[l] = toks[(k + 1) + l - 1].text
        BY <1>4, <3>1
      <3>6. /\ u \in Seq(Texts) /\ Len(u) = b - k
            /\ \A l \in 1 .. b - k : u[l] = toks[k + l - 1].text
        BY <1>4, <3>1
      <3>7. << toks[k].text >> \in Seq(Texts)
        BY <3>3
      <3> HIDE DEF u, v
      <3>8. /\ c \in Seq(Texts) /\ Len(c) = Len(v) + 1 /\ c[1] = toks[k].text
            /\ \A l \in 1 .. Len(v) : c[l + 1] = v[l]
        BY <3>3, <3>5, ConsTokens
      <3>9. w[k] = c \o w[b]
        <4>1. w[k] = << toks[k].text >> \o (v \o w[b])
          BY <3>4, Zenon DEF v
        <4>2. v \in Seq(Texts)
          BY <3>5
        <4>3. (<< toks[k].text >> \o v) \o w[b] = << toks[k].text >> \o (v \o w[b])
          BY <1>3, <3>7, <4>2, TextsAssoc, Zenon
        <4>4. QED
          BY <4>1, <4>3, Zenon
      <3> HIDE DEF c
      <3>10. u = c
        <4>1. k \in Nat
          BY <1>1
        <4>2. ASSUME NEW l \in 1 .. Len(u) PROVE u[l] = c[l]
          <5>1. l \in 1 .. b - k
            BY <3>6
          <5>2. u[l] = toks[k + l - 1].text
            BY <3>6, <5>1, Zenon
          <5>3. CASE l = 1
            <6>1. k + l - 1 = k
              BY <4>1, <5>3
            <6>2. QED
              BY <3>8, <5>2, <5>3, <6>1
          <5>4. CASE l # 1
            <6>1. PICK m \in 1 .. Len(v) : l = m + 1
              <7>1. l - 1 \in 1 .. b - (k + 1) /\ l = (l - 1) + 1
                BY <1>1, <4>1, <5>1, <5>4
              <7>2. QED
                BY <3>5, <7>1
            <6>2. c[l] = v[m] /\ m \in 1 .. b - (k + 1)
              BY <3>5, <3>8, <6>1
            <6>3. v[m] = toks[(k + 1) + m - 1].text
              BY <3>5, <6>2
            <6>4. (k + 1) + m - 1 = k + l - 1
              BY <4>1, <6>1
            <6>5. QED
              BY <5>2, <6>2, <6>3, <6>4
          <5>5. QED
            BY <5>3, <5>4
        <4>3. Len(u) = Len(c)
          BY <1>1, <3>5, <3>6, <3>8, <4>1
        <4>4. QED
          BY <3>6, <3>8, <4>2, <4>3, SeqEqual
      <3>11. w[k] = Words(toks, k, b) \o w[b]
        BY <3>9, <3>10 DEF u
      <3>12. QED
        BY <3>11
    <2>3. QED
      BY <2>1, <2>2
  <1>6. a .. b \subseteq E
    <2> HIDE DEF E
    <2>1. QED
      BY <1>1, <1>5, DownInduction
  <1>7. a \in E
    BY <1>1, <1>6
  <1>8. QED
    BY <1>7

(* Redirections spell the words that are their files. *)
LEMMA RedirStep ==
  ASSUME NEW toks, Ended(toks), NEW w, WordsFrom(w, toks), NEW i \in 1 .. Len(toks),
         i + 2 <= Len(toks), IsRedir(toks[i]), IsLiteral(toks[i + 1])
  PROVE  w[i] = << toks[i + 1].text >> \o w[i + 2] /\ toks[i + 1].text \in Wordy
  <1>1. Len(toks) \in Nat /\ i \in Nat
    BY EndedFacts
  <1>2. /\ w \in [1 .. Len(toks) + 1 -> Seq(Texts)]
        /\ \A k \in 1 .. Len(toks) : w[k] = Spelled(toks[k]) \o w[k + 1]
    BY DEF WordsFrom
  <1>3. i + 1 \in 1 .. Len(toks) /\ i + 1 \in 1 .. Len(toks) + 1 /\ (i + 1) + 1 = i + 2
    BY <1>1
  <1>4. ~IsLiteral(toks[i])
    BY DEF IsLiteral, IsRedir
  <1>5. Spelled(toks[i]) = <<>> /\ Spelled(toks[i + 1]) = << toks[i + 1].text >>
    BY <1>4 DEF Spelled
  <1>6. w[i] = <<>> \o w[i + 1] /\ w[i + 1] = << toks[i + 1].text >> \o w[(i + 1) + 1]
    BY <1>2, <1>3, <1>5, Zenon
  <1>7. w[i + 1] \in Seq(Texts)
    BY <1>2, <1>3, Zenon
  <1>8. w[i] = w[i + 1]
    BY <1>6, <1>7, ConcatEmptySeq
  <1>9. toks[i + 1].text \in Wordy
    BY <1>3, LiteralText
  <1>10. QED
    BY <1>3, <1>6, <1>8, <1>9

LEMMA FilesOfRun ==
  ASSUME NEW toks, Ended(toks), NEW i \in 1 .. Len(toks), NEW j \in i .. Len(toks),
         FilesRun(toks, i, j)
  PROVE  /\ Files(Redirs(toks, i, j)) \in Seq(Texts)
         /\ Len(Files(Redirs(toks, i, j))) = (j - i) \div 2
         /\ \A k \in 1 .. (j - i) \div 2 :
              Files(Redirs(toks, i, j))[k] = toks[i + 2 * k - 1].text
  <1> DEFINE rs == Redirs(toks, i, j)
  <1>1. /\ rs \in Seq(RedirSet) /\ Len(rs) = (j - i) \div 2
        /\ \A k \in 1 .. (j - i) \div 2 : rs[k].file = toks[i + 2 * k - 1].text
    BY RedirsType
  <1> HIDE DEF rs
  <1>2. DOMAIN rs = 1 .. Len(rs)
    BY <1>1, LenProperties
  <1>3. Files(rs) \in Seq(Wordy) /\ Len(Files(rs)) = Len(rs)
    BY <1>1, FilesType
  <1>4. \A k \in 1 .. Len(rs) : Files(rs)[k] = rs[k].file
    BY <1>2 DEF Files
  <1>5. Files(rs) \in Seq(Texts)
    BY <1>3, TextsInWordy, SeqMonotonic
  <1>6. QED
    BY <1>1, <1>3, <1>4, <1>5 DEF rs

LEMMA FilesSpell ==
  ASSUME NEW toks, Ended(toks), NEW w, WordsFrom(w, toks),
         NEW a \in 1 .. Len(toks), NEW b \in a .. Len(toks), FilesRun(toks, a, b)
  PROVE  w[a] = Files(Redirs(toks, a, b)) \o w[b]
  <1> DEFINE n == Len(toks)
             F(i) == Files(Redirs(toks, i, b))
             Good(i) == w[i] = F(i) \o w[b]
             E == {i \in a .. b : FilesRun(toks, i, b) => Good(i)}
  <1>1. n \in Nat /\ a \in Nat /\ b \in Nat
    BY EndedFacts
  <1>2. w[b] \in Seq(Texts)
    <2>1. b \in 1 .. n + 1
      BY <1>1
    <2>2. QED
      BY <2>1 DEF WordsFrom
  <1>3. ASSUME NEW i \in a .. b, i + 1 .. b \subseteq E PROVE i \in E
    <2>1. SUFFICES ASSUME FilesRun(toks, i, b) PROVE Good(i)
      OBVIOUS
    <2>2. i \in 1 .. Len(toks) /\ b \in i .. Len(toks) /\ i \in Nat
      BY <1>1
    <2>3. /\ F(i) \in Seq(Texts) /\ Len(F(i)) = (b - i) \div 2
          /\ \A k \in 1 .. (b - i) \div 2 : F(i)[k] = toks[i + 2 * k - 1].text
      BY <2>1, <2>2, FilesOfRun
    <2>4. CASE i = b
      <3>1. Len(F(i)) = 0
        BY <1>1, <2>3, <2>4
      <3> HIDE DEF F
      <3>2. F(i) = <<>>
        BY <2>3, <3>1, EmptySeq
      <3>3. QED
        BY <1>2, <2>4, <3>2, ConcatEmptySeq
    <2>5. CASE i # b
      <3>1. b - i \in Nat /\ (b - i) % 2 = 0
        BY <1>1, <2>1, <2>2 DEF FilesRun
      <3>2. PICK m \in Nat : b - i = 2 * m
        <4>1. (b - i) \div 2 \in Nat /\ b - i = 2 * ((b - i) \div 2)
          BY <3>1
        <4>2. QED
          BY <4>1
      <3>3. m >= 1 /\ i + 2 \in i + 1 .. b /\ i + 2 \in a .. b /\ b - (i + 2) = 2 * (m - 1)
        BY <1>1, <2>2, <2>5, <3>2
      <3>4. i \in i .. b - 1 /\ i + 1 \in i .. b - 1 /\ (i - i) % 2 = 0 /\ ((i + 1) - i) % 2 # 0
        BY <1>1, <2>2, <3>2, <3>3
      <3>5. IsRedir(toks[i]) /\ IsLiteral(toks[i + 1])
        <4>1. \A k \in i .. b - 1 : IF (k - i) % 2 = 0 THEN IsRedir(toks[k]) ELSE IsLiteral(toks[k])
          BY <2>1, Zenon DEF FilesRun
        <4>2. QED
          BY <3>4, <4>1, Zenon
      <3>6. FilesRun(toks, i + 2, b)
        <4>1. (b - (i + 2)) % 2 = 0
          BY <3>2, <3>3
        <4>2. ASSUME NEW k \in i + 2 .. b - 1
              PROVE  IF (k - (i + 2)) % 2 = 0 THEN IsRedir(toks[k]) ELSE IsLiteral(toks[k])
          <5>1. k \in i .. b - 1
            BY <1>1, <2>2
          <5>2. (k - i) % 2 = 0 <=> (k - (i + 2)) % 2 = 0
            BY <1>1, <2>2
          <5>3. IF (k - i) % 2 = 0 THEN IsRedir(toks[k]) ELSE IsLiteral(toks[k])
            BY <2>1, <5>1, Zenon DEF FilesRun
          <5>4. QED
            BY <5>2, <5>3
        <4>3. QED
          BY <4>1, <4>2, Zenon DEF FilesRun
      <3>7. w[i + 2] = F(i + 2) \o w[b]
        BY <1>3, <3>3, <3>6
      <3>8. w[i] = << toks[i + 1].text >> \o w[i + 2] /\ toks[i + 1].text \in Texts
        <4>1. i + 2 <= Len(toks)
          BY <1>1, <3>3
        <4>2. QED
          BY <2>2, <3>5, <4>1, RedirStep, TextsInWordy
      <3>9. /\ F(i + 2) \in Seq(Texts) /\ Len(F(i + 2)) = m - 1
            /\ \A k \in 1 .. m - 1 : F(i + 2)[k] = toks[(i + 2) + 2 * k - 1].text
        <4>1. i + 2 \in 1 .. Len(toks) /\ b \in i + 2 .. Len(toks)
          BY <1>1, <2>2, <3>3
        <4>2. /\ F(i + 2) \in Seq(Texts) /\ Len(F(i + 2)) = (b - (i + 2)) \div 2
              /\ \A k \in 1 .. (b - (i + 2)) \div 2 : F(i + 2)[k] = toks[(i + 2) + 2 * k - 1].text
          BY <3>6, <4>1, FilesOfRun
        <4>3. (b - (i + 2)) \div 2 = m - 1
          BY <3>2, <3>3
        <4>4. QED
          BY <4>2, <4>3
      <3>10. /\ F(i) \in Seq(Texts) /\ Len(F(i)) = m
             /\ \A k \in 1 .. m : F(i)[k] = toks[i + 2 * k - 1].text
        <4>1. (b - i) \div 2 = m
          BY <3>2
        <4>2. QED
          BY <2>3, <4>1
      <3> HIDE DEF F
      <3> DEFINE c == << toks[i + 1].text >> \o F(i + 2)
      <3>11. /\ c \in Seq(Texts) /\ Len(c) = Len(F(i + 2)) + 1 /\ c[1] = toks[i + 1].text
             /\ \A k \in 1 .. Len(F(i + 2)) : c[k + 1] = F(i + 2)[k]
        BY <3>8, <3>9, ConsTokens
      <3>12. w[i] = c \o w[b]
        <4>1. << toks[i + 1].text >> \in Seq(Texts)
          BY <3>8
        <4>2. (<< toks[i + 1].text >> \o F(i + 2)) \o w[b]
              = << toks[i + 1].text >> \o (F(i + 2) \o w[b])
          BY <1>2, <3>9, <4>1, TextsAssoc, Zenon
        <4>3. QED
          BY <3>7, <3>8, <4>2, Zenon
      <3> HIDE DEF c
      <3>13. F(i) = c
        <4>1. ASSUME NEW k \in 1 .. m PROVE F(i)[k] = c[k]
          <5>1. F(i)[k] = toks[i + 2 * k - 1].text
            BY <3>10
          <5>2. CASE k = 1
            <6>1. i + 2 * k - 1 = i + 1
              BY <2>2, <5>2
            <6>2. QED
              BY <3>11, <5>1, <5>2, <6>1
          <5>3. CASE k # 1
            <6>1. PICK l \in 1 .. m - 1 : k = l + 1
              <7>1. k - 1 \in 1 .. m - 1 /\ k = (k - 1) + 1
                BY <3>2, <5>3
              <7>2. QED
                BY <7>1
            <6>2. c[k] = F(i + 2)[l] /\ F(i + 2)[l] = toks[(i + 2) + 2 * l - 1].text
              BY <3>9, <3>11, <6>1
            <6>3. (i + 2) + 2 * l - 1 = i + 2 * k - 1
              BY <2>2, <6>1
            <6>4. QED
              BY <5>1, <6>2, <6>3
          <5>4. QED
            BY <5>2, <5>3
        <4>2. Len(F(i)) = m /\ Len(c) = m
          BY <3>2, <3>9, <3>10, <3>11
        <4>3. QED
          BY <3>10, <3>11, <4>1, <4>2, SeqEqual
      <3>14. QED
        BY <3>12, <3>13
    <2>6. QED
      BY <2>4, <2>5
  <1>4. a .. b \subseteq E
    <2> HIDE DEF E
    <2>1. QED
      BY <1>1, <1>3, DownInduction
  <1>5. a \in E
    BY <1>1, <1>4
  <1>6. QED
    BY <1>5

(* The words of the stage at i, then those from its end on. *)
LEMMA StageSpells ==
  ASSUME NEW toks, Ended(toks), NEW w, WordsFrom(w, toks), NEW i \in 1 .. Len(toks),
         ~Refused(toks, i), NEW links \in SUBSET LinkSet
  PROVE  w[i] = StageWords(StageAt(toks, i, links)) \o w[EndAt(toks, i)]
  <1> DEFINE n == Len(toks)
             bin == BinAt(toks, i)
             files == FilesAt(toks, i)
             left == LeftAt(toks, i)
             pipes == PipesAt(toks, i)
             end == EndAt(toks, i)
             env == Words(toks, i, bin)
             args == Words(toks, bin + 1, files)
             named == Files(Redirs(toks, files, left))
             one == << toks[bin].text >>
  <1>1. /\ bin \in i .. n - 1 /\ \A k \in i .. bin : IsLiteral(toks[k])
        /\ files \in bin + 1 .. n /\ \A k \in bin + 1 .. files - 1 : IsLiteral(toks[k])
        /\ left \in files .. n /\ FilesRun(toks, files, left)
        /\ pipes \in left .. n /\ pipes = (IF IsRedir(toks[left]) THEN left + 1 ELSE left)
        /\ end \in pipes .. n /\ \A k \in pipes .. end - 1 : IsPipe(toks[k])
    BY StageShape
  <1>2. n \in Nat /\ i \in Nat
    BY EndedFacts
  <1>3. StageWords(StageAt(toks, i, links)) = ((env \o one) \o args) \o named
    BY StageGood, Zenon
  <1> HIDE DEF bin, files, left, pipes, end, n
  <1>4. /\ bin \in Nat /\ files \in Nat /\ left \in Nat /\ pipes \in Nat /\ end \in Nat
        /\ bin \in 1 .. n /\ bin + 1 \in 1 .. n /\ files \in 1 .. n /\ left \in 1 .. n
        /\ pipes \in 1 .. n /\ end \in 1 .. n /\ end \in left .. n /\ bin \in i .. n
        /\ bin \in i .. bin
    BY <1>1, <1>2
  <1>5. w \in [1 .. n + 1 -> Seq(Texts)] /\ \A k \in 1 .. n : w[k] = Spelled(toks[k]) \o w[k + 1]
    BY DEF WordsFrom, n
  <1>6. w[bin] = one \o w[bin + 1] /\ toks[bin].text \in Wordy
    <2>1. IsLiteral(toks[bin])
      BY <1>1, <1>4
    <2>2. Spelled(toks[bin]) = one
      BY <2>1 DEF Spelled
    <2>3. toks[bin].text \in Wordy
      BY <1>4, <2>1, LiteralText DEF n
    <2>4. QED
      BY <1>4, <1>5, <2>2, <2>3, Zenon
  <1>7. w[i] = env \o w[bin] /\ env \in Seq(Wordy)
    <2>1. \A k \in i .. bin - 1 : k \in i .. bin
      BY <1>2, <1>4
    <2>2. \A k \in i .. bin - 1 : IsLiteral(toks[k])
      BY <1>1, <2>1
    <2>3. bin \in i .. Len(toks)
      BY <1>4 DEF n
    <2>4. QED
      BY <2>2, <2>3, LiteralRun, WordsType
  <1>8. w[bin + 1] = args \o w[files] /\ args \in Seq(Wordy)
    <2>1. bin + 1 \in 1 .. Len(toks) /\ files \in bin + 1 .. Len(toks)
      BY <1>1, <1>4 DEF n
    <2>2. \A k \in bin + 1 .. files - 1 : IsLiteral(toks[k])
      BY <1>1
    <2>3. w[bin + 1] = args \o w[files]
      BY <2>1, <2>2, LiteralRun, Zenon
    <2>4. args \in Seq(Wordy)
      BY <2>1, <2>2, WordsType, Zenon
    <2>5. QED
      BY <2>3, <2>4
  <1>9. w[files] = named \o w[left] /\ named \in Seq(Texts)
    <2>1. files \in 1 .. Len(toks) /\ left \in files .. Len(toks)
      BY <1>1, <1>4 DEF n
    <2>2. QED
      BY <1>1, <2>1, FilesSpell, FilesOfRun
  <1>10. w[left] = w[end]
    <2>1. ASSUME NEW k \in left .. end - 1 PROVE ~IsLiteral(toks[k])
      <3>1. CASE k \in pipes .. end - 1
        BY <1>1, <3>1 DEF IsPipe, IsLiteral
      <3>2. CASE k \notin pipes .. end - 1
        <4>1. pipes # left
          BY <1>4, <3>2
        <4>2. IsRedir(toks[left]) /\ pipes = left + 1
          BY <1>1, <4>1
        <4>3. k = left
          BY <1>4, <3>2, <4>2
        <4>4. QED
          BY <4>2, <4>3 DEF IsRedir, IsLiteral
      <3>3. QED
        BY <3>1, <3>2
    <2>2. left \in 1 .. Len(toks) /\ end \in left .. Len(toks)
      BY <1>4 DEF n
    <2>3. QED
      BY <2>1, <2>2, WordlessRun
  <1> HIDE DEF env, args, named
  <1>11. env \in Seq(Texts) /\ args \in Seq(Texts) /\ one \in Seq(Texts) /\ named \in Seq(Texts)
    <2>1. env \in Seq(Texts) /\ args \in Seq(Texts)
      BY <1>7, <1>8, TextsInWordy, SeqMonotonic
    <2>2. one \in Seq(Texts)
      BY <1>6, TextsInWordy
    <2>3. QED
      BY <1>9, <2>1, <2>2
  <1>12. w[end] \in Seq(Texts)
    <2>1. end \in 1 .. n + 1
      BY <1>2, <1>4
    <2>2. QED
      BY <1>5, <2>1, Zenon
  <1> HIDE DEF one
  <1> DEFINE rest == w[end]
  <1>13. w[i] = env \o (one \o (args \o (named \o rest)))
    BY <1>6, <1>7, <1>8, <1>9, <1>10, Zenon
  <1> HIDE DEF rest
  <1>14. rest \in Seq(Texts)
    BY <1>12 DEF rest
  <1>15. env \o one \in Seq(Texts) /\ args \o (named \o rest) \in Seq(Texts) /\ named \o rest \in Seq(Texts)
    BY <1>11, <1>14, ConcatProperties
  <1>16. env \o (one \o (args \o (named \o rest))) = (env \o one) \o (args \o (named \o rest))
    <2> DEFINE tail == args \o (named \o rest)
    <2>1. env \in Seq(Texts) /\ one \in Seq(Texts) /\ tail \in Seq(Texts)
      BY <1>11, <1>15
    <2> HIDE DEF tail
    <2>2. (env \o one) \o tail = env \o (one \o tail)
      BY <2>1, TextsAssoc, Zenon
    <2>3. QED
      BY <2>2 DEF tail
  <1> DEFINE head == env \o one
  <1>17. head \in Seq(Texts) /\ args \in Seq(Texts) /\ named \in Seq(Texts) /\ named \o rest \in Seq(Texts)
    BY <1>11, <1>15
  <1> HIDE DEF head
  <1>18. head \o args \in Seq(Texts) /\ head \o (args \o (named \o rest)) = (head \o args) \o (named \o rest)
    <2>1. head \o args \in Seq(Texts)
      BY <1>17, ConcatProperties
    <2> DEFINE tail == named \o rest
    <2>2. tail \in Seq(Texts)
      BY <1>17
    <2> HIDE DEF tail
    <2>3. (head \o args) \o tail = head \o (args \o tail)
      BY <1>17, <2>2, TextsAssoc, ZenonT(60)
    <2>4. QED
      BY <2>1, <2>3 DEF tail
  <1>19. (head \o args) \o (named \o rest) = ((head \o args) \o named) \o rest
    BY <1>14, <1>17, <1>18, TextsAssoc, Zenon
  <1>20. w[i] = StageWords(StageAt(toks, i, links)) \o rest
    BY <1>3, <1>13, <1>16, <1>18, <1>19, Zenon DEF head
  <1>21. QED
    BY <1>20 DEF rest, end

(* In tokens of the documented shape a command follows every pipe, and     *)
(* there is nothing between a stage and its pipes.                         *)
LEMMA ShapedStage ==
  ASSUME NEW toks, Ended(toks), NoSpace(toks), Shaped(toks),
         NEW i \in 1 .. Len(toks), IsLiteral(toks[i])
  PROVE  /\ ~Refused(toks, i)
         /\ EndAt(toks, i) = PipesAt(toks, i) => EndAt(toks, i) = Len(toks)
         /\ EndAt(toks, i) # PipesAt(toks, i) => IsLiteral(toks[EndAt(toks, i)])
  <1> DEFINE n == Len(toks)
             bin == BinAt(toks, i)
             files == FilesAt(toks, i)
             left == LeftAt(toks, i)
             pipes == PipesAt(toks, i)
             end == EndAt(toks, i)
             assignments == {k \in DOMAIN toks : IsAssignment(toks[k])}
             literals == {k \in DOMAIN toks : IsLiteral(toks[k])}
  <1>1. /\ n \in Nat \ {0} /\ DOMAIN toks = 1 .. n /\ i \in Nat
        /\ ~IsLiteral(toks[n]) /\ ~IsPipe(toks[n]) /\ ~IsRedir(toks[n])
        /\ n \notin assignments /\ n \notin literals
        /\ assignments \subseteq 1 .. n /\ literals \subseteq 1 .. n
        /\ \A k \in 1 .. n : toks[k] \in AllTokens /\ (toks[k].kind = "eof" => k = n)
    BY EndedFacts
  <1>2. \A k \in 1 .. n - 1 :
          /\ IsRedir(toks[k]) => IsLiteral(toks[k + 1])
          /\ IsPipe(toks[k]) => IsPipe(toks[k + 1]) \/ IsLiteral(toks[k + 1])
          /\ IsRedir(toks[k]) => k + 2 <= n /\ ~IsLiteral(toks[k + 2])
          /\ IsAssignment(toks[k]) => IsLiteral(toks[k + 1])
    BY Zenon DEF Shaped, n
  <1>3. bin = Collect(i, assignments) /\ files = Collect(bin + 1, literals)
        /\ left = FilesEnd(toks, files)
    BY Zenon DEF BinAt, FilesAt, LeftAt
  <1> HIDE DEF bin, files, left, pipes, end, n
  <1>4. n \in Nat /\ n # 0 /\ i \in Nat /\ i \in 1 .. n
    BY <1>1 DEF n
  <1>5. bin \in i .. n /\ \A k \in i .. bin - 1 : k \in assignments
    <2>1. FirstOut(bin, i, n, assignments)
      <3> HIDE DEF assignments
      <3>1. QED
        BY <1>1, <1>3, CollectStops DEF n
    <2>2. QED
      BY <2>1 DEF FirstOut
  <1>6. IsLiteral(toks[bin])
    <2>1. CASE bin = i
      BY <2>1
    <2>2. CASE bin # i
      <3>1. PICK k \in i .. bin - 1 : bin = k + 1
        <4>1. bin \in i .. n
          BY <1>5
        <4>2. bin - 1 \in i .. bin - 1 /\ bin = (bin - 1) + 1
          BY <1>4, <2>2, <4>1
        <4>3. QED
          BY <4>2
      <3>2. k \in 1 .. n - 1 /\ IsAssignment(toks[k])
        <4>1. bin \in i .. n /\ k \in assignments
          BY <1>5
        <4>2. k \in 1 .. n - 1
          BY <1>4, <3>1, <4>1
        <4>3. QED
          BY <4>1, <4>2
      <3>3. QED
        BY <1>2, <3>1, <3>2
    <2>3. QED
      BY <2>1, <2>2
  <1>7. bin \in i .. n - 1 /\ bin + 1 \in 1 .. n
    <2>1. bin # n
      BY <1>1, <1>6
    <2>2. bin \in i .. n
      BY <1>5
    <2>3. QED
      BY <1>4, <2>1, <2>2
  <1>8. files \in 1 .. n
    <2>1. FirstOut(files, bin + 1, n, literals)
      <3> HIDE DEF literals
      <3>1. PICK j \in 1 .. n : j = bin + 1
        BY <1>7
      <3>2. FirstOut(Collect(j, literals), j, n, literals)
        BY <1>1, CollectStops DEF n
      <3>3. QED
        BY <1>3, <3>1, <3>2
    <2>2. files \in bin + 1 .. n
      BY <2>1 DEF FirstOut
    <2>3. QED
      BY <1>7, <1>4, <2>2
  <1>9. /\ left \in files .. n /\ FilesRun(toks, files, left)
        /\ ~(IsRedir(toks[left]) /\ IsLiteral(toks[left + 1]))
    BY <1>3, <1>8, FilesStop DEF n
  <1>10. ~IsRedir(toks[left])
    <2>1. SUFFICES ASSUME IsRedir(toks[left]) PROVE FALSE
      OBVIOUS
    <2>2. left # n
      BY <1>1, <2>1
    <2>3. left \in 1 .. n - 1
      <3>1. left \in files .. n
        BY <1>9
      <3>2. QED
        BY <1>8, <1>4, <2>2, <3>1
    <2>4. QED
      BY <1>2, <1>9, <2>1, <2>3
  <1>11. ~Refused(toks, i)
    BY <1>6, <1>10 DEF Refused, bin, left
  <1>12. /\ ~IsLiteral(toks[files]) /\ pipes = left /\ end \in pipes .. n
         /\ \A k \in pipes .. end - 1 : IsPipe(toks[k])
         /\ ~IsPipe(toks[end])
    <2>1. /\ ~IsLiteral(toks[files]) /\ pipes = IF IsRedir(toks[left]) THEN left + 1 ELSE left
          /\ end \in pipes .. n /\ \A k \in pipes .. end - 1 : IsPipe(toks[k])
          /\ ~IsPipe(toks[end])
      BY <1>11, StageShape DEF files, left, pipes, end, n
    <2>2. QED
      BY <1>10, <2>1
  <1>13. ~IsLiteral(toks[left])
    <2>1. CASE left = files
      BY <1>12, <2>1
    <2>2. CASE left # files
      <3>1. left \in Nat /\ files \in Nat /\ files \in 1 .. n /\ left \in files .. n
        <4>1. left \in files .. n
          BY <1>9
        <4>2. QED
          BY <1>8, <1>4, <4>1
      <3>2. (left - files) % 2 = 0
        BY <1>9, Zenon DEF FilesRun
      <3>3. left - files >= 2
        <4>1. left - files \in Nat /\ left - files # 0
          BY <2>2, <3>1
        <4>2. QED
          BY <3>2, <4>1
      <3>4. PICK k \in files .. left - 1 : left = k + 2 /\ (k - files) % 2 = 0 /\ k \in 1 .. n - 1
        <4>1. (left - 2) - files \in Nat /\ ((left - 2) - files) % 2 = 0
          BY <3>1, <3>2, <3>3
        <4>2. left - 2 \in files .. left - 1 /\ left = (left - 2) + 2 /\ left - 2 \in 1 .. n - 1
          BY <1>4, <3>1, <3>3
        <4>3. QED
          BY <4>1, <4>2
      <3>5. IsRedir(toks[k])
        BY <1>9, <3>4, Zenon DEF FilesRun
      <3>6. QED
        BY <1>2, <3>4, <3>5
    <2>3. QED
      BY <2>1, <2>2
  <1>14. toks[left].kind = "eof" \/ IsPipe(toks[left])
    <2>1. left \in 1 .. n
      <3>1. left \in files .. n
        BY <1>9
      <3>2. QED
        BY <1>8, <1>4, <3>1
    <2>2. toks[left] \in AllTokens /\ toks[left].kind # "space"
      BY <1>1, <2>1 DEF NoSpace
    <2>3. QED
      BY <1>10, <1>13, <2>2 DEF AllTokens, TokenSet, EOF, IsLiteral, IsRedir, IsPipe
  <1>15. end = pipes => end = n
    <2>1. left \in 1 .. n
      <3>1. left \in files .. n
        BY <1>9
      <3>2. QED
        BY <1>8, <1>4, <3>1
    <2>2. SUFFICES ASSUME end = left PROVE end = n
      BY <1>12
    <2>3. toks[left].kind = "eof"
      BY <1>12, <1>14, <2>2
    <2>4. QED
      BY <1>1, <2>1, <2>2, <2>3
  <1>16. end # pipes => IsLiteral(toks[end])
    <2>1. SUFFICES ASSUME end # pipes PROVE IsLiteral(toks[end])
      OBVIOUS
    <2>2. pipes \in 1 .. n
      <3>1. left \in files .. n /\ pipes = left
        BY <1>9, <1>12
      <3>2. QED
        BY <1>8, <1>4, <3>1
    <2>3. PICK k \in pipes .. end - 1 : end = k + 1 /\ k \in 1 .. n - 1
      <3>1. end - 1 \in pipes .. end - 1 /\ end = (end - 1) + 1 /\ end - 1 \in 1 .. n - 1
        <4>1. n \in Nat /\ end \in pipes .. n
          BY <1>12, <1>4
        <4>2. QED
          BY <2>1, <2>2, <4>1
      <3>2. QED
        BY <3>1
    <2>4. IsPipe(toks[k]) /\ ~IsPipe(toks[end])
      BY <1>12
    <2>5. QED
      BY <1>2, <2>3, <2>4
  <1>17. QED
    BY <1>11, <1>15, <1>16 DEF end, pipes, n

Behind(w, i, c) == \E r \in Seq(Texts) : w[i] = Said(c) \o r

LEMMA BuildInOrder ==
  ASSUME NEW toks, Ended(toks), NoSpace(toks)
  PROVE  /\ Build(toks) \in Chains
         /\ \E r \in Seq(Texts) : SpelledOut(toks) = Said(Build(toks)) \o r
         /\ Shaped(toks) => SpelledOut(toks) = Said(Build(toks))
  <1> DEFINE n == Len(toks)
  <1>1. PICK w : WordsFrom(w, toks)
    BY WordsFromExist, Zenon
  <1>2. PICK f : Builds(f, toks)
    BY BuildBuilds, Zenon
  <1>3. n \in Nat \ {0} /\ ~IsLiteral(toks[n])
    BY EndedFacts
  <1>4. /\ w \in [1 .. n + 1 -> Seq(Texts)] /\ w[n + 1] = <<>> /\ SpelledOut(toks) = w[1]
        /\ \A k \in 1 .. n : w[k] = Spelled(toks[k]) \o w[k + 1]
    BY <1>1 DEF WordsFrom
  <1>5. /\ f \in [1 .. n -> Chains] /\ Build(toks) = f[1]
        /\ \A i \in 1 .. n :
             f[i] = IF Refused(toks, i) THEN <<>> ELSE Chained(toks, i, f[EndAt(toks, i)])
    BY <1>2, Zenon DEF Builds
  <1> HIDE DEF n
  <1>6. w[n] = <<>>
    <2>1. n \in 1 .. n
      BY <1>3
    <2>2. w[n] = Spelled(toks[n]) \o w[n + 1] /\ Spelled(toks[n]) = <<>>
      BY <1>3, <1>4, <2>1 DEF Spelled
    <2>3. <<>> \o <<>> = <<>>
      OBVIOUS
    <2>4. QED
      BY <1>4, <2>2, <2>3, Zenon
  <1> DEFINE Whole(i) == f[i] # <<>> /\ w[i] = Said(f[i])
             E == {i \in 1 .. n : Behind(w, i, f[i]) /\ (Shaped(toks) /\ IsLiteral(toks[i]) => Whole(i))}
  <1>7. ASSUME NEW i \in 1 .. n, i + 1 .. n \subseteq E PROVE i \in E
    <2>1. w[i] \in Seq(Texts)
      <3>1. i \in 1 .. n + 1
        BY <1>3
      <3>2. QED
        BY <1>4, <3>1, Zenon
    <2>2. CASE Refused(toks, i)
      <3>1. f[i] = <<>>
        BY <1>5, <2>2, Zenon
      <3>2. w[i] = Said(f[i]) \o w[i]
        BY <2>1, <3>1, SaidNothing, ConcatEmptySeq
      <3>3. Behind(w, i, f[i])
        BY <2>1, <3>2, Zenon DEF Behind
      <3>4. ~(Shaped(toks) /\ IsLiteral(toks[i]))
        BY <2>2, ShapedStage DEF n
      <3> HIDE DEF Whole
      <3>5. QED
        BY <3>3, <3>4
    <2>3. CASE ~Refused(toks, i)
      <3> DEFINE end == EndAt(toks, i)
                 pipes == PipesAt(toks, i)
                 links == Links(toks, pipes, end)
                 s(ls) == StageAt(toks, i, ls)
      <3>1. /\ pipes \in LeftAt(toks, i) .. n /\ LeftAt(toks, i) \in FilesAt(toks, i) .. n
            /\ FilesAt(toks, i) \in BinAt(toks, i) + 1 .. n /\ BinAt(toks, i) \in i .. n - 1
            /\ end \in pipes .. n /\ \A k \in pipes .. end - 1 : IsPipe(toks[k])
        BY <2>3, StageShape DEF n
      <3> HIDE DEF end, pipes
      <3>2. end \in i + 1 .. n /\ end \in 1 .. n /\ end \in 1 .. n + 1 /\ pipes \in 1 .. n
        BY <1>3, <3>1
      <3>3. f[i] = Chained(toks, i, f[end]) /\ f[i] \in Chains /\ f[end] \in Chains
        BY <1>5, <2>3, <3>2, Zenon DEF end
      <3>4. f[i] # <<>>
        BY <2>3, <3>3, ChainedFits DEF n
      <3>5. w[end] \in Seq(Texts)
        BY <1>4, <3>2, Zenon
      <3>6. ASSUME NEW ls \in SUBSET LinkSet
            PROVE  /\ s(ls) \in Stages /\ StageWords(s(ls)) \in Seq(Texts)
                   /\ w[i] = StageWords(s(ls)) \o w[end]
        <4>1. s(ls) \in Stages /\ StageWords(s(ls)) \in Seq(Wordy)
          BY <2>3, StageGood, Zenon DEF n
        <4>2. w[i] = StageWords(s(ls)) \o w[end]
          BY <1>1, <2>3, StageSpells, Zenon DEF n, end
        <4>3. QED
          BY <4>1, <4>2, TextsInWordy, SeqMonotonic
      <3>7. CASE end # pipes /\ f[end] # <<>>
        <4>1. links \in SUBSET LinkSet
          BY <3>1, <3>2, LinksGood DEF n
        <4>2. f[i] = << s(links) >> \o f[end]
          BY <3>3, <3>7, Zenon DEF Chained, pipes, end
        <4>3. /\ s(links) \in Stages /\ StageWords(s(links)) \in Seq(Texts)
              /\ w[i] = StageWords(s(links)) \o w[end]
          BY <3>6, <4>1, Zenon
        <4> HIDE DEF links, s
        <4>4. Said(f[i]) = StageWords(s(links)) \o Said(f[end])
          BY <3>3, <4>2, <4>3, SaidCons
        <4>5. end \in E
          BY <1>7, <3>2
        <4>6. PICK r \in Seq(Texts) : w[end] = Said(f[end]) \o r
          BY <4>5 DEF Behind
        <4>7. Said(f[end]) \in Seq(Texts)
          BY <3>3, SaidType
        <4>8. w[i] = Said(f[i]) \o r
          <5> DEFINE one == StageWords(s(links))
                     rest == Said(f[end])
          <5>1. one \in Seq(Texts) /\ rest \in Seq(Texts) /\ r \in Seq(Texts)
            BY <4>3, <4>7
          <5>2. w[i] = one \o (rest \o r)
            BY <4>3, <4>6, Zenon
          <5>3. Said(f[i]) = one \o rest
            BY <4>4
          <5> HIDE DEF one, rest
          <5>4. (one \o rest) \o r = one \o (rest \o r)
            BY <5>1, TextsAssoc, Zenon
          <5>5. QED
            BY <5>2, <5>3, <5>4, Zenon
        <4>9. Behind(w, i, f[i])
          BY <4>8, Zenon DEF Behind
        <4>10. ASSUME Shaped(toks), IsLiteral(toks[i]) PROVE Whole(i)
          <5>1. IsLiteral(toks[end])
            BY <3>7, <4>10, ShapedStage DEF n, end, pipes
          <5>2. w[end] = Said(f[end])
            BY <4>5, <4>10, <5>1
          <5>3. QED
            BY <3>4, <4>3, <4>4, <5>2, Zenon
        <4> HIDE DEF Whole
        <4>11. QED
          BY <4>9, <4>10
      <3>8. CASE ~(end # pipes /\ f[end] # <<>>)
        <4>1. {} \in SUBSET LinkSet
          OBVIOUS
        <4>2. f[i] = << s({}) >>
          BY <3>3, <3>8, Zenon DEF Chained, pipes, end
        <4>3. /\ s({}) \in Stages /\ StageWords(s({})) \in Seq(Texts)
              /\ w[i] = StageWords(s({})) \o w[end]
          BY <3>6, <4>1, Zenon
        <4> HIDE DEF s
        <4>4. Said(f[i]) = StageWords(s({}))
          BY <3>3, <4>2, <4>3, SaidLast
        <4>5. Behind(w, i, f[i])
          BY <3>5, <4>3, <4>4, Zenon DEF Behind
        <4>6. ASSUME Shaped(toks), IsLiteral(toks[i]) PROVE Whole(i)
          <5>1. end = pipes
            <6>1. SUFFICES ASSUME end # pipes PROVE FALSE
              OBVIOUS
            <6>2. IsLiteral(toks[end])
              BY <4>6, <6>1, ShapedStage DEF n, end, pipes
            <6>3. end \in E
              BY <1>7, <3>2
            <6>4. f[end] # <<>>
              BY <4>6, <6>2, <6>3
            <6>5. QED
              BY <3>8, <6>1, <6>4
          <5>2. end = n
            BY <4>6, <5>1, ShapedStage DEF n, end, pipes
          <5>3. w[i] = Said(f[i])
            <6>1. w[end] = <<>>
              BY <1>6, <5>2
            <6>2. w[i] = StageWords(s({})) \o <<>>
              BY <4>3, <6>1, Zenon
            <6>3. StageWords(s({})) \o <<>> = StageWords(s({}))
              BY <4>3, ConcatEmptySeq
            <6>4. QED
              BY <4>4, <6>2, <6>3, Zenon
          <5>4. QED
            BY <3>4, <5>3
        <4> HIDE DEF Whole
        <4>7. QED
          BY <4>5, <4>6
      <3>9. QED
        BY <3>7, <3>8
    <2>4. QED
      BY <2>2, <2>3
  <1>8. 1 .. n \subseteq E
    <2> HIDE DEF E
    <2>1. QED
      BY <1>3, <1>7, DownInduction
  <1>9. 1 \in E /\ 1 \in 1 .. n
    BY <1>3, <1>8
  <1>10. Build(toks) \in Chains
    BY <1>5, <1>9, Zenon
  <1>11. \E r \in Seq(Texts) : SpelledOut(toks) = Said(Build(toks)) \o r
    BY <1>4, <1>5, <1>9, Zenon DEF Behind
  <1>12. Shaped(toks) => SpelledOut(toks) = Said(Build(toks))
    BY <1>4, <1>5, <1>9 DEF Shaped
  <1>13. QED
    BY <1>10, <1>11, <1>12

LEMMA PrefixOfConcat ==
  ASSUME NEW S, NEW s \in Seq(S), NEW r \in Seq(S)
  PROVE  IsPrefix(s, s \o r)
  <1> DEFINE c == s \o r
             n == Len(s)
  <1>1. /\ c \in Seq(S) /\ Len(c) = n + Len(r) /\ n \in Nat /\ Len(r) \in Nat
        /\ \A i \in 1 .. n + Len(r) : c[i] = IF i <= n THEN s[i] ELSE r[i - n]
    BY ConcatProperties, LenProperties
  <1> HIDE DEF c, n
  <1>2. \A i \in 1 .. n : c[i] = s[i] /\ s[i] \in S
    <2>1. \A i \in 1 .. n : s[i] \in S
      BY ElementOfSeq DEF n
    <2>2. \A i \in 1 .. n : c[i] = s[i]
      BY <1>1
    <2>3. QED
      BY <2>1, <2>2
  <1>3. /\ SubSeq(s, 1, n) \in Seq(S) /\ SubSeq(c, 1, n) \in Seq(S)
        /\ Len(SubSeq(s, 1, n)) = n /\ Len(SubSeq(c, 1, n)) = n
        /\ \A i \in 1 .. n : SubSeq(s, 1, n)[i] = s[i] /\ SubSeq(c, 1, n)[i] = c[i]
    <2>1. /\ SubSeq(s, 1, n) \in Seq(S)
          /\ Len(SubSeq(s, 1, n)) = (IF 1 <= n THEN n - 1 + 1 ELSE 0)
          /\ \A i \in 1 .. n - 1 + 1 : SubSeq(s, 1, n)[i] = s[1 + i - 1]
      BY <1>1, <1>2, SubSeqProperties
    <2>2. /\ SubSeq(c, 1, n) \in Seq(S)
          /\ Len(SubSeq(c, 1, n)) = (IF 1 <= n THEN n - 1 + 1 ELSE 0)
          /\ \A i \in 1 .. n - 1 + 1 : SubSeq(c, 1, n)[i] = c[1 + i - 1]
      BY <1>1, <1>2, SubSeqProperties
    <2>3. n - 1 + 1 = n /\ (IF 1 <= n THEN n - 1 + 1 ELSE 0) = n /\ \A i \in 1 .. n : 1 + i - 1 = i
      BY <1>1
    <2>4. QED
      BY <2>1, <2>2, <2>3
  <1>4. SubSeq(s, 1, n) = SubSeq(c, 1, n)
    BY <1>2, <1>3, SeqEqual
  <1>5. n <= Len(c)
    BY <1>1
  <1>6. QED
    BY <1>4, <1>5 DEF IsPrefix, n, c

----------------------------------------------------------------------------
(* The inductive invariant: the tokenizer's, and the chain is what build   *)
(* makes of the tokens.                                                    *)
IInv ==
  /\ TokInv /\ chain \in Chains
  /\ phase # "built" => chain = <<>>
  /\ phase = "built" => chain = Build(Tokens)

LEMMA InitIInv ==
  ASSUME Init
  PROVE  IInv
  BY InitTokInv, EmptyChain DEF Init, IInv

LEMMA TokensStay ==
  ASSUME stream' = stream
  PROVE  Tokens' = Tokens
  BY DEF Tokens

LEMMA BuiltChain ==
  ASSUME Ended(stream)
  PROVE  Build(Tokens) \in Chains
  BY TokensEnd, BuildInOrder

LEMMA StepIInv ==
  ASSUME IInv, [Next]_vars
  PROVE  IInv'
  <1>1. TokInv'
    BY StepTokInv DEF IInv
  <1>2. CASE Scan
    <2>1. phase = "scan" /\ chain' = chain
      BY <1>2 DEF Scan, Tokenize, ParsePipe, ParseRedir, ParseLiteral, ParseEnd, Scanning
    <2>2. phase' \in {"scan", "error", "done"}
      BY <1>2 DEF Scan, Tokenize, ParsePipe, ParseRedir, ParseLiteral, ParseEnd, Scanning, Take
    <2>3. chain' \in Chains
      BY <2>1 DEF IInv, Chains, FitChain, Stages
    <2>4. QED
      BY <1>1, <2>1, <2>2, <2>3 DEF IInv
  <1>3. CASE BuildCommand
    <2>1. phase = "done" /\ phase' = "built" /\ chain' = Build(Tokens) /\ stream' = stream
      BY <1>3 DEF BuildCommand
    <2>2. Ended(stream)
      BY <2>1 DEF IInv, TokInv
    <2>3. chain' \in Chains
      BY <2>1, <2>2, BuiltChain
    <2>4. chain' = Build(Tokens')
      BY <2>1, TokensStay
    <2>5. QED
      BY <1>1, <2>1, <2>3, <2>4 DEF IInv
  <1>4. CASE UNCHANGED vars
    <2>1. phase' = phase /\ chain' = chain /\ stream' = stream
      BY <1>4 DEF vars
    <2>2. Tokens' = Tokens
      BY <2>1, TokensStay
    <2>3. QED
      BY <1>1, <2>1, <2>2 DEF IInv
  <1>5. QED
    BY <1>2, <1>3, <1>4 DEF Next

(* Tokens and chain are what the line makes them, in every state.          *)
THEOREM AlwaysIInv == Spec => []IInv
  <1>1. Init => IInv
    BY InitIInv
  <1>2. IInv /\ [Next]_vars => IInv'
    BY StepIInv
  <1>3. QED
    BY <1>1, <1>2, PTL DEF Spec

LEMMA IInvTypeOK ==
  ASSUME IInv
  PROVE  TypeOK
  <1>1. TokInv /\ chain \in Seq(Stages)
    BY DEF IInv, Chains
  <1>2. ASSUME NEW k \in DOMAIN stream
        PROVE  stream[k].kind = "eof" <=> k = Len(stream) /\ phase \in {"done", "built"}
    <2>1. CASE phase \in {"done", "built"}
      BY <1>1, <2>1 DEF TokInv, Ended
    <2>2. CASE phase \notin {"done", "built"}
      <3>1. stream \in Seq(TokenSet)
        BY <1>1, <2>2 DEF TokInv
      <3>2. k \in 1 .. Len(stream)
        BY <3>1, LenProperties
      <3>3. stream[k] \in TokenSet
        BY <3>1, <3>2, ElementOfSeq
      <3>4. QED
        BY <2>2, <3>3, TokensNotEof
    <2>3. QED
      BY <2>1, <2>2
  <1>3. QED
    BY <1>1, <1>2 DEF TypeOK, TokInv

(* The tokenizer stays within the line, its tokens end where it does, and  *)
(* build returns chains of stages.                                         *)
THEOREM CommandLineType == Spec => []TypeOK
  <1>1. IInv => TypeOK
    BY IInvTypeOK
  <1>2. QED
    BY <1>1, AlwaysIInv, PTL

LEMMA NoEmptyWord ==
  ASSUME NEW q \in Seq(Wordy)
  PROVE  <<>> \notin Range(q)
  <1>1. \A k \in DOMAIN q : q[k] \in Wordy
    BY LenProperties, ElementOfSeq
  <1>2. QED
    BY <1>1 DEF Range, Wordy

LEMMA IInvChainFits ==
  ASSUME IInv
  PROVE  ChainFits
  <1>1. FitChain(chain)
    BY DEF IInv, Chains
  <1>2. ASSUME NEW k \in DOMAIN chain
        PROVE  /\ chain[k].links = {} <=> k = Len(chain)
               /\ \A l, m \in chain[k].links : l.to = m.to => l = m
               /\ \A l \in chain[k].links : l.from # {}
               /\ <<>> \notin Range(StageWords(chain[k]))
    <2>1. /\ chain[k].links = {} <=> k = Len(chain)
          /\ \A l, m \in chain[k].links : l.to = m.to => l = m
          /\ \A l \in chain[k].links : l.from # {}
          /\ StageWords(chain[k]) \in Seq(Wordy)
      BY <1>1, Zenon DEF FitChain
    <2>2. QED
      BY <2>1, NoEmptyWord, Zenon
  <1>3. QED
    BY <1>2, Zenon DEF ChainFits

(* Whatever the line, what build returns is a chain execute_all can start. *)
THEOREM AlwaysChainFits == Spec => []ChainFits
  <1>1. IInv => ChainFits
    BY IInvChainFits
  <1>2. QED
    BY <1>1, AlwaysIInv, PTL

LEMMA IInvWordsInOrder ==
  ASSUME IInv
  PROVE  WordsInOrder
  <1>1. SUFFICES ASSUME phase = "built"
                 PROVE  IsPrefix(ChainWords, LineWords) /\ (Shaped(Tokens) => ChainWords = LineWords)
    BY DEF WordsInOrder
  <1>2. Ended(stream) /\ chain = Build(Tokens) /\ chain \in Chains
    BY <1>1 DEF IInv, TokInv
  <1>3. Ended(Tokens) /\ NoSpace(Tokens) /\ SpelledOut(Tokens) = LineWords
    BY <1>2, TokensEnd
  <1>4. ChainWords = Said(chain)
    BY Zenon DEF ChainWords, Said
  <1>5. PICK r \in Seq(Texts) : LineWords = ChainWords \o r
    BY <1>2, <1>3, <1>4, BuildInOrder
  <1>6. Shaped(Tokens) => ChainWords = LineWords
    BY <1>2, <1>3, <1>4, BuildInOrder
  <1>7. ChainWords \in Seq(Texts)
    BY <1>2, <1>4, SaidType
  <1>8. IsPrefix(ChainWords, ChainWords \o r)
    BY <1>7, PrefixOfConcat
  <1>9. QED
    BY <1>5, <1>6, <1>8, Zenon

(* Whatever the line, its chain is run with the line's words, in order and *)
(* from the first on; with all of them, if it has the documented shape.    *)
THEOREM AlwaysWordsInOrder == Spec => []WordsInOrder
  <1>1. IInv => WordsInOrder
    BY IInvWordsInOrder
  <1>2. QED
    BY <1>1, AlwaysIInv, PTL

(* A turn of tokenize's loop on a line without odd white space consumes a  *)
(* character, or it is the last one: what EveryLineEnds rests on.  And the *)
(* bound MaxTokens keeps no turn of it from being taken.                   *)
ScansOn ==
  Plain /\ phase = "scan" /\ phase' = "scan" /\ Scan => cursor' > cursor
NeverCutShort ==
  Plain /\ phase = "scan" => Len(stream) < MaxTokens

LEMMA PlainPeek ==
  ASSUME TokInv, Scanning, Plain
  PROVE  Peek(cursor) \notin OddSpaces
  <1>1. cursor \in Nat /\ cursor < Len(src) /\ Len(src) \in Nat /\ src \in Seq(Chars)
    BY ScanFacts DEF Scanning, TokInv, LineOK
  <1>2. cursor + 1 \in DOMAIN src /\ Peek(cursor) = src[cursor + 1]
    <2>1. DOMAIN src = 1 .. Len(src)
      BY <1>1, LenProperties
    <2>2. QED
      BY <1>1, <2>1 DEF Peek
  <1>3. Peek(cursor) \in Range(src)
    BY <1>2 DEF Range
  <1>4. QED
    BY <1>3 DEF Plain

LEMMA IInvScansOn ==
  ASSUME IInv, [Next]_vars
  PROVE  ScansOn
  <1>1. SUFFICES ASSUME Plain, phase = "scan", phase' = "scan", Scan
                 PROVE  cursor' > cursor
    BY DEF ScansOn
  <1>2. TokInv
    BY DEF IInv
  <1>3. CASE ParsePipe
    BY <1>1, <1>2, <1>3, ParsePipeKeeps
  <1>4. CASE ParseRedir
    BY <1>1, <1>2, <1>4, ParseRedirKeeps
  <1>5. CASE ParseLiteral
    <2>1. Scanning
      BY <1>5 DEF ParseLiteral
    <2>2. QED
      BY <1>1, <1>2, <1>5, <2>1, ParseLiteralKeeps, PlainPeek
  <1>6. ~ParseEnd
    BY <1>1 DEF ParseEnd
  <1>7. QED
    BY <1>1, <1>3, <1>4, <1>5, <1>6 DEF Scan, Tokenize

(* No turn of the tokenizer stands still on a line without odd white space. *)
THEOREM PlainLinesScanOn == Spec => [][ScansOn]_vars
  <1>1. IInv /\ [Next]_vars => [ScansOn]_vars
    BY IInvScansOn
  <1>2. QED
    BY <1>1, AlwaysIInv, PTL DEF Spec

LEMMA IInvNeverCutShort ==
  ASSUME IInv
  PROVE  NeverCutShort
  <1>1. SUFFICES ASSUME Plain, phase = "scan" PROVE Len(stream) < MaxTokens
    BY DEF NeverCutShort
  <1>2. TokInv /\ cursor \in 0 .. Len(src) /\ LineOK
    BY DEF IInv, TokInv
  <1>3. Peek(cursor) \notin OddSpaces
    <2>1. CASE cursor < Len(src)
      BY <1>1, <1>2, <2>1, PlainPeek DEF Scanning
    <2>2. CASE ~(cursor < Len(src))
      BY <2>2, CharsOK DEF Peek
    <2>3. QED
      BY <2>1, <2>2
  <1>4. Len(stream) <= cursor
    BY <1>1, <1>2, <1>3 DEF TokInv
  <1>5. Len(src) + 1 < MaxTokens /\ Len(src) \in Nat /\ MaxTokens \in Nat
    BY <1>2, LineLength, MaxTokensType DEF LineOK
  <1>6. Len(stream) \in Nat
    BY <1>1, <1>2, LenProperties DEF TokInv
  <1>7. QED
    BY <1>2, <1>4, <1>5, <1>6

(* A line without odd white space has fewer tokens than MaxTokens: the     *)
(* bound of the model never stops its scan.                                *)
THEOREM PlainLinesNotCutShort == Spec => []NeverCutShort
  <1>1. IInv => NeverCutShort
    BY IInvNeverCutShort
  <1>2. QED
    BY <1>1, AlwaysIInv, PTL

----------------------------------------------------------------------------
(* The numbers and the characters of a piece, where it lies in the line.   *)
(* What the parse makes of a piece of the line with a blank behind it.     *)
LEMMA SkipIs ==
  ASSUME LineOK, NEW S, "end" \notin S, NEW i \in 0 .. Len(src), NEW e \in i .. Len(src),
         Peek(e) \notin S, \A k \in i .. e - 1 : Peek(k) \in S
  PROVE  Skip(i, S) = e
  <1> DEFINE j == Skip(i, S)
  <1>1. /\ j \in i .. Len(src) /\ Peek(j) \notin S
        /\ \A k \in i .. j - 1 : Peek(k) \in S
    BY SkipSkips
  <1>2. Len(src) \in Nat
    BY LineLength
  <1> HIDE DEF j
  <1>3. ~(j < e)
    <2>1. j < e => j \in i .. e - 1
      BY <1>1, <1>2
    <2>2. QED
      BY <1>1, <2>1
  <1>4. ~(e < j)
    <2>1. e < j => e \in i .. j - 1
      BY <1>1, <1>2
    <2>2. QED
      BY <1>1, <2>1
  <1>5. QED
    BY <1>1, <1>2, <1>3, <1>4 DEF j

LEMMA NoNumber ==
  ASSUME LineOK, NEW i \in 0 .. Len(src), Peek(i) \notin Digits, NEW d
  PROVE  NumEnd(i) = i /\ NumOr(i, d) = d
  <1>1. NumEnd(i) = i
    <2>1. CASE i < Len(src)
      <3>1. i \in i .. Len(src) /\ i .. i - 1 = {}
        BY LineLength
      <3>2. Skip(i, Digits) = i
        BY <3>1, DigitsOK, SkipIs
      <3>3. QED
        BY <2>1, <3>2 DEF NumEnd
    <2>2. CASE ~(i < Len(src))
      BY <2>2 DEF NumEnd
    <2>3. QED
      BY <2>1, <2>2
  <1>2. NumOr(i, d) = d
    BY Zenon DEF NumOr
  <1>3. QED
    BY <1>1, <1>2

LEMMA ValuesAre == Value("1") = 1 /\ Value("2") = 2 /\ Value("3") = 3
  <1>1. /\ Numerals[1] = "0" /\ Numerals[2] = "1" /\ Numerals[3] = "2" /\ Numerals[4] = "3"
        /\ Numerals[5] = "4" /\ Numerals[6] = "5" /\ Numerals[7] = "6" /\ Numerals[8] = "7"
        /\ Numerals[9] = "8" /\ Numerals[10] = "9"
    BY DEF Numerals
  <1>2. 1 .. 10 = {1, 2, 3, 4, 5, 6, 7, 8, 9, 10}
    OBVIOUS
  <1>3. (CHOOSE n \in 1 .. 10 : Numerals[n] = "1") = 2
    BY <1>1, <1>2
  <1>4. (CHOOSE n \in 1 .. 10 : Numerals[n] = "2") = 3
    BY <1>1, <1>2
  <1>5. (CHOOSE n \in 1 .. 10 : Numerals[n] = "3") = 4
    BY <1>1, <1>2
  <1>6. QED
    BY <1>3, <1>4, <1>5 DEF Value

LEMMA OneDigit ==
  ASSUME LineOK, NEW i \in 0 .. Len(src), NEW v \in 1 .. 3, NEW d,
         Peek(i) \in Digits, Value(Peek(i)) = v, Peek(i + 1) \notin Digits
  PROVE  NumEnd(i) = i + 1 /\ NumOr(i, d) = v
  <1>1. i < Len(src) /\ Peek(i) = src[i + 1]
    <2>1. i \in Nat
      OBVIOUS
    <2>2. QED
      BY <2>1, DigitsOK, PeekType
  <1>2. NumEnd(i) = i + 1
    <2>1. i + 1 \in i .. Len(src) /\ i .. (i + 1) - 1 = {i}
      BY <1>1, LineLength
    <2>2. Skip(i, Digits) = i + 1
      BY <2>1, DigitsOK, SkipIs
    <2>3. QED
      BY <1>1, <2>2 DEF NumEnd
  <1>3. NumEnd(i) - i = 1
    BY <1>2
  <1>4. PICK f : NumberFrom(f, i, d)
    BY NumOrSteps, Zenon
  <1>5. NumOr(i, d) = f[1] /\ f[0] = 0
    BY <1>3, <1>4, Zenon DEF NumberFrom
  <1>6. f[1] = (10 * f[0] + v) % Word
    <2>1. 1 \in 1 .. NumEnd(i) - i /\ 1 - 1 = 0
      BY <1>3
    <2>2. f[1] = (10 * f[1 - 1] + Value(src[i + 1])) % Word
      BY <1>4, <2>1, Zenon DEF NumberFrom
    <2>3. QED
      BY <1>1, <2>1, <2>2
  <1>7. (10 * 0 + v) % Word = v
    <2>1. 10 * 0 + v = v /\ v \in 0 .. Word - 1 /\ Word \in Nat \ {0}
      BY WordType
    <2>2. QED
      BY <2>1
  <1>8. QED
    BY <1>2, <1>5, <1>6, <1>7

LEMMA NoNumbers ==
  ASSUME LineOK, NEW i \in 0 .. Len(src), Peek(i) \notin Digits
  PROVE  Numbers(i).nums = <<>> /\ Numbers(i).end = i
  <1>1. PICK f : /\ Numbers(i) = f[i]
                 /\ f[i] \in [nums : Seq(Nums), end : i .. Len(src)]
                 /\ \A k \in i .. Len(src) : f[k] = NumbersFrom(f, k)
    BY NumbersSteps, Zenon
  <1>2. i \in i .. Len(src)
    BY LineLength
  <1>3. f[i] = NumbersFrom(f, i)
    BY <1>1, <1>2, Zenon
  <1>4. Numbers(i) = [nums |-> <<>>, end |-> i]
    BY <1>1, <1>3, Zenon DEF NumbersFrom
  <1>5. QED
    BY <1>4

LEMMA PairFacts ==
  ASSUME NEW c, c = << 1 >> \o << 2 >>
  PROVE  c # <<>> /\ Len(c) # 1 /\ Range(c) = {1, 2}
  <1>1. PICK p \in Seq(Nat), q \in Seq(Nat) :
          p = << 1 >> /\ q = << 2 >> /\ Len(p) = 1 /\ Len(q) = 1 /\ p[1] = 1 /\ q[1] = 2
    <2>1. << 1 >> \in Seq(Nat) /\ << 2 >> \in Seq(Nat)
      OBVIOUS
    <2>2. Len(<< 1 >>) = 1 /\ Len(<< 2 >>) = 1 /\ << 1 >>[1] = 1 /\ << 2 >>[1] = 2
      OBVIOUS
    <2>3. QED
      BY <2>1, <2>2, Zenon
  <1>2. c = p \o q
    BY <1>1, Zenon
  <1>3. /\ c \in Seq(Nat) /\ Len(c) = Len(p) + Len(q)
        /\ \A k \in 1 .. Len(p) + Len(q) : c[k] = IF k <= Len(p) THEN p[k] ELSE q[k - Len(p)]
    <2>1. /\ p \o q \in Seq(Nat) /\ Len(p \o q) = Len(p) + Len(q)
          /\ \A k \in 1 .. Len(p) + Len(q) :
               (p \o q)[k] = IF k <= Len(p) THEN p[k] ELSE q[k - Len(p)]
      BY ConcatProperties, Zenon
    <2> HIDE <1>1
    <2>2. QED
      BY <1>2, <2>1
  <1>4. Len(c) = 2 /\ Len(p) + Len(q) = 2 /\ Len(p) = 1 /\ p[1] = 1 /\ q[1] = 2
    <2>1. Len(p) = 1 /\ Len(q) = 1 /\ p[1] = 1 /\ q[1] = 2
      BY <1>1, Zenon
    <2>2. Len(c) = Len(p) + Len(q)
      BY <1>3, Zenon
    <2>3. QED
      BY <2>1, <2>2
  <1>5. \A k \in 1 .. 2 : c[k] = IF k <= 1 THEN p[k] ELSE q[k - 1]
    BY <1>3, <1>4, Zenon
  <1>6. c[1] = 1 /\ c[2] = 2
    <2>1. 1 \in 1 .. 2 /\ 2 \in 1 .. 2 /\ 1 <= 1 /\ ~(2 <= 1) /\ 2 - 1 = 1
      OBVIOUS
    <2>2. c[1] = p[1] /\ c[2] = q[2 - 1]
      BY <1>5, <2>1, Zenon
    <2>3. QED
      BY <1>4, <2>1, <2>2, Zenon
  <1>7. DOMAIN c = {1, 2}
    <2>1. DOMAIN c = 1 .. 2
      BY <1>3, <1>4, LenProperties, Zenon
    <2>2. 1 .. 2 = {1, 2}
      OBVIOUS
    <2>3. QED
      BY <2>1, <2>2, Zenon
  <1>8. Range(c) = {1, 2}
    <2>1. Range(c) = {c[k] : k \in DOMAIN c}
      BY Zenon DEF Range
    <2>2. Range(c) = {c[k] : k \in {1, 2}}
      BY <1>7, <2>1, Zenon
    <2>3. QED
      BY <1>6, <2>2
  <1>9. c # <<>>
    BY <1>4, EmptySeq
  <1>10. QED
    BY <1>4, <1>8, <1>9

(* "1,2" *)
OneCommaTwo(i) ==
  Peek(i) = "1" /\ Peek(i + 1) = "," /\ Peek(i + 2) = "2" /\ Peek(i + 3) = "|"

LEMMA TwoNumbers ==
  ASSUME LineOK, NEW i \in Nat, i + 3 < Len(src), OneCommaTwo(i)
  PROVE  Numbers(i).nums = << 1 >> \o << 2 >> /\ Numbers(i).end = i + 3
  <1>1. /\ i \in 0 .. Len(src) /\ i + 2 \in i .. Len(src) /\ i + 2 \in 0 .. Len(src)
        /\ i \in i .. Len(src) /\ (i + 2) + 1 = i + 3 /\ (i + 1) + 1 = i + 2
    BY LineLength
  <1>2. PICK f : /\ Numbers(i) = f[i]
                 /\ f[i] \in [nums : Seq(Nums), end : i .. Len(src)]
                 /\ \A k \in i .. Len(src) : f[k] = NumbersFrom(f, k)
    BY <1>1, NumbersSteps
  <1>3. f[i] = NumbersFrom(f, i) /\ f[i + 2] = NumbersFrom(f, i + 2)
    BY <1>1, <1>2, Zenon
  <1>4. "1" \in Digits /\ "2" \in Digits /\ "," \notin Digits /\ "|" \notin Digits
    BY DigitsAre
  <1>5. /\ Peek(i) \in Digits /\ Value(Peek(i)) = 1 /\ Peek(i + 1) \notin Digits /\ Peek(i + 1) = ","
        /\ Peek(i + 2) \in Digits /\ Value(Peek(i + 2)) = 2
        /\ Peek(i + 3) \notin Digits /\ Peek(i + 3) = "|"
    BY <1>4, ValuesAre, Zenon DEF OneCommaTwo
  <1>6. 1 \in 1 .. 3 /\ 2 \in 1 .. 3
    OBVIOUS
  <1>7. NumEnd(i) = i + 1 /\ NumOr(i, 0) = 1
    BY <1>1, <1>5, <1>6, OneDigit, Zenon
  <1>8. NumEnd(i + 2) = i + 3 /\ NumOr(i + 2, 0) = 2
    <2>1. NumEnd(i + 2) = (i + 2) + 1 /\ NumOr(i + 2, 0) = 2
      <3>1. Peek((i + 2) + 1) \notin Digits
        BY <1>1, <1>5, Zenon
      <3>2. QED
        BY <1>1, <1>5, <1>6, <3>1, OneDigit, Zenon
    <2>2. QED
      BY <1>1, <2>1, Zenon
  <1>9. f[i + 2] = [nums |-> << 2 >>, end |-> i + 3]
    <2>1. Peek(NumEnd(i + 2)) # ","
      <3>1. Peek(NumEnd(i + 2)) = "|" /\ "|" # ","
        BY <1>5, <1>8
      <3>2. QED
        BY <3>1, Zenon
    <2>2. QED
      BY <1>3, <1>5, <1>8, <2>1, Zenon DEF NumbersFrom
  <1>10. f[i + 2].nums = << 2 >> /\ f[i + 2].end = i + 3
    <2>1. PICK r : r = f[i + 2]
      OBVIOUS
    <2>2. r = [nums |-> << 2 >>, end |-> i + 3]
      BY <1>9, <2>1, Zenon
    <2>3. r.nums = << 2 >> /\ r.end = i + 3
      BY <2>2
    <2>4. QED
      BY <2>1, <2>3, Zenon
  <1>11. f[i] = [nums |-> << 1 >> \o << 2 >>, end |-> i + 3]
    <2>1. Peek(NumEnd(i)) = "," /\ NumEnd(i) + 1 = i + 2
      BY <1>1, <1>5, <1>7, Zenon
    <2>2. f[i] = [nums |-> << NumOr(i, 0) >> \o f[NumEnd(i) + 1].nums, end |-> f[NumEnd(i) + 1].end]
      BY <1>3, <1>5, <2>1, Zenon DEF NumbersFrom
    <2>3. QED
      BY <1>7, <1>10, <2>1, <2>2, Zenon
  <1>12. PICK r, c : r = Numbers(i) /\ c = << 1 >> \o << 2 >>
    OBVIOUS
  <1>13. r = [nums |-> c, end |-> i + 3]
    BY <1>2, <1>11, <1>12, Zenon
  <1>14. r.nums = c /\ r.end = i + 3
    BY <1>13
  <1>15. QED
    BY <1>12, <1>14, Zenon

(* The piece w lies at i, and a blank behind it. *)
Chunk(i, w) ==
  /\ LineOK /\ i \in Nat /\ Len(w) \in Nat /\ i + Len(w) < Len(src)
  /\ \A x \in 1 .. Len(w) : src[i + x] = w[x]
  /\ src[i + Len(w) + 1] = " "

LEMMA ChunkPeeks ==
  ASSUME NEW i, NEW w, Chunk(i, w)
  PROVE  /\ \A x \in 1 .. Len(w) : Peek(i + x - 1) = w[x]
         /\ Peek(i + Len(w)) = " "
         /\ \A x \in 0 .. Len(w) : i + x \in 0 .. Len(src)
  <1>1. /\ LineOK /\ i \in Nat /\ Len(w) \in Nat /\ i + Len(w) < Len(src) /\ Len(src) \in Nat
        /\ \A x \in 1 .. Len(w) : src[i + x] = w[x]
        /\ src[i + Len(w) + 1] = " "
    BY LineLength DEF Chunk
  <1>2. ASSUME NEW x \in 1 .. Len(w) PROVE Peek(i + x - 1) = w[x]
    <2>1. i + x - 1 < Len(src) /\ (i + x - 1) + 1 = i + x
      <3>1. PICK n \in Nat, l \in Nat : n = Len(src) /\ l = Len(w)
        BY <1>1
      <3>2. i \in Nat /\ i + l < n /\ x \in 1 .. l
        BY <1>1, <3>1
      <3>3. i + x - 1 < n /\ (i + x - 1) + 1 = i + x
        BY <3>2
      <3>4. QED
        BY <3>1, <3>3
    <2>2. Peek(i + x - 1) = src[(i + x - 1) + 1]
      BY <2>1 DEF Peek
    <2>3. QED
      BY <1>1, <2>1, <2>2
  <1>3. Peek(i + Len(w)) = " "
    BY <1>1 DEF Peek
  <1>4. \A x \in 0 .. Len(w) : i + x \in 0 .. Len(src)
    <2>1. PICK n \in Nat, l \in Nat : n = Len(src) /\ l = Len(w)
      BY <1>1
    <2>2. i \in Nat /\ i + l < n
      BY <1>1, <2>1
    <2>3. \A x \in 0 .. l : i + x \in 0 .. n
      BY <2>2
    <2>4. QED
      BY <2>1, <2>3
  <1>5. QED
    BY <1>2, <1>3, <1>4

LEMMA ChunkEach ==
  ASSUME NEW i, NEW w, Chunk(i, w), NEW n \in Nat, Len(w) = n
  PROVE  /\ LineOK /\ i \in Nat /\ i + n < Len(src) /\ Peek(i + n) = " "
         /\ \A x \in Nat : x < n => Peek(i + x) = w[x + 1]
  <1>1. LineOK /\ i \in Nat /\ i + n < Len(src)
    BY DEF Chunk
  <1>2. Peek(i + n) = " "
    BY ChunkPeeks, Zenon
  <1>3. ASSUME NEW x \in Nat, x < n PROVE Peek(i + x) = w[x + 1]
    <2>1. \A y \in 1 .. n : Peek(i + y - 1) = w[y]
      BY ChunkPeeks, Zenon
    <2>2. x + 1 \in 1 .. n /\ i + (x + 1) - 1 = i + x
      BY <1>1, <1>3
    <2>3. Peek(i + (x + 1) - 1) = w[x + 1]
      BY <2>1, <2>2, Zenon
    <2>4. QED
      BY <2>2, <2>3, Zenon
  <1>4. QED
    BY <1>1, <1>2, <1>3, Zenon

LEMMA ChunkStart ==
  ASSUME NEW i, NEW w, Chunk(i, w)
  PROVE  i \in 0 .. Len(src)
  <1>1. PICK n \in Nat : n = Len(w) /\ i + n < Len(src)
    BY Zenon DEF Chunk
  <1>2. LineOK /\ i \in Nat
    BY Zenon DEF Chunk
  <1>3. Len(src) \in Nat
    BY <1>2, LineLength
  <1>4. QED
    BY <1>1, <1>2, <1>3

LEMMA ChunkOne ==
  ASSUME NEW i, NEW a, Chunk(i, << a >>)
  PROVE  /\ LineOK /\ i \in Nat /\ i + 1 < Len(src) /\ Peek(i + 1) = " "
         /\ Peek(i) = a
  <1> DEFINE w == << a >>
  <1>1. Len(w) = 1 /\ w[1] = a
    OBVIOUS
  <1>2. Chunk(i, w) /\ 1 \in Nat
    OBVIOUS
  <1> HIDE DEF w
  <1>3. /\ LineOK /\ i \in Nat /\ i + 1 < Len(src) /\ Peek(i + 1) = " "
        /\ \A x \in Nat : x < 1 => Peek(i + x) = w[x + 1]
    BY <1>1, <1>2, ChunkEach, Zenon
  <1>4. /\ 0 \in Nat /\ 0 < 1
        /\ 0 + 1 = 1
        /\ i + 0 = i
    <2>1. i \in Nat
      BY <1>3, Zenon
    <2>2. QED
      BY <2>1
  <1>5. Peek(i) = a
    BY <1>1, <1>3, <1>4, Zenon
  <1>6. QED
    BY <1>3, <1>5, Zenon

LEMMA ChunkTwo ==
  ASSUME NEW i, NEW a, NEW b, Chunk(i, << a, b >>)
  PROVE  /\ LineOK /\ i \in Nat /\ i + 2 < Len(src) /\ Peek(i + 2) = " "
         /\ Peek(i) = a /\ Peek(i + 1) = b
  <1> DEFINE w == << a, b >>
  <1>1. Len(w) = 2 /\ w[1] = a /\ w[2] = b
    OBVIOUS
  <1>2. Chunk(i, w) /\ 2 \in Nat
    OBVIOUS
  <1> HIDE DEF w
  <1>3. /\ LineOK /\ i \in Nat /\ i + 2 < Len(src) /\ Peek(i + 2) = " "
        /\ \A x \in Nat : x < 2 => Peek(i + x) = w[x + 1]
    BY <1>1, <1>2, ChunkEach, Zenon
  <1>4. /\ 0 \in Nat /\ 0 < 2 /\ 1 \in Nat /\ 1 < 2
        /\ 0 + 1 = 1 /\ 1 + 1 = 2
        /\ i + 0 = i
    <2>1. i \in Nat
      BY <1>3, Zenon
    <2>2. QED
      BY <2>1
  <1>5. Peek(i) = a /\ Peek(i + 1) = b
    BY <1>1, <1>3, <1>4, Zenon
  <1>6. QED
    BY <1>3, <1>5, Zenon

LEMMA ChunkThree ==
  ASSUME NEW i, NEW a, NEW b, NEW c, Chunk(i, << a, b, c >>)
  PROVE  /\ LineOK /\ i \in Nat /\ i + 3 < Len(src) /\ Peek(i + 3) = " "
         /\ Peek(i) = a /\ Peek(i + 1) = b /\ Peek(i + 2) = c
  <1> DEFINE w == << a, b, c >>
  <1>1. Len(w) = 3 /\ w[1] = a /\ w[2] = b /\ w[3] = c
    OBVIOUS
  <1>2. Chunk(i, w) /\ 3 \in Nat
    OBVIOUS
  <1> HIDE DEF w
  <1>3. /\ LineOK /\ i \in Nat /\ i + 3 < Len(src) /\ Peek(i + 3) = " "
        /\ \A x \in Nat : x < 3 => Peek(i + x) = w[x + 1]
    BY <1>1, <1>2, ChunkEach, Zenon
  <1>4. /\ 0 \in Nat /\ 0 < 3 /\ 1 \in Nat /\ 1 < 3 /\ 2 \in Nat /\ 2 < 3
        /\ 0 + 1 = 1 /\ 1 + 1 = 2 /\ 2 + 1 = 3
        /\ i + 0 = i
    <2>1. i \in Nat
      BY <1>3, Zenon
    <2>2. QED
      BY <2>1
  <1>5. Peek(i) = a /\ Peek(i + 1) = b /\ Peek(i + 2) = c
    BY <1>1, <1>3, <1>4, Zenon
  <1>6. QED
    BY <1>3, <1>5, Zenon

LEMMA ChunkFour ==
  ASSUME NEW i, NEW a, NEW b, NEW c, NEW d, Chunk(i, << a, b, c, d >>)
  PROVE  /\ LineOK /\ i \in Nat /\ i + 4 < Len(src) /\ Peek(i + 4) = " "
         /\ Peek(i) = a /\ Peek(i + 1) = b /\ Peek(i + 2) = c /\ Peek(i + 3) = d
  <1> DEFINE w == << a, b, c, d >>
  <1>1. Len(w) = 4 /\ w[1] = a /\ w[2] = b /\ w[3] = c /\ w[4] = d
    OBVIOUS
  <1>2. Chunk(i, w) /\ 4 \in Nat
    OBVIOUS
  <1> HIDE DEF w
  <1>3. /\ LineOK /\ i \in Nat /\ i + 4 < Len(src) /\ Peek(i + 4) = " "
        /\ \A x \in Nat : x < 4 => Peek(i + x) = w[x + 1]
    BY <1>1, <1>2, ChunkEach, Zenon
  <1>4. /\ 0 \in Nat /\ 0 < 4 /\ 1 \in Nat /\ 1 < 4 /\ 2 \in Nat /\ 2 < 4 /\ 3 \in Nat /\ 3 < 4
        /\ 0 + 1 = 1 /\ 1 + 1 = 2 /\ 2 + 1 = 3 /\ 3 + 1 = 4
        /\ i + 0 = i
    <2>1. i \in Nat
      BY <1>3, Zenon
    <2>2. QED
      BY <2>1
  <1>5. Peek(i) = a /\ Peek(i + 1) = b /\ Peek(i + 2) = c /\ Peek(i + 3) = d
    BY <1>1, <1>3, <1>4, Zenon
  <1>6. QED
    BY <1>3, <1>5, Zenon

LEMMA ChunkSix ==
  ASSUME NEW i, NEW a, NEW b, NEW c, NEW d, NEW e, NEW f, Chunk(i, << a, b, c, d, e, f >>)
  PROVE  /\ LineOK /\ i \in Nat /\ i + 6 < Len(src) /\ Peek(i + 6) = " "
         /\ Peek(i) = a /\ Peek(i + 1) = b /\ Peek(i + 2) = c
         /\ Peek(i + 3) = d /\ Peek(i + 4) = e /\ Peek(i + 5) = f
  <1> DEFINE w == << a, b, c, d, e, f >>
  <1>1. Len(w) = 6 /\ w[1] = a /\ w[2] = b /\ w[3] = c /\ w[4] = d /\ w[5] = e /\ w[6] = f
    OBVIOUS
  <1>2. Chunk(i, w) /\ 6 \in Nat
    OBVIOUS
  <1> HIDE DEF w
  <1>3. /\ LineOK /\ i \in Nat /\ i + 6 < Len(src) /\ Peek(i + 6) = " "
        /\ \A x \in Nat : x < 6 => Peek(i + x) = w[x + 1]
    BY <1>1, <1>2, ChunkEach, Zenon
  <1>4. /\ 0 \in Nat /\ 0 < 6 /\ 1 \in Nat /\ 1 < 6 /\ 2 \in Nat /\ 2 < 6
        /\ 3 \in Nat /\ 3 < 6 /\ 4 \in Nat /\ 4 < 6 /\ 5 \in Nat /\ 5 < 6
        /\ 0 + 1 = 1 /\ 1 + 1 = 2 /\ 2 + 1 = 3 /\ 3 + 1 = 4 /\ 4 + 1 = 5 /\ 5 + 1 = 6
        /\ i + 0 = i
    <2>1. i \in Nat
      BY <1>3, Zenon
    <2>2. QED
      BY <2>1
  <1>5. /\ Peek(i) = a /\ Peek(i + 1) = b /\ Peek(i + 2) = c
        /\ Peek(i + 3) = d /\ Peek(i + 4) = e /\ Peek(i + 5) = f
    BY <1>1, <1>3, <1>4, Zenon
  <1>6. QED
    BY <1>3, <1>5, Zenon

(* Which characters are which. *)
LEMMA SignFacts ==
  /\ "1" \in Digits /\ "2" \in Digits /\ "3" \in Digits
  /\ "|" \notin Digits /\ ">" \notin Digits /\ "<" \notin Digits /\ "&" \notin Digits
  /\ " " \notin Digits /\ "," \notin Digits
  /\ "|" \notin WordChars /\ ">" \notin WordChars /\ "<" \notin WordChars /\ " " \notin WordChars
  <1>1. /\ "1" \in Digits /\ "2" \in Digits /\ "3" \in Digits
        /\ "|" \notin Digits /\ ">" \notin Digits /\ "<" \notin Digits /\ "&" \notin Digits
        /\ " " \notin Digits /\ "," \notin Digits
    BY DigitsAre
  <1>2. "|" \in Breaks /\ ">" \in Breaks /\ "<" \in Breaks /\ " " \in Breaks
    BY DEF Breaks, Spaces
  <1>3. QED
    BY <1>1, <1>2, CharsOK

(* No pipe and no redirection starts with a blank or a word.               *)
OneBlank(i) == Peek(i) = " " /\ Peek(i + 1) # " "

LEMMA BlankParse ==
  ASSUME LineOK, NEW i \in Nat, i < Len(src), OneBlank(i)
  PROVE  /\ ~PipeOpens(i) /\ ~RedirOpens(i)
         /\ LiteralAt(i) = Parsed(WhiteSpace, i + 1)
  <1>1. /\ Peek(i) # "|" /\ Peek(i) # ">" /\ Peek(i) # "<" /\ Peek(i) # "&"
        /\ Peek(i) \notin Digits \cup {"&"}
    BY SignFacts DEF OneBlank
  <1>2. ~PipeOpens(i)
    BY <1>1, Zenon DEF PipeOpens
  <1>3. ~RedirOpens(i)
    <2>1. Peek(i) \notin {">", "<"}
      BY <1>1
    <2>2. QED
      BY <1>1, <2>1, Zenon DEF RedirOpens
  <1>4. Skip(i, {" "}) = i + 1
    <2>1. /\ i \in 0 .. Len(src) /\ i + 1 \in i .. Len(src) /\ i .. (i + 1) - 1 = {i}
      BY LineLength
    <2>2. Peek(i + 1) \notin {" "} /\ \A k \in i .. (i + 1) - 1 : Peek(k) \in {" "}
      BY <2>1 DEF OneBlank
    <2>3. "end" \notin {" "}
      OBVIOUS
    <2>4. QED
      BY <2>1, <2>2, <2>3, SkipIs, Zenon
  <1>5. Peek(i) \in Spaces
    BY DEF Spaces, OneBlank
  <1>6. QED
    BY <1>2, <1>3, <1>4, <1>5, Zenon DEF LiteralAt

LEMMA WordParse ==
  ASSUME NEW i, NEW w \in Names, Chunk(i, w)
  PROVE  /\ ~PipeOpens(i) /\ ~RedirOpens(i)
         /\ LiteralAt(i) = Parsed(Literal(w), i + Len(w))
  <1> DEFINE l == Len(w)
             e == i + l
  <1>1. w \in Seq(WordChars) /\ l \in Nat \ {0} /\ \A x \in 1 .. l : w[x] \in WordChars
    BY LenProperties, EmptySeq, ElementOfSeq DEF Names
  <1>2. /\ LineOK /\ i \in Nat /\ e < Len(src) /\ Len(src) \in Nat
        /\ \A x \in 1 .. l : src[i + x] = w[x]
    BY LineLength DEF Chunk
  <1>3. /\ \A x \in 1 .. l : Peek(i + x - 1) = w[x]
        /\ Peek(e) = " "
    BY ChunkPeeks
  <1>4. \A k \in i .. e - 1 : Peek(k) \in WordChars
    <2>1. SUFFICES ASSUME NEW k \in i .. e - 1 PROVE Peek(k) \in WordChars
      OBVIOUS
    <2> HIDE DEF l
    <2>2. (k - i) + 1 \in 1 .. l /\ i + ((k - i) + 1) - 1 = k
      BY <1>1, <1>2
    <2>3. QED
      BY <1>1, <1>3, <2>2
  <1>5. /\ i \in 0 .. Len(src) /\ e \in i .. Len(src) /\ e \in i + 1 .. Len(src) /\ i \in i .. e - 1
        /\ i + 1 \in 0 .. Len(src) /\ e \in Nat
    <2> HIDE DEF l
    <2>1. QED
      BY <1>1, <1>2
  <1> HIDE DEF l, e
  <1>6. \A k \in i .. e : Peek(k) # "|" /\ Peek(k) # ">" /\ Peek(k) # "<"
    <2>1. \A k \in i .. e : k = e \/ k \in i .. e - 1
      BY <1>2, <1>5
    <2>2. " " # "|" /\ " " # ">" /\ " " # "<"
      OBVIOUS
    <2>3. \A k \in i .. e - 1 : Peek(k) # "|" /\ Peek(k) # ">" /\ Peek(k) # "<"
      BY <1>4, SignFacts, Zenon
    <2>4. QED
      BY <1>3, <2>1, <2>2, <2>3, Zenon
  <1>7. Peek(i) # "|" /\ Peek(i) # ">" /\ Peek(i) # "<" /\ Peek(i + 1) # "|" /\ Peek(i + 1) # ">"
    <2>1. i \in i .. e /\ i + 1 \in i .. e
      BY <1>2, <1>5
    <2>2. QED
      BY <1>6, <2>1, Zenon
  <1>8. ~RedirOpens(i)
    <2>1. Peek(i) \notin {">", "<"}
      BY <1>7
    <2>2. QED
      BY <1>7, <2>1, Zenon DEF RedirOpens
  <1>9. ~PipeOpens(i)
    <2> DEFINE bar == Skip(i + 1, Digits \cup {","})
    <2>1. Peek(bar) # "|"
      <3>1. "end" \notin Digits \cup {","}
        BY DigitsOK
      <3>2. bar \in i + 1 .. Len(src) /\ \A k \in i + 1 .. bar - 1 : Peek(k) \in Digits \cup {","}
        BY <1>2, <1>5, <3>1, SkipSkips
      <3> HIDE DEF bar
      <3>3. " " \notin Digits \cup {","}
        BY SignFacts
      <3>9. bar \in i + 1 .. Len(src) /\ i \in Nat /\ e \in i + 1 .. Len(src) /\ Len(src) \in Nat
        BY <1>2, <1>5, <3>2, Zenon
      <3>4. ~(e < bar)
        <4>1. e < bar => e \in i + 1 .. bar - 1
          BY <3>9
        <4>2. QED
          BY <1>3, <3>2, <3>3, <4>1, Zenon
      <3>5. bar \in i .. e
        BY <3>4, <3>9
      <3>6. QED
        BY <1>6, <3>5, Zenon
    <2>2. QED
      BY <1>7, <2>1, Zenon DEF PipeOpens
  <1>10. Skip(i, WordChars) = e
    <2>1. Peek(e) \notin WordChars
      BY <1>3, SignFacts
    <2>2. QED
      BY <1>2, <1>4, <1>5, <2>1, CharsOK, SkipIs
  <1>11. Peek(i) \notin Spaces
    <2>1. Peek(i) \in WordChars
      BY <1>4, <1>5
    <2>2. QED
      BY <2>1, CharsOK DEF Breaks
  <1>12. SubSeq(src, i + 1, e) = w
    <2> DEFINE s == SubSeq(src, i + 1, e)
    <2>1. src \in Seq(Chars) /\ \A k \in i + 1 .. e : src[k] \in Chars
      <3>1. \A k \in i + 1 .. e : k \in 1 .. Len(src)
        BY <1>2, <1>5
      <3>2. src \in Seq(Chars)
        BY <1>2 DEF LineOK
      <3>3. QED
        BY <3>1, <3>2, ElementOfSeq
    <2>2. /\ s \in Seq(Chars) /\ Len(s) = IF i + 1 <= e THEN e - (i + 1) + 1 ELSE 0
          /\ \A k \in 1 .. e - (i + 1) + 1 : s[k] = src[(i + 1) + k - 1]
      BY <1>2, <1>5, <2>1, SubSeqProperties
    <2> HIDE DEF s
    <2>3. e - (i + 1) + 1 = l /\ i + 1 <= e /\ \A k \in 1 .. l : (i + 1) + k - 1 = i + k
      BY <1>1, <1>2 DEF e
    <2>4. Len(s) = l
      BY <2>2, <2>3
    <2>5. \A k \in 1 .. l : s[k] = w[k]
      BY <1>2, <2>2, <2>3
    <2>6. w \in Seq(Chars)
      BY NamesRead
    <2>7. s = w
      BY <2>2, <2>4, <2>5, <2>6, SeqEqual DEF l
    <2>8. QED
      BY <2>7 DEF s
  <1>13. QED
    BY <1>8, <1>9, <1>10, <1>11, <1>12, Zenon DEF LiteralAt, e, l

----------------------------------------------------------------------------
(* Each piece is read as what it stands for.                               *)
(* What a redirection's operator, at op, is read as.                       *)
LEMMA RedirReads ==
  ASSUME NEW i, NEW op, NEW zero, NEW one,
         op = IF Peek(i) = "&" THEN i + 2 ELSE NumEnd(i),
         zero = IF Peek(i) = "&" THEN {0, 1, 2} ELSE {NumOr(i, 0)},
         one = IF Peek(i) = "&" THEN {1, 1, 2} ELSE {NumOr(i, 1)}
  PROVE  /\ Peek(op) = ">" /\ Peek(op + 1) = ">" => RedirAt(i) = Parsed(Redirection(one, "append"), op + 2)
         /\ Peek(op) = "<" => RedirAt(i) = Parsed(Redirection(zero, "read"), op + 1)
         /\ Peek(op) = ">" /\ Peek(op + 1) # ">" => RedirAt(i) = Parsed(Redirection(one, "write"), op + 1)
  <1> DEFINE onePast == op + 1
             twoPast == op + 2
  <1>1. RedirAt(i) =
          CASE Peek(op) = ">" /\ Peek(onePast) = ">" -> Parsed(Redirection(one, "append"), twoPast)
            [] Peek(op) = "<"                       -> Parsed(Redirection(zero, "read"), onePast)
            [] Peek(op) = ">" /\ Peek(onePast) # ">" -> Parsed(Redirection(one, "write"), onePast)
            [] OTHER                                -> Malformed
    BY Zenon DEF RedirAt
  <1> HIDE DEF onePast, twoPast
  <1>2. Peek(op) = ">" /\ Peek(onePast) = ">" => RedirAt(i) = Parsed(Redirection(one, "append"), twoPast)
    BY <1>1
  <1>3. Peek(op) = "<" => RedirAt(i) = Parsed(Redirection(zero, "read"), onePast)
    BY <1>1
  <1>4. Peek(op) = ">" /\ Peek(onePast) # ">" => RedirAt(i) = Parsed(Redirection(one, "write"), onePast)
    BY <1>1
  <1>5. QED
    BY <1>2, <1>3, <1>4, Zenon DEF onePast, twoPast

(* A redirection does not look like a pipe.                                *)
LEMMA RedirNoPipe ==
  ASSUME LineOK, NEW i \in Nat, i + 1 < Len(src), Peek(i) # "|",
         Peek(i) = "&" \/ Peek(i) \in Digits => Peek(i + 1) = ">"
  PROVE  ~PipeOpens(i)
  <1>1. Peek(i) \in Digits \cup {"&"} => Peek(i + 1) # "|"
    BY SignFacts
  <1>2. ASSUME Peek(i) = "&" PROVE Skip(i + 1, Digits \cup {","}) = i + 1
    <2>1. "end" \notin Digits \cup {","} /\ Peek(i + 1) \notin Digits \cup {","}
      BY <1>2, SignFacts, DigitsOK
    <2> HIDE <1>2
    <2>2. i + 1 \in 0 .. Len(src) /\ i + 1 \in i + 1 .. Len(src) /\ i + 1 .. (i + 1) - 1 = {}
      BY LineLength
    <2>3. \A k \in i + 1 .. (i + 1) - 1 : Peek(k) \in Digits \cup {","}
      BY <2>2
    <2>4. QED
      BY <2>1, <2>2, <2>3, SkipIs, Zenon
  <1>3. Peek(i) = "&" => Peek(Skip(i + 1, Digits \cup {","})) # "|"
    <2>1. SUFFICES ASSUME Peek(i) = "&" PROVE Peek(Skip(i + 1, Digits \cup {","})) # "|"
      OBVIOUS
    <2>2. Peek(i + 1) = ">" /\ ">" # "|"
      BY <2>1
    <2>3. Skip(i + 1, Digits \cup {","}) = i + 1
      BY <1>2, <2>1
    <2>4. QED
      BY <2>2, <2>3, Zenon
  <1>4. QED
    BY <1>1, <1>3, Zenon DEF PipeOpens

(* The six forms of a redirection.                                         *)
RedirIs(i, w, t) ==
  ~PipeOpens(i) /\ RedirOpens(i) /\ RedirAt(i) = Parsed(t, i + Len(w))

LEMMA Apart ==
  /\ "|" # "&" /\ "|" # ">" /\ "|" # "<" /\ "&" # ">" /\ "&" # "<" /\ ">" # "<"
  /\ " " # ">" /\ " " # "|" /\ " " # "<" /\ " " # "&"
  /\ "1" # "&" /\ "2" # "&" /\ "1" # "|" /\ "2" # "|" /\ "1" # " " /\ "2" # " "
  OBVIOUS

LEMMA WriteParse ==
  ASSUME NEW i, Chunk(i, << ">" >>)
  PROVE  RedirIs(i, << ">" >>, Redirection({1}, "write"))
  <1>1. /\ LineOK /\ i \in Nat /\ i + 1 < Len(src) /\ Peek(i) = ">" /\ Peek(i + 1) = " "
    BY ChunkOne, Zenon
  <1>2. i \in 0 .. Len(src)
    BY ChunkStart, Zenon
  <1>3. Peek(i) \notin Digits /\ Peek(i) # "&" /\ Peek(i + 1) # ">" /\ Peek(i) # "|"
    BY <1>1, SignFacts, Apart, Zenon
  <1>4. NumEnd(i) = i /\ NumOr(i, 1) = 1
    BY <1>1, <1>2, <1>3, NoNumber, Zenon
  <1>5. ~PipeOpens(i)
    BY <1>1, <1>3, RedirNoPipe, Zenon
  <1>6. RedirAt(i) = Parsed(Redirection({1}, "write"), i + 1)
    BY <1>1, <1>3, <1>4, RedirReads, Zenon
  <1>7. RedirOpens(i)
    BY <1>1 DEF RedirOpens
  <1>8. Len(<< ">" >>) = 1
    OBVIOUS
  <1>9. QED
    BY <1>5, <1>6, <1>7, <1>8, Zenon DEF RedirIs
LEMMA AppendParse ==
  ASSUME NEW i, Chunk(i, << ">", ">" >>)
  PROVE  RedirIs(i, << ">", ">" >>, Redirection({1}, "append"))
  <1>1. /\ LineOK /\ i \in Nat /\ i + 2 < Len(src) /\ Peek(i) = ">" /\ Peek(i + 1) = ">"
    BY ChunkTwo, Zenon
  <1>2. i \in 0 .. Len(src) /\ i + 1 < Len(src)
    <2>1. i \in 0 .. Len(src) /\ i \in Nat /\ i + 2 < Len(src) /\ Len(src) \in Nat
      BY <1>1, ChunkStart, LineLength, Zenon
    <2>2. QED
      BY <2>1
  <1>3. Peek(i) \notin Digits /\ Peek(i) # "&" /\ Peek(i) # "|"
    BY <1>1, SignFacts, Apart, Zenon
  <1>4. NumEnd(i) = i /\ NumOr(i, 1) = 1
    BY <1>1, <1>2, <1>3, NoNumber, Zenon
  <1>5. ~PipeOpens(i)
    BY <1>1, <1>2, <1>3, RedirNoPipe, Zenon
  <1>6. RedirAt(i) = Parsed(Redirection({1}, "append"), i + 2)
    BY <1>1, <1>3, <1>4, RedirReads, Zenon
  <1>7. RedirOpens(i)
    BY <1>1 DEF RedirOpens
  <1>8. Len(<< ">", ">" >>) = 2
    OBVIOUS
  <1>9. QED
    BY <1>5, <1>6, <1>7, <1>8, Zenon DEF RedirIs

LEMMA ReadParse ==
  ASSUME NEW i, Chunk(i, << "<" >>)
  PROVE  RedirIs(i, << "<" >>, Redirection({0}, "read"))
  <1>1. /\ LineOK /\ i \in Nat /\ i + 1 < Len(src) /\ Peek(i) = "<"
    BY ChunkOne, Zenon
  <1>2. i \in 0 .. Len(src)
    BY ChunkStart, Zenon
  <1>3. Peek(i) \notin Digits /\ Peek(i) # "&" /\ Peek(i) # "|"
    BY <1>1, SignFacts, Apart, Zenon
  <1>4. NumEnd(i) = i /\ NumOr(i, 0) = 0
    BY <1>1, <1>2, <1>3, NoNumber, Zenon
  <1>5. ~PipeOpens(i)
    BY <1>1, <1>3, RedirNoPipe, Zenon
  <1>6. RedirAt(i) = Parsed(Redirection({0}, "read"), i + 1)
    BY <1>1, <1>3, <1>4, RedirReads, Zenon
  <1>7. RedirOpens(i)
    BY <1>1 DEF RedirOpens
  <1>8. Len(<< "<" >>) = 1
    OBVIOUS
  <1>9. QED
    BY <1>5, <1>6, <1>7, <1>8, Zenon DEF RedirIs

LEMMA WriteErrorsParse ==
  ASSUME NEW i, Chunk(i, << "2", ">" >>)
  PROVE  RedirIs(i, << "2", ">" >>, Redirection({2}, "write"))
  <1>1. /\ LineOK /\ i \in Nat /\ i + 2 < Len(src) /\ Peek(i) = "2" /\ Peek(i + 1) = ">"
        /\ Peek(i + 2) = " "
    BY ChunkTwo, Zenon
  <1>2. i \in 0 .. Len(src) /\ i + 1 < Len(src) /\ (i + 1) + 1 = i + 2
    <2>1. i \in 0 .. Len(src) /\ i \in Nat /\ i + 2 < Len(src) /\ Len(src) \in Nat
      BY <1>1, ChunkStart, LineLength, Zenon
    <2>2. QED
      BY <2>1
  <1>3. /\ Peek(i) \in Digits /\ Peek(i) # "&" /\ Peek(i) # "|" /\ Peek(i + 1) \notin Digits
        /\ Peek((i + 1) + 1) # ">" /\ Value(Peek(i)) = 2
    BY <1>1, <1>2, SignFacts, Apart, ValuesAre, Zenon
  <1>4. NumEnd(i) = i + 1 /\ NumOr(i, 1) = 2
    <2>1. 2 \in 1 .. 3
      OBVIOUS
    <2>2. QED
      BY <1>1, <1>2, <1>3, <2>1, OneDigit, Zenon
  <1>5. ~PipeOpens(i)
    BY <1>1, <1>2, <1>3, RedirNoPipe, Zenon
  <1>6. RedirAt(i) = Parsed(Redirection({2}, "write"), (i + 1) + 1)
    BY <1>1, <1>3, <1>4, RedirReads, Zenon
  <1>7. RedirOpens(i)
    BY <1>1, <1>3, Zenon DEF RedirOpens
  <1>8. Len(<< "2", ">" >>) = 2
    OBVIOUS
  <1>9. QED
    BY <1>2, <1>5, <1>6, <1>7, <1>8, Zenon DEF RedirIs

LEMMA WriteBothParse ==
  ASSUME NEW i, Chunk(i, << "&", ">", ">" >>)
  PROVE  RedirIs(i, << "&", ">", ">" >>, Redirection({1, 2}, "write"))
  <1>1. /\ LineOK /\ i \in Nat /\ i + 3 < Len(src) /\ Peek(i) = "&" /\ Peek(i + 1) = ">"
        /\ Peek(i + 2) = ">" /\ Peek(i + 3) = " "
    BY ChunkThree, Zenon
  <1>2. i \in 0 .. Len(src) /\ i + 1 < Len(src) /\ (i + 2) + 1 = i + 3
    <2>1. i \in 0 .. Len(src) /\ i \in Nat /\ i + 3 < Len(src) /\ Len(src) \in Nat
      BY <1>1, ChunkStart, LineLength, Zenon
    <2>2. QED
      BY <2>1
  <1>3. Peek(i) # "|" /\ Peek((i + 2) + 1) # ">"
    BY <1>1, <1>2, Apart, Zenon
  <1>5. ~PipeOpens(i)
    BY <1>1, <1>2, <1>3, RedirNoPipe, Zenon
  <1>6. RedirAt(i) = Parsed(Redirection({1, 1, 2}, "write"), (i + 2) + 1)
    BY <1>1, <1>3, RedirReads, Zenon
  <1>7. RedirOpens(i)
    BY <1>1 DEF RedirOpens
  <1>8. Len(<< "&", ">", ">" >>) = 3 /\ {1, 1, 2} = {1, 2}
    OBVIOUS
  <1>9. QED
    BY <1>2, <1>5, <1>6, <1>7, <1>8, Zenon DEF RedirIs

LEMMA AppendBothParse ==
  ASSUME NEW i, Chunk(i, << "&", ">", ">", ">" >>)
  PROVE  RedirIs(i, << "&", ">", ">", ">" >>, Redirection({1, 2}, "append"))
  <1>1. /\ LineOK /\ i \in Nat /\ i + 4 < Len(src) /\ Peek(i) = "&" /\ Peek(i + 1) = ">"
        /\ Peek(i + 2) = ">" /\ Peek(i + 3) = ">"
    BY ChunkFour, Zenon
  <1>2. i \in 0 .. Len(src) /\ i + 1 < Len(src) /\ (i + 2) + 1 = i + 3 /\ (i + 2) + 2 = i + 4
    <2>1. i \in 0 .. Len(src) /\ i \in Nat /\ i + 4 < Len(src) /\ Len(src) \in Nat
      BY <1>1, ChunkStart, LineLength, Zenon
    <2>2. QED
      BY <2>1
  <1>3. Peek(i) # "|" /\ Peek((i + 2) + 1) = ">"
    BY <1>1, <1>2, Apart, Zenon
  <1>5. ~PipeOpens(i)
    BY <1>1, <1>2, <1>3, RedirNoPipe, Zenon
  <1>6. RedirAt(i) = Parsed(Redirection({1, 1, 2}, "append"), (i + 2) + 2)
    BY <1>1, <1>3, RedirReads, Zenon
  <1>7. RedirOpens(i)
    BY <1>1 DEF RedirOpens
  <1>8. Len(<< "&", ">", ">", ">" >>) = 4 /\ {1, 1, 2} = {1, 2}
    OBVIOUS
  <1>9. QED
    BY <1>2, <1>5, <1>6, <1>7, <1>8, Zenon DEF RedirIs

LEMMA RedirParse ==
  ASSUME NEW i, NEW f \in RedirForms, Chunk(i, f[1])
  PROVE  RedirIs(i, f[1], Redirection(f[2], f[3]))
  BY RedirCases, WriteParse, AppendParse, ReadParse, WriteErrorsParse, WriteBothParse,
     AppendBothParse, Zenon

(* The five forms of a pipe.                                               *)
PipeIs(i, w, t) == PipeOpens(i) /\ PipeAt(i) = Parsed(t, i + Len(w))

LEMMA PipeReads ==
  ASSUME NEW writers, NEW bar, Peek(bar) = "|"
  PROVE  PipeTo(writers, bar) = Parsed(Pipe(writers, NumOr(bar + 1, 0)), NumEnd(bar + 1))
  BY Zenon DEF PipeTo

LEMMA NumberedPipe ==
  ASSUME NEW i, NEW bar, NEW n, Peek(i) # "&", NumEnd(i) = bar, NumOr(i, 1) = n, Peek(bar) = "|"
  PROVE  PipeAt(i) = Parsed(Pipe({n}, NumOr(bar + 1, 0)), NumEnd(bar + 1))
  BY PipeReads, Zenon DEF PipeAt

LEMMA BarParse ==
  ASSUME NEW i, Chunk(i, << "|" >>)
  PROVE  PipeIs(i, << "|" >>, Pipe({1}, 0))
  <1>1. /\ LineOK /\ i \in Nat /\ i + 1 < Len(src) /\ Peek(i) = "|" /\ Peek(i + 1) = " "
    BY ChunkOne, Zenon
  <1>2. i \in 0 .. Len(src) /\ i + 1 \in 0 .. Len(src)
    <2>1. i \in 0 .. Len(src) /\ i \in Nat /\ i + 1 < Len(src) /\ Len(src) \in Nat
      BY <1>1, ChunkStart, LineLength, Zenon
    <2>2. QED
      BY <2>1
  <1>3. Peek(i) \notin Digits /\ Peek(i) # "&" /\ Peek(i + 1) \notin Digits
    BY <1>1, SignFacts, Apart, Zenon
  <1>4. NumEnd(i) = i /\ NumOr(i, 1) = 1 /\ NumEnd(i + 1) = i + 1 /\ NumOr(i + 1, 0) = 0
    BY <1>1, <1>2, <1>3, NoNumber, Zenon
  <1>5. PipeAt(i) = Parsed(Pipe({1}, 0), i + 1)
    BY <1>1, <1>3, <1>4, NumberedPipe, Zenon
  <1>6. PipeOpens(i)
    BY <1>1, Zenon DEF PipeOpens
  <1>7. Len(<< "|" >>) = 1
    OBVIOUS
  <1>8. QED
    BY <1>5, <1>6, <1>7, Zenon DEF PipeIs

LEMMA ErrorBarParse ==
  ASSUME NEW i, Chunk(i, << "2", "|" >>)
  PROVE  PipeIs(i, << "2", "|" >>, Pipe({2}, 0))
  <1>1. /\ LineOK /\ i \in Nat /\ i + 2 < Len(src) /\ Peek(i) = "2" /\ Peek(i + 1) = "|"
        /\ Peek(i + 2) = " "
    BY ChunkTwo, Zenon
  <1>2. i \in 0 .. Len(src) /\ i + 2 \in 0 .. Len(src) /\ (i + 1) + 1 = i + 2
    <2>1. i \in 0 .. Len(src) /\ i \in Nat /\ i + 2 < Len(src) /\ Len(src) \in Nat
      BY <1>1, ChunkStart, LineLength, Zenon
    <2>2. QED
      BY <2>1
  <1>3. /\ Peek(i) \in Digits /\ Peek(i) # "&" /\ Peek(i + 1) \notin Digits
        /\ Peek(i + 2) \notin Digits /\ Value(Peek(i)) = 2
    BY <1>1, SignFacts, Apart, ValuesAre, Zenon
  <1>4. NumEnd(i) = i + 1 /\ NumOr(i, 1) = 2
    <2>1. 2 \in 1 .. 3
      OBVIOUS
    <2>2. QED
      BY <1>1, <1>2, <1>3, <2>1, OneDigit, Zenon
  <1>5. NumEnd((i + 1) + 1) = i + 2 /\ NumOr((i + 1) + 1, 0) = 0
    BY <1>1, <1>2, <1>3, NoNumber, Zenon
  <1>6. PipeAt(i) = Parsed(Pipe({2}, 0), i + 2)
    BY <1>1, <1>3, <1>4, <1>5, NumberedPipe, Zenon
  <1>7. PipeOpens(i)
    <2>1. Peek(i) \in Digits \cup {"&"}
      BY <1>3
    <2>2. QED
      BY <1>1, <2>1, Zenon DEF PipeOpens
  <1>8. Len(<< "2", "|" >>) = 2
    OBVIOUS
  <1>9. QED
    BY <1>6, <1>7, <1>8, Zenon DEF PipeIs

LEMMA BarToParse ==
  ASSUME NEW i, Chunk(i, << "1", "|", "3" >>)
  PROVE  PipeIs(i, << "1", "|", "3" >>, Pipe({1}, 3))
  <1>1. /\ LineOK /\ i \in Nat /\ i + 3 < Len(src) /\ Peek(i) = "1" /\ Peek(i + 1) = "|"
        /\ Peek(i + 2) = "3" /\ Peek(i + 3) = " "
    BY ChunkThree, Zenon
  <1>2. /\ i \in 0 .. Len(src) /\ i + 2 \in 0 .. Len(src) /\ (i + 1) + 1 = i + 2
        /\ (i + 2) + 1 = i + 3
    <2>1. i \in 0 .. Len(src) /\ i \in Nat /\ i + 3 < Len(src) /\ Len(src) \in Nat
      BY <1>1, ChunkStart, LineLength, Zenon
    <2>2. QED
      BY <2>1
  <1>3. /\ Peek(i) \in Digits /\ Peek(i) # "&" /\ Peek(i + 1) \notin Digits /\ Value(Peek(i)) = 1
        /\ Peek(i + 2) \in Digits /\ Value(Peek(i + 2)) = 3 /\ Peek((i + 2) + 1) \notin Digits
    BY <1>1, <1>2, SignFacts, Apart, ValuesAre, Zenon
  <1>4. NumEnd(i) = i + 1 /\ NumOr(i, 1) = 1
    <2>1. 1 \in 1 .. 3
      OBVIOUS
    <2>2. QED
      BY <1>1, <1>2, <1>3, <2>1, OneDigit, Zenon
  <1>5. NumEnd((i + 1) + 1) = i + 3 /\ NumOr((i + 1) + 1, 0) = 3
    <2>1. 3 \in 1 .. 3
      OBVIOUS
    <2>2. NumEnd(i + 2) = (i + 2) + 1 /\ NumOr(i + 2, 0) = 3
      BY <1>1, <1>2, <1>3, <2>1, OneDigit, Zenon
    <2>3. QED
      BY <1>2, <2>2, Zenon
  <1>6. PipeAt(i) = Parsed(Pipe({1}, 3), i + 3)
    BY <1>1, <1>3, <1>4, <1>5, NumberedPipe, ZenonT(40)
  <1>7. PipeOpens(i)
    <2>1. Peek(i) \in Digits \cup {"&"}
      BY <1>3
    <2>2. QED
      BY <1>1, <2>1, Zenon DEF PipeOpens
  <1>8. Len(<< "1", "|", "3" >>) = 3
    OBVIOUS
  <1>9. QED
    BY <1>6, <1>7, <1>8, Zenon DEF PipeIs

LEMMA ListedPipe ==
  ASSUME NEW i, NEW bar, NEW writers, Peek(i) = "&", Peek(i + 1) = "|", Peek(bar) = "|",
         Numbers(i + 2).end = bar, Len(Numbers(i + 2).nums) # 1,
         writers = IF Numbers(i + 2).nums = <<>> THEN {1, 2} ELSE Range(Numbers(i + 2).nums)
  PROVE  /\ PipeOpens(i)
         /\ PipeAt(i) = Parsed(Pipe(writers, NumOr(bar + 1, 0)), NumEnd(bar + 1))
  <1>1. PipeAt(i) = PipeTo(writers, bar)
    BY Zenon DEF PipeAt
  <1>2. Peek(i) \in Digits \cup {"&"}
    OBVIOUS
  <1>3. PipeOpens(i)
    BY <1>2, Zenon DEF PipeOpens
  <1>4. QED
    BY <1>1, <1>3, PipeReads, Zenon

LEMMA BothBarParse ==
  ASSUME NEW i, Chunk(i, << "&", "|", "|" >>)
  PROVE  PipeIs(i, << "&", "|", "|" >>, Pipe({1, 2}, 0))
  <1>1. /\ LineOK /\ i \in Nat /\ i + 3 < Len(src) /\ Peek(i) = "&" /\ Peek(i + 1) = "|"
        /\ Peek(i + 2) = "|" /\ Peek(i + 3) = " "
    BY ChunkThree, Zenon
  <1>2. /\ i + 2 \in 0 .. Len(src) /\ i + 3 \in 0 .. Len(src) /\ (i + 2) + 1 = i + 3
    <2>1. i \in 0 .. Len(src) /\ i \in Nat /\ i + 3 < Len(src) /\ Len(src) \in Nat
      BY <1>1, ChunkStart, LineLength, Zenon
    <2>2. QED
      BY <2>1
  <1>3. Peek(i + 2) \notin Digits /\ Peek(i + 3) \notin Digits
    BY <1>1, SignFacts, Zenon
  <1>4. Numbers(i + 2).nums = <<>> /\ Numbers(i + 2).end = i + 2
    BY <1>1, <1>2, <1>3, NoNumbers, Zenon
  <1>5. Len(<<>>) # 1
    OBVIOUS
  <1>6. NumEnd((i + 2) + 1) = i + 3 /\ NumOr((i + 2) + 1, 0) = 0
    BY <1>1, <1>2, <1>3, NoNumber, Zenon
  <1>7. PipeOpens(i) /\ PipeAt(i) = Parsed(Pipe({1, 2}, NumOr((i + 2) + 1, 0)), NumEnd((i + 2) + 1))
    BY <1>1, <1>4, <1>5, ListedPipe, Zenon
  <1>8. Len(<< "&", "|", "|" >>) = 3
    OBVIOUS
  <1>9. QED
    BY <1>6, <1>7, <1>8, Zenon DEF PipeIs

LEMMA SixOn ==
  ASSUME NEW m \in Nat, NEW n \in Nat, m + 6 < n
  PROVE  /\ m + 2 \in Nat /\ m + 6 \in 0 .. n /\ (m + 2) + 3 < n
         /\ (m + 2) + 1 = m + 3 /\ (m + 2) + 2 = m + 4 /\ (m + 2) + 3 = m + 5 /\ (m + 5) + 1 = m + 6
  OBVIOUS

LEMMA ListBarParse ==
  ASSUME NEW i, Chunk(i, << "&", "|", "1", ",", "2", "|" >>)
  PROVE  PipeIs(i, << "&", "|", "1", ",", "2", "|" >>, Pipe({1, 2}, 0))
  <1>1. PICK a, b, c, d, e, f : a = "&" /\ b = "|" /\ c = "1" /\ d = "," /\ e = "2" /\ f = "|"
    OBVIOUS
  <1>2. Chunk(i, << a, b, c, d, e, f >>)
    BY <1>1, Zenon
  <1>3. /\ LineOK /\ i \in Nat /\ i + 6 < Len(src) /\ Peek(i + 6) = " "
        /\ Peek(i) = a /\ Peek(i + 1) = b /\ Peek(i + 2) = c /\ Peek(i + 3) = d
        /\ Peek(i + 4) = e /\ Peek(i + 5) = f
    BY <1>2, ChunkSix, Zenon
  <1>4. /\ LineOK /\ i \in Nat /\ i + 6 < Len(src) /\ Peek(i) = "&" /\ Peek(i + 1) = "|"
        /\ Peek(i + 2) = "1" /\ Peek(i + 3) = "," /\ Peek(i + 4) = "2" /\ Peek(i + 5) = "|"
        /\ Peek(i + 6) = " "
    BY <1>1, <1>3, Zenon
  <1>5. /\ i + 2 \in Nat /\ i + 6 \in 0 .. Len(src) /\ (i + 2) + 3 < Len(src)
        /\ (i + 2) + 1 = i + 3 /\ (i + 2) + 2 = i + 4 /\ (i + 2) + 3 = i + 5 /\ (i + 5) + 1 = i + 6
    <2>1. i \in 0 .. Len(src) /\ i \in Nat /\ i + 6 < Len(src) /\ Len(src) \in Nat
      BY <1>4, ChunkStart, LineLength, Zenon
    <2>2. QED
      BY <2>1, SixOn, Zenon
  <1>6. OneCommaTwo(i + 2)
    BY <1>4, <1>5, Zenon DEF OneCommaTwo
  <1>7. Numbers(i + 2).nums = << 1 >> \o << 2 >> /\ Numbers(i + 2).end = (i + 2) + 3
    BY <1>4, <1>5, <1>6, TwoNumbers, Zenon
  <1>8. /\ Numbers(i + 2).nums # <<>> /\ Len(Numbers(i + 2).nums) # 1
        /\ Range(Numbers(i + 2).nums) = {1, 2}
    BY <1>7, PairFacts, Zenon
  <1>9. NumEnd((i + 5) + 1) = i + 6 /\ NumOr((i + 5) + 1, 0) = 0
    BY <1>4, <1>5, SignFacts, NoNumber, Zenon
  <1>10. Numbers(i + 2).end = i + 5
    BY <1>5, <1>7, Zenon
  <1>11. PipeOpens(i) /\ PipeAt(i) = Parsed(Pipe({1, 2}, NumOr((i + 5) + 1, 0)), NumEnd((i + 5) + 1))
    BY <1>4, <1>8, <1>10, ListedPipe, Zenon
  <1>12. Len(<< "&", "|", "1", ",", "2", "|" >>) = 6
    OBVIOUS
  <1>13. QED
    BY <1>9, <1>11, <1>12, Zenon DEF PipeIs

LEMMA PipeParse ==
  ASSUME NEW i, NEW f \in PipeForms, Chunk(i, f[1])
  PROVE  PipeIs(i, f[1], Pipe(f[2], f[3]))
  BY PipeCases, BarParse, ErrorBarParse, BarToParse, BothBarParse, ListBarParse, Zenon

(* Whatever is meant is what the tokenizer's step appends, and it moves to *)
(* the blank behind it.                                                    *)
ParsesTo(i, t, end) ==
  \/ PipeOpens(i) /\ PipeAt(i) = Parsed(t, end)
  \/ ~PipeOpens(i) /\ RedirOpens(i) /\ RedirAt(i) = Parsed(t, end)
  \/ ~PipeOpens(i) /\ ~RedirOpens(i) /\ LiteralAt(i) = Parsed(t, end)

LEMMA PieceParses ==
  ASSUME NEW i, NEW w, NEW t, Chunk(i, w), Reads(w, t)
  PROVE  ParsesTo(i, t, i + Len(w))
  <1>1. CASE w \in Names /\ t = Literal(w)
    BY <1>1, WordParse, Zenon DEF ParsesTo
  <1>2. CASE \E f \in RedirForms : w = f[1] /\ t = Redirection(f[2], f[3])
    BY <1>2, RedirParse, Zenon DEF ParsesTo, RedirIs
  <1>3. CASE \E f \in PipeForms : w = f[1] /\ t = Pipe(f[2], f[3])
    BY <1>3, PipeParse, Zenon DEF ParsesTo, PipeIs
  <1>4. QED
    BY <1>1, <1>2, <1>3, Zenon DEF Reads

LEMMA ScanStep ==
  ASSUME NEW t, NEW end, ParsesTo(cursor, t, end), Tokenize, cursor # Len(src)
  PROVE  cursor' = end /\ stream' = Append(stream, t) /\ src' = src /\ phase' = phase
  <1>1. Take(Parsed(t, end))
    BY Zenon DEF ParsesTo, Tokenize, ParsePipe, ParseRedir, ParseLiteral, ParseEnd
  <1>2. Parsed(t, end).ok /\ Parsed(t, end).token = t /\ Parsed(t, end).end = end
    BY DEF Parsed
  <1>3. QED
    BY <1>1, <1>2, Zenon DEF Take

LEMMA PieceStarts ==
  ASSUME NEW w, NEW t, Reads(w, t), w \in Seq(Chars)
  PROVE  Len(w) \in Nat \ {0} /\ w[1] # " "
  <1>1. CASE w \in Names
    <2>1. w \in Seq(WordChars) /\ Len(w) \in Nat \ {0} /\ 1 \in 1 .. Len(w)
      BY <1>1, LenProperties, EmptySeq DEF Names
    <2>2. w[1] \in WordChars
      BY <2>1, ElementOfSeq
    <2>3. QED
      BY <2>1, <2>2, SignFacts
  <1>2. CASE \E f \in RedirForms : w = f[1]
    <2>1. w \in {<< ">" >>, << "2", ">" >>, << "&", ">", ">" >>, << ">", ">" >>,
                 << "&", ">", ">", ">" >>, << "<" >>}
      BY <1>2, RedirCases, Zenon
    <2>2. /\ << ">" >>[1] # " " /\ << "2", ">" >>[1] # " " /\ << "&", ">", ">" >>[1] # " "
          /\ << ">", ">" >>[1] # " " /\ << "&", ">", ">", ">" >>[1] # " " /\ << "<" >>[1] # " "
      OBVIOUS
    <2>3. /\ << ">" >> # <<>> /\ << "2", ">" >> # <<>> /\ << "&", ">", ">" >> # <<>>
          /\ << ">", ">" >> # <<>> /\ << "&", ">", ">", ">" >> # <<>> /\ << "<" >> # <<>>
      OBVIOUS
    <2>4. w # <<>> /\ w[1] # " "
      BY <2>1, <2>2, <2>3, Zenon
    <2>5. QED
      BY <2>4, LenProperties, EmptySeq
  <1>3. CASE \E f \in PipeForms : w = f[1]
    <2>1. w \in {<< "|" >>, << "2", "|" >>, << "1", "|", "3" >>, << "&", "|", "|" >>,
                 << "&", "|", "1", ",", "2", "|" >>}
      BY <1>3, PipeCases, Zenon
    <2>2. /\ << "|" >>[1] # " " /\ << "2", "|" >>[1] # " " /\ << "1", "|", "3" >>[1] # " "
          /\ << "&", "|", "|" >>[1] # " " /\ << "&", "|", "1", ",", "2", "|" >>[1] # " "
      OBVIOUS
    <2>3. /\ << "|" >> # <<>> /\ << "2", "|" >> # <<>> /\ << "1", "|", "3" >> # <<>>
          /\ << "&", "|", "|" >> # <<>> /\ << "&", "|", "1", ",", "2", "|" >> # <<>>
      OBVIOUS
    <2>4. w # <<>> /\ w[1] # " "
      BY <2>1, <2>2, <2>3, Zenon
    <2>5. QED
      BY <2>4, LenProperties, EmptySeq
  <1>4. QED
    BY <1>1, <1>2, <1>3, Zenon DEF Reads

----------------------------------------------------------------------------
(* The scan of a job: piece after piece, each with its blank, no error.    *)
(* The pieces lie in the line one behind the other, each with its blank.   *)
Laid(at, ps) ==
  /\ at \in [1 .. Len(ps) + 1 -> Nat] /\ at[1] = 0 /\ at[Len(ps) + 1] = Len(src)
  /\ \A k \in 1 .. Len(ps) : at[k + 1] = at[k] + Len(ps[k]) + 1 /\ Chunk(at[k], ps[k])

(* The tokens s begin with ts, white space behind each of them.            *)
Begins(s, ts) ==
  \A k \in 1 .. Len(ts) :
    /\ 2 * k - 1 <= Len(s) => s[2 * k - 1] = ts[k]
    /\ 2 * k <= Len(s) => s[2 * k] = WhiteSpace

(* The cursor is at a piece, or at the blank behind it.                    *)
AtPiece(at, ps, m) == m \in 0 .. Len(ps) /\ Len(stream) = 2 * m /\ cursor = at[m + 1]
AtBlank(at, ps, m) ==
  m \in 0 .. Len(ps) - 1 /\ Len(stream) = 2 * m + 1 /\ cursor = at[m + 1] + Len(ps[m + 1])

Scanned(at, ps, ts) ==
  /\ Laid(at, ps) /\ Begins(stream, ts)
  /\ phase = "scan" => \E m : AtPiece(at, ps, m) \/ AtBlank(at, ps, m)
  /\ phase \in {"done", "built"} => Len(stream) = 2 * Len(ps) + 1

(* The scan of a documented job has met no error and is somewhere in its   *)
(* pieces; what it has read so far are the tokens they stand for.          *)
JobInv ==
  job # <<>> =>
    /\ job \in Jobs /\ phase # "error"
    /\ \E at : Scanned(at, JobPieces(job), JobMeanings(job))

LEMMA BeginsOn ==
  ASSUME NEW S, NEW s \in Seq(S), NEW ts, Begins(s, ts), Len(ts) \in Nat, NEW t,
         \A k \in 1 .. Len(ts) : /\ Len(s) + 1 = 2 * k - 1 => t = ts[k]
                                 /\ Len(s) + 1 = 2 * k => t = WhiteSpace
  PROVE  Begins(Append(s, t), ts)
  <1> DEFINE u == Append(s, t)
             n == Len(s)
  <1>1. n \in Nat
    BY LenProperties
  <1>2. Len(u) = n + 1 /\ u[n + 1] = t /\ \A k \in 1 .. n : u[k] = s[k]
    <2>1. s \in Seq(S \cup {t}) /\ t \in S \cup {t}
      BY SeqMonotonic
    <2>2. QED
      BY <2>1, AppendProperties
  <1> HIDE DEF u
  <1>3. ASSUME NEW k \in 1 .. Len(ts), 2 * k - 1 <= n + 1 PROVE u[2 * k - 1] = ts[k]
    <2>1. 2 * k - 1 \in 1 .. n \/ n + 1 = 2 * k - 1
      BY <1>1, <1>3
    <2>2. CASE n + 1 = 2 * k - 1
      BY <1>2, <2>2
    <2>3. CASE 2 * k - 1 \in 1 .. n
      <3>1. 2 * k - 1 <= n
        BY <1>1, <2>3
      <3>2. u[2 * k - 1] = s[2 * k - 1]
        BY <1>2, <2>3, Zenon
      <3>3. QED
        BY <3>1, <3>2, Zenon DEF Begins, n
    <2>4. QED
      BY <2>1, <2>2, <2>3, Zenon
  <1>4. ASSUME NEW k \in 1 .. Len(ts), 2 * k <= n + 1 PROVE u[2 * k] = WhiteSpace
    <2>1. 2 * k \in 1 .. n \/ n + 1 = 2 * k
      BY <1>1, <1>4
    <2>2. CASE n + 1 = 2 * k
      BY <1>2, <2>2
    <2>3. CASE 2 * k \in 1 .. n
      <3>1. 2 * k <= n
        BY <1>1, <2>3
      <3>2. u[2 * k] = s[2 * k]
        BY <1>2, <2>3, Zenon
      <3>3. QED
        BY <3>1, <3>2, Zenon DEF Begins, n
    <2>4. QED
      BY <2>1, <2>2, <2>3, Zenon
  <1>5. QED
    BY <1>2, <1>3, <1>4, Zenon DEF Begins, u

(* The line of a job is its pieces.                                        *)
LEMMA TypedLies ==
  ASSUME LineOK, NEW ps \in Seq(Seq(Chars)), src = Spaced(ps)
  PROVE  \E at : Laid(at, ps)
  <1> DEFINE q == [k \in DOMAIN ps |-> ps[k] \o << " " >>]
             n == Len(ps)
  <1>1. q \in Seq(Seq(Chars)) /\ Len(q) = n /\ \A k \in 1 .. n : q[k] = ps[k] \o << " " >>
    BY SpacedPieces
  <1>2. src = Flat(q)
    BY DEF Spaced
  <1> HIDE DEF q
  <1>3. PICK at : Places(at, q, src)
    BY <1>1, <1>2, FlatPlaces
  <1>4. /\ at \in [1 .. n + 1 -> 0 .. Len(src)] /\ at[1] = 0 /\ at[n + 1] = Len(src)
        /\ \A k \in 1 .. n : /\ at[k + 1] = at[k] + Len(q[k])
                             /\ \A x \in 1 .. Len(q[k]) : src[at[k] + x] = q[k][x]
    BY <1>1, <1>3 DEF Places
  <1>5. n \in Nat /\ Len(src) \in Nat
    BY LineLength, LenProperties
  <1>6. ASSUME NEW k \in 1 .. n
        PROVE  at[k + 1] = at[k] + Len(ps[k]) + 1 /\ Chunk(at[k], ps[k])
    <2> DEFINE w == ps[k]
               l == Len(ps[k])
               c == q[k]
    <2>1. w \in Seq(Chars) /\ l \in Nat
      BY ElementOfSeq, LenProperties
    <2>2. /\ Len(c) = l + 1 /\ c[l + 1] = " "
          /\ \A x \in 1 .. l : c[x] = w[x]
      <3>1. c = w \o << " " >> /\ << " " >> \in Seq(Chars)
        <4>1. " " \in Chars
          BY SignChars
        <4>2. << " " >> \in Seq(Chars)
          BY <4>1, TupleTypes, Zenon
        <4>3. QED
          BY <1>1, <4>2
      <3>2. PICK b \in Seq(Chars) : b = << " " >> /\ Len(b) = 1 /\ b[1] = " "
        BY <3>1
      <3>3. /\ Len(w \o b) = Len(w) + Len(b)
            /\ \A x \in 1 .. Len(w) + Len(b) :
                 (w \o b)[x] = IF x <= Len(w) THEN w[x] ELSE b[x - Len(w)]
        BY <2>1, ConcatProperties
      <3> HIDE DEF w, c
      <3>4. c = w \o b /\ Len(b) = 1 /\ b[1] = " " /\ Len(w) = l
        BY <3>1, <3>2 DEF w
      <3> HIDE DEF l
      <3>5. \A x \in 1 .. l + 1 : c[x] = IF x <= l THEN w[x] ELSE b[x - l]
        BY <3>3, <3>4
      <3>6. /\ l + 1 \in 1 .. l + 1 /\ ~(l + 1 <= l) /\ (l + 1) - l = 1
            /\ \A x \in 1 .. l : x \in 1 .. l + 1 /\ x <= l
        BY <2>1
      <3>7. c[l + 1] = b[1] /\ \A x \in 1 .. l : c[x] = w[x]
        BY <3>5, <3>6, Zenon
      <3>8. QED
        BY <3>3, <3>4, <3>7
    <2>3. /\ at[k + 1] = at[k] + (l + 1)
          /\ \A x \in 1 .. l + 1 : src[at[k] + x] = c[x]
      BY <1>4, <2>2
    <2> HIDE DEF c, l
    <2>4. at[k] \in Nat /\ at[k + 1] \in Nat /\ at[k + 1] <= Len(src)
      <3>1. k \in 1 .. n + 1 /\ k + 1 \in 1 .. n + 1
        BY <1>5
      <3>2. at[k] \in 0 .. Len(src) /\ at[k + 1] \in 0 .. Len(src)
        BY <1>4, <3>1
      <3>3. QED
        BY <1>5, <3>2
    <2>5. /\ at[k] + (l + 1) = at[k] + l + 1 /\ at[k] + l < Len(src)
          /\ l + 1 \in 1 .. l + 1 /\ \A x \in 1 .. l : x \in 1 .. l + 1
      <3>1. PICK a \in Nat, b \in Nat : a = at[k] /\ b = at[k + 1]
        BY <2>4
      <3>2. b = a + (l + 1) /\ b <= Len(src)
        BY <2>3, <2>4, <3>1
      <3>3. /\ a + (l + 1) = a + l + 1 /\ a + l < Len(src)
            /\ l + 1 \in 1 .. l + 1 /\ \A x \in 1 .. l : x \in 1 .. l + 1
        BY <1>5, <2>1, <3>2
      <3>4. QED
        BY <3>1, <3>3
    <2>6. src[at[k] + l + 1] = " " /\ \A x \in 1 .. l : src[at[k] + x] = w[x]
      BY <2>2, <2>3, <2>5, Zenon
    <2>7. QED
      BY <2>1, <2>3, <2>4, <2>5, <2>6, Zenon DEF Chunk, l
  <1>7. at \in [1 .. n + 1 -> Nat]
    BY <1>4, <1>5
  <1>8. Laid(at, ps)
    BY <1>4, <1>6, <1>7 DEF Laid, n
  <1>9. QED
    BY <1>8, Zenon

LEMMA JobTypes ==
  ASSUME NEW j \in Jobs
  PROVE  /\ j \in Seq(UserStages) /\ j # <<>> /\ Len(Typed(j)) + 1 < MaxTokens
         /\ \A k \in DOMAIN j : j[k].pipes = <<>> <=> k = Len(j)
  BY JobsAssumption

LEMMA InitJobInv ==
  ASSUME Init
  PROVE  JobInv
  <1>1. SUFFICES ASSUME job # <<>>
                 PROVE  /\ job \in Jobs /\ phase # "error"
                        /\ \E at : Scanned(at, JobPieces(job), JobMeanings(job))
    BY DEF JobInv
  <1>2. /\ job \in Jobs /\ src = Typed(job) /\ cursor = 0 /\ stream = <<>> /\ phase = "scan"
    BY <1>1 DEF Init
  <1> DEFINE ps == JobPieces(job)
             ts == JobMeanings(job)
  <1>3. Agree(ps, ts) /\ src = Spaced(ps)
    BY <1>2, JobTypes, JobAgrees DEF Typed, JobPieces
  <1>4. LineOK
    BY <1>2, JobTypes, TypedType DEF LineOK
  <1>5. ps \in Seq(Seq(Chars)) /\ Len(ps) \in Nat /\ Len(ts) = Len(ps)
    BY <1>3, LenProperties DEF Agree
  <1>6. PICK at : Laid(at, ps)
    BY <1>3, <1>4, <1>5, TypedLies
  <1> HIDE DEF ps, ts
  <1>7. AtPiece(at, ps, 0)
    <2>1. Len(stream) = 0 /\ 0 \in 0 .. Len(ps) /\ at[0 + 1] = 0 /\ 2 * 0 = 0
      BY <1>2, <1>5, <1>6 DEF Laid
    <2>2. QED
      BY <1>2, <2>1 DEF AtPiece
  <1>8. Begins(stream, ts)
    <2>1. Len(stream) = 0
      BY <1>2
    <2>2. \A k \in 1 .. Len(ts) : ~(2 * k - 1 <= 0) /\ ~(2 * k <= 0)
      BY <1>5
    <2>3. QED
      BY <2>1, <2>2, Zenon DEF Begins
  <1>9. Scanned(at, ps, ts)
    BY <1>2, <1>6, <1>7, <1>8 DEF Scanned
  <1>10. QED
    BY <1>2, <1>9, Zenon DEF ps, ts

(* At a piece, the scan appends what the piece means.                      *)
LEMMA ScansPiece ==
  ASSUME NEW ps, NEW ts, Agree(ps, ts), NEW at, Laid(at, ps), NEW m, AtPiece(at, ps, m), m # Len(ps),
         Tokenize, TokInv
  PROVE  /\ m \in 0 .. Len(ps) - 1 /\ m \in Nat /\ Len(ps) \in Nat
         /\ cursor' = at[m + 1] + Len(ps[m + 1]) /\ stream' = Append(stream, ts[m + 1])
         /\ src' = src /\ phase' = phase
  <1>1. Len(ps) \in Nat /\ ps \in Seq(Seq(Chars)) /\ m \in 0 .. Len(ps) /\ cursor = at[m + 1]
    BY LenProperties DEF Agree, AtPiece
  <1>2. m \in 0 .. Len(ps) - 1 /\ m \in Nat /\ m + 1 \in 1 .. Len(ps)
    BY <1>1
  <1>3. Chunk(cursor, ps[m + 1]) /\ Reads(ps[m + 1], ts[m + 1])
    BY <1>1, <1>2 DEF Laid, Agree
  <1>4. ParsesTo(cursor, ts[m + 1], cursor + Len(ps[m + 1]))
    BY <1>3, PieceParses, Zenon
  <1>5. cursor # Len(src)
    <2>1. cursor \in Nat /\ Len(ps[m + 1]) \in Nat /\ cursor + Len(ps[m + 1]) < Len(src)
      BY <1>3 DEF Chunk
    <2>2. \A a, b, c \in Nat : a + b < c => a # c
      OBVIOUS
    <2>3. Len(src) \in Nat
      BY LineLength DEF TokInv
    <2>4. QED
      BY <2>1, <2>2, <2>3
  <1>6. QED
    BY <1>1, <1>2, <1>4, <1>5, ScanStep, Zenon

(* At a blank, it appends white space and moves to the next piece, or to   *)
(* the end.                                                                *)
LEMMA ScansBlank ==
  ASSUME NEW ps, NEW ts, Agree(ps, ts), NEW at, Laid(at, ps), NEW m, AtBlank(at, ps, m),
         Tokenize, TokInv
  PROVE  /\ m \in 0 .. Len(ps) - 1 /\ m \in Nat /\ Len(ps) \in Nat
         /\ cursor' = at[(m + 1) + 1] /\ stream' = Append(stream, WhiteSpace)
         /\ src' = src /\ phase' = phase
  <1> DEFINE w == ps[m + 1]
             i == at[m + 1]
             l == Len(ps[m + 1])
  <1>1. Len(ps) \in Nat /\ ps \in Seq(Seq(Chars)) /\ m \in 0 .. Len(ps) - 1 /\ cursor = i + l
    BY LenProperties DEF Agree, AtBlank
  <1>2. m \in Nat /\ m + 1 \in 1 .. Len(ps)
    BY <1>1
  <1>3. Chunk(i, w) /\ at[(m + 1) + 1] = i + l + 1
    BY <1>2 DEF Laid
  <1>4. Peek(cursor) = " "
    BY <1>1, <1>3, ChunkPeeks, Zenon
  <1>5. LineOK /\ i \in Nat /\ l \in Nat /\ cursor < Len(src) /\ Len(src) \in Nat
    BY <1>1, <1>3, LineLength DEF Chunk
  <1>6. cursor \in Nat /\ cursor + 1 = at[(m + 1) + 1] /\ cursor # Len(src)
    <2>1. PICK n \in Nat : n = Len(src)
      BY <1>5
    <2>2. cursor < n /\ cursor = i + l
      BY <1>1, <1>5, <2>1
    <2> HIDE <1>4
    <2> HIDE DEF i, l
    <2>3. cursor \in Nat /\ cursor + 1 = i + l + 1 /\ cursor # n
      BY <1>5, <2>2
    <2>4. QED
      BY <1>3, <2>1, <2>3, Zenon
  <1>7. Peek(cursor + 1) # " "
    <2>1. CASE m + 1 = Len(ps)
      <3>1. at[(m + 1) + 1] = Len(src)
        BY <2>1 DEF Laid
      <3>2. Peek(Len(src)) = "end"
        <4>1. ~(Len(src) < Len(src))
          BY <1>5
        <4>2. QED
          BY <4>1, Zenon DEF Peek
      <3>3. QED
        BY <1>6, <3>1, <3>2
    <2>2. CASE m + 1 # Len(ps)
      <3> DEFINE v == ps[(m + 1) + 1]
                 e == at[(m + 1) + 1]
      <3>1. (m + 1) + 1 \in 1 .. Len(ps)
        BY <1>1, <1>2, <2>2
      <3>2. Chunk(e, v) /\ Reads(v, ts[(m + 1) + 1]) /\ v \in Seq(Chars)
        BY <1>1, <3>1, ElementOfSeq DEF Laid, Agree
      <3>3. \A x, y \in Nat : x # 0 => 1 \in 1 .. x /\ y + 1 - 1 = y
        OBVIOUS
      <3>4. Len(v) \in Nat \ {0} /\ v[1] # " "
        BY <3>2, PieceStarts, Zenon
      <3>5. e \in Nat /\ Len(v) # 0
        BY <3>2, <3>4 DEF Chunk
      <3> HIDE DEF e, v
      <3>6. 1 \in 1 .. Len(v) /\ e + 1 - 1 = e
        BY <3>3, <3>4, <3>5, Zenon
      <3>7. Peek(e + 1 - 1) = v[1]
        BY <3>2, <3>6, ChunkPeeks, Zenon
      <3>8. Peek(e) # " "
        BY <3>4, <3>6, <3>7, Zenon
      <3>9. QED
        BY <1>6, <3>8, Zenon DEF e
    <2>3. QED
      BY <2>1, <2>2, Zenon
  <1>8. ~PipeOpens(cursor) /\ ~RedirOpens(cursor) /\ LiteralAt(cursor) = Parsed(WhiteSpace, cursor + 1)
    BY <1>4, <1>5, <1>6, <1>7, BlankParse, Zenon DEF OneBlank
  <1>9. ParsesTo(cursor, WhiteSpace, cursor + 1)
    BY <1>8, Zenon DEF ParsesTo
  <1>10. QED
    BY <1>1, <1>2, <1>6, <1>9, ScanStep, Zenon

(* Behind the last blank there is nothing but the end.                     *)
LEMMA ScansEnd ==
  ASSUME NEW ps, NEW at, Laid(at, ps), NEW m, AtPiece(at, ps, m), m = Len(ps), Tokenize, TokInv
  PROVE  stream' = Append(stream, EOF) /\ src' = src /\ phase' = "done" /\ m \in Nat
  <1>1. cursor = Len(src) /\ Len(src) \in Nat
    BY LineLength DEF AtPiece, Laid, TokInv
  <1>2. ~(cursor < Len(src))
    BY <1>1
  <1>3. ParseEnd
    BY <1>2 DEF Tokenize, ParsePipe, ParseRedir, ParseLiteral, Scanning
  <1>4. QED
    BY <1>3 DEF ParseEnd, AtPiece

LEMMA LaidStays ==
  ASSUME src' = src, NEW at, NEW ps, Laid(at, ps)
  PROVE  Laid(at, ps)'
  BY DEF Laid, Chunk, LineOK

LEMMA StepScanned ==
  ASSUME TokInv, Scan, NEW at, NEW ps, NEW ts, Agree(ps, ts), Scanned(at, ps, ts)
  PROVE  Scanned(at, ps, ts)' /\ phase' # "error"
  <1>1. Tokenize /\ phase = "scan"
    BY DEF Scan, Tokenize, ParsePipe, ParseRedir, ParseLiteral, ParseEnd, Scanning
  <1>2. Laid(at, ps) /\ Begins(stream, ts)
    BY DEF Scanned
  <1>3. PICK m : AtPiece(at, ps, m) \/ AtBlank(at, ps, m)
    BY <1>1 DEF Scanned
  <1>4. /\ stream \in Seq(TokenSet) /\ Len(stream) \in Nat /\ Len(ps) \in Nat /\ Len(ts) = Len(ps)
    BY <1>1, LenProperties DEF TokInv, Agree
  <1>5. ASSUME NEW t PROVE Len(Append(stream, t)) = Len(stream) + 1
    <2>1. stream \in Seq(TokenSet \cup {t}) /\ t \in TokenSet \cup {t}
      BY <1>4, SeqMonotonic
    <2>2. QED
      BY <2>1, AppendProperties
  <1>6. CASE AtPiece(at, ps, m) /\ m # Len(ps)
    <2>1. /\ m \in 0 .. Len(ps) - 1 /\ m \in Nat
          /\ cursor' = at[m + 1] + Len(ps[m + 1]) /\ stream' = Append(stream, ts[m + 1])
          /\ src' = src /\ phase' = phase
      BY <1>1, <1>2, <1>6, ScansPiece, Zenon
    <2>2. Len(stream) = 2 * m
      BY <1>6 DEF AtPiece
    <2>3. \A k \in 1 .. Len(ts) : /\ Len(stream) + 1 = 2 * k - 1 => k = m + 1
                                  /\ Len(stream) + 1 # 2 * k
      <3>1. \A a \in Nat, k \in Nat : (2 * a + 1 = 2 * k - 1 => k = a + 1) /\ 2 * a + 1 # 2 * k
        OBVIOUS
      <3>2. \A k \in 1 .. Len(ts) : k \in Nat
        OBVIOUS
      <3>3. QED
        BY <2>1, <2>2, <3>1, <3>2, Zenon
    <2>4. Begins(Append(stream, ts[m + 1]), ts)
      <3>1. \A k \in 1 .. Len(ts) : /\ Len(stream) + 1 = 2 * k - 1 => ts[m + 1] = ts[k]
                                    /\ Len(stream) + 1 = 2 * k => ts[m + 1] = WhiteSpace
        BY <2>3, Zenon
      <3>2. Len(ts) \in Nat
        BY <1>4
      <3>3. QED
        BY <1>2, <1>4, <3>1, <3>2, BeginsOn, Zenon
    <2>5. Len(stream') = 2 * m + 1
      BY <1>5, <2>1, <2>2
    <2>6. AtBlank(at, ps, m)'
      BY <2>1, <2>5 DEF AtBlank
    <2>7. phase' = "scan" /\ Laid(at, ps)'
      BY <1>1, <1>2, <2>1, LaidStays
    <2>8. Begins(stream, ts)'
      BY <2>1, <2>4
    <2>9. QED
      BY <2>6, <2>7, <2>8 DEF Scanned
  <1>7. CASE AtBlank(at, ps, m)
    <2>1. /\ m \in 0 .. Len(ps) - 1 /\ m \in Nat
          /\ cursor' = at[(m + 1) + 1] /\ stream' = Append(stream, WhiteSpace)
          /\ src' = src /\ phase' = phase
      BY <1>1, <1>2, <1>7, ScansBlank, Zenon
    <2>2. Len(stream) = 2 * m + 1
      BY <1>7 DEF AtBlank
    <2>3. \A k \in 1 .. Len(ts) : Len(stream) + 1 # 2 * k - 1
      <3>1. \A a \in Nat, k \in Nat : (2 * a + 1) + 1 # 2 * k - 1
        OBVIOUS
      <3>2. \A k \in 1 .. Len(ts) : k \in Nat
        OBVIOUS
      <3>3. QED
        BY <2>1, <2>2, <3>1, <3>2, Zenon
    <2>4. Begins(Append(stream, WhiteSpace), ts)
      <3>1. \A k \in 1 .. Len(ts) : /\ Len(stream) + 1 = 2 * k - 1 => WhiteSpace = ts[k]
                                    /\ Len(stream) + 1 = 2 * k => WhiteSpace = WhiteSpace
        BY <2>3, Zenon
      <3>2. Len(ts) \in Nat
        BY <1>4
      <3>3. QED
        BY <1>2, <1>4, <3>1, <3>2, BeginsOn, Zenon
    <2>5. Len(stream') = 2 * (m + 1) /\ m + 1 \in 0 .. Len(ps)
      BY <1>4, <1>5, <2>1, <2>2
    <2>6. AtPiece(at, ps, m + 1)'
      BY <2>1, <2>5 DEF AtPiece
    <2>7. phase' = "scan" /\ Laid(at, ps)'
      BY <1>1, <1>2, <2>1, LaidStays
    <2>8. Begins(stream, ts)'
      BY <2>1, <2>4
    <2>9. QED
      BY <2>6, <2>7, <2>8 DEF Scanned
  <1>8. CASE AtPiece(at, ps, m) /\ m = Len(ps)
    <2>1. stream' = Append(stream, EOF) /\ src' = src /\ phase' = "done" /\ m \in Nat
      BY <1>1, <1>2, <1>8, ScansEnd, Zenon
    <2>2. Len(stream) = 2 * m
      BY <1>8 DEF AtPiece
    <2>3. \A k \in 1 .. Len(ts) : Len(stream) + 1 # 2 * k - 1 /\ Len(stream) + 1 # 2 * k
      <3>1. \A a \in Nat, k \in Nat : k <= a => 2 * a + 1 # 2 * k - 1 /\ 2 * a + 1 # 2 * k
        OBVIOUS
      <3>2. \A k \in 1 .. Len(ts) : k \in Nat /\ k <= m
        BY <1>4, <1>8
      <3>3. QED
        BY <2>1, <2>2, <3>1, <3>2, Zenon
    <2>4. Begins(Append(stream, EOF), ts)
      <3>1. \A k \in 1 .. Len(ts) : /\ Len(stream) + 1 = 2 * k - 1 => EOF = ts[k]
                                    /\ Len(stream) + 1 = 2 * k => EOF = WhiteSpace
        BY <2>3, Zenon
      <3>2. Len(ts) \in Nat
        BY <1>4
      <3>3. QED
        BY <1>2, <1>4, <3>1, <3>2, BeginsOn, Zenon
    <2>5. Len(stream') = 2 * Len(ps) + 1
      BY <1>5, <1>8, <2>1, <2>2
    <2>7. phase' = "done" /\ Laid(at, ps)'
      BY <1>2, <2>1, LaidStays
    <2>8. Begins(stream, ts)'
      BY <2>1, <2>4
    <2>9. QED
      BY <2>5, <2>7, <2>8 DEF Scanned
  <1>9. QED
    BY <1>3, <1>6, <1>7, <1>8

LEMMA StepJobInv ==
  ASSUME IInv, JobInv, [Next]_vars
  PROVE  JobInv'
  <1>1. job' = job
    BY DEF Next, Scan, BuildCommand, vars
  <1>2. SUFFICES ASSUME job # <<>>
                 PROVE  /\ job \in Jobs /\ phase' # "error"
                        /\ \E at : Scanned(at, JobPieces(job), JobMeanings(job))'
    BY <1>1 DEF JobInv
  <1>3. job \in Jobs /\ phase # "error"
    BY <1>2 DEF JobInv
  <1>4. PICK ps, ts : ps = JobPieces(job) /\ ts = JobMeanings(job)
    OBVIOUS
  <1>5. PICK at : Scanned(at, ps, ts)
    BY <1>2, <1>4, Zenon DEF JobInv
  <1>6. Agree(ps, ts)
    BY <1>3, <1>4, JobTypes, JobAgrees
  <1>7. Scanned(at, ps, ts)' /\ phase' # "error"
    <2>1. CASE Scan
      BY <1>5, <1>6, <2>1, StepScanned DEF IInv
    <2>2. CASE BuildCommand
      <3>1. src' = src /\ stream' = stream /\ phase = "done" /\ phase' = "built"
        BY <2>2 DEF BuildCommand
      <3>2. Laid(at, ps)'
        BY <1>5, <3>1, LaidStays DEF Scanned
      <3>3. Begins(stream, ts) /\ Len(stream) = 2 * Len(ps) + 1
        BY <1>5, <3>1 DEF Scanned
      <3>4. Begins(stream, ts)' /\ (Len(stream) = 2 * Len(ps) + 1)'
        BY <3>1, <3>3
      <3>5. QED
        BY <3>1, <3>2, <3>4 DEF Scanned
    <2>3. CASE UNCHANGED vars
      <3>1. src' = src /\ stream' = stream /\ phase' = phase /\ cursor' = cursor
        BY <2>3 DEF vars
      <3>2. Laid(at, ps)'
        BY <1>5, <3>1, LaidStays DEF Scanned
      <3>3. QED
        BY <1>3, <1>5, <3>1, <3>2 DEF Scanned, Begins, AtPiece, AtBlank
    <2>4. QED
      BY <2>1, <2>2, <2>3 DEF Next
  <1>8. (ps = JobPieces(job) /\ ts = JobMeanings(job))'
    BY <1>1, <1>4
  <1>9. QED
    BY <1>3, <1>4, <1>7, <1>8

----------------------------------------------------------------------------
(* Then the tokens of a job are what its pieces stand for.                 *)
(* What a job means is no white space.                                     *)
LEMMA ReadsKind ==
  ASSUME NEW w, NEW t, Reads(w, t)
  PROVE  t.kind # "space"
  <1>1. CASE t = Literal(w)
    BY <1>1 DEF Literal
  <1>2. CASE \E f \in RedirForms : w = f[1] /\ t = Redirection(f[2], f[3])
    <2>1. PICK a, b : t = Redirection(a, b)
      BY <1>2, Zenon
    <2>2. QED
      BY <2>1 DEF Redirection
  <1>3. CASE \E f \in PipeForms : w = f[1] /\ t = Pipe(f[2], f[3])
    <2>1. PICK a, b : t = Pipe(a, b)
      BY <1>3, Zenon
    <2>2. QED
      BY <2>1 DEF Pipe
  <1>4. QED
    BY <1>1, <1>2, <1>3, Zenon DEF Reads

(* The tokens of a job are what it means, and the end.                     *)
AreTokens(toks, ts) ==
  /\ Ended(toks) /\ Len(toks) = Len(ts) + 1
  /\ \A k \in 1 .. Len(ts) : toks[k] = ts[k]

LEMMA JobTokens ==
  ASSUME Ended(stream), NEW ps, NEW ts, Agree(ps, ts), Begins(stream, ts),
         Len(stream) = 2 * Len(ps) + 1
  PROVE  AreTokens(Tokens, ts)
  <1> DEFINE n == Len(ts)
             h == Len(stream)
             S == Seq(AllTokens)
             p == [k \in DOMAIN stream |-> Kept(stream[k])]
  <1>1. n \in Nat /\ h = 2 * n + 1 /\ \A k \in 1 .. n : Reads(ps[k], ts[k])
    BY LenProperties DEF Agree
  <1>2. /\ h \in Nat /\ DOMAIN stream = 1 .. h
        /\ \A k \in 1 .. h : stream[k] \in AllTokens /\ (stream[k].kind = "eof" <=> k = h)
    BY EndedFacts, ElementOfSeq DEF Ended
  <1>3. ASSUME NEW t \in AllTokens
        PROVE  /\ Kept(t) \in S
               /\ t.kind # "space" => Len(Kept(t)) = 1 /\ Kept(t)[1] = t
               /\ t.kind = "space" => Len(Kept(t)) = 0
    <2>1. CASE t.kind = "space"
      <3>1. Kept(t) = <<>>
        BY <2>1 DEF Kept
      <3>2. QED
        BY <2>1, <3>1
    <2>2. CASE t.kind # "space"
      <3>1. Kept(t) = << t >>
        BY <2>2 DEF Kept
      <3> HIDE <2>2
      <3>2. << t >> \in Seq(AllTokens) /\ Len(<< t >>) = 1 /\ << t >>[1] = t
        OBVIOUS
      <3>3. QED
        BY <2>2, <3>1, <3>2
    <2>3. QED
      BY <2>1, <2>2
  <1>4. p \in Seq(S) /\ Len(p) = h /\ \A k \in 1 .. h : p[k] = Kept(stream[k])
    <2> HIDE DEF S, h
    <2>1. p \in [1 .. h -> S] /\ \A k \in 1 .. h : p[k] = Kept(stream[k])
      BY <1>2, <1>3
    <2> HIDE DEF p
    <2>2. QED
      BY <1>2, <2>1
  <1>5. Tokens = Flat(p)
    BY DEF Tokens
  <1> HIDE DEF p
  <1>6. PICK at : Places(at, p, Tokens)
    BY <1>4, <1>5, FlatPlaces
  <1> HIDE DEF h
  <1>7. /\ at[1] = 0 /\ at[h + 1] = Len(Tokens)
        /\ \A k \in 1 .. h : /\ at[k + 1] = at[k] + Len(Kept(stream[k]))
                             /\ \A x \in 1 .. Len(Kept(stream[k])) :
                                  Tokens[at[k] + x] = Kept(stream[k])[x]
    BY <1>4, <1>6 DEF Places
  <1> HIDE DEF n
  <1>8. ASSUME NEW k \in 1 .. n
        PROVE  /\ 2 * k - 1 \in 1 .. h /\ 2 * k \in 1 .. h
               /\ stream[2 * k - 1] = ts[k] /\ ts[k].kind # "space"
               /\ stream[2 * k] = WhiteSpace
    <2>1. 2 * k - 1 \in 1 .. h /\ 2 * k \in 1 .. h
      BY <1>1
    <2>2. 2 * k - 1 <= h /\ 2 * k <= h
      BY <1>1, <2>1
    <2>3. stream[2 * k - 1] = ts[k] /\ stream[2 * k] = WhiteSpace
      BY <2>2, Zenon DEF Begins, h, n
    <2>4. ts[k].kind # "space"
      BY <1>1, ReadsKind, Zenon
    <2>5. QED
      BY <2>1, <2>3, <2>4, Zenon
  <1>9. WhiteSpace.kind = "space" /\ EOF.kind # "space"
    BY DEF WhiteSpace, EOF
  <1> DEFINE D == {k \in 0 .. n : at[2 * k + 1] = k}
  <1>10. ASSUME NEW k \in 1 .. n, at[2 * (k - 1) + 1] = k - 1
         PROVE  at[2 * k + 1] = k /\ Tokens[k] = ts[k]
    <2> DEFINE x == 2 * k - 1
               y == 2 * k
    <2>1. x \in 1 .. h /\ y \in 1 .. h
      BY <1>8
    <2>2. /\ Len(Kept(stream[x])) = 1 /\ Kept(stream[x])[1] = ts[k]
          /\ Len(Kept(stream[y])) = 0
      <3>1. stream[x] \in AllTokens /\ stream[y] \in AllTokens
        BY <1>2, <2>1
      <3>2. stream[x] = ts[k] /\ ts[k].kind # "space" /\ stream[y].kind = "space"
        BY <1>8, <1>9
      <3>3. QED
        BY <1>3, <3>1, <3>2, Zenon
    <2>3. at[x + 1] = at[x] + 1 /\ Tokens[at[x] + 1] = ts[k] /\ at[y + 1] = at[y] + 0
      <3>1. 1 \in 1 .. 1
        OBVIOUS
      <3>2. /\ at[x + 1] = at[x] + Len(Kept(stream[x]))
            /\ \A z \in 1 .. Len(Kept(stream[x])) : Tokens[at[x] + z] = Kept(stream[x])[z]
            /\ at[y + 1] = at[y] + Len(Kept(stream[y]))
        BY <1>7, <2>1, Zenon
      <3> HIDE DEF x, y
      <3>3. QED
        BY <2>2, <3>1, <3>2, Zenon
    <2>4. x = 2 * (k - 1) + 1 /\ x + 1 = y /\ y + 1 = 2 * k + 1
      OBVIOUS
    <2> HIDE DEF x, y
    <2>5. at[x] = k - 1
      BY <1>10, <2>4, Zenon
    <2>6. (k - 1) + 1 = k /\ k + 0 = k
      OBVIOUS
    <2>7. at[y] = k /\ Tokens[k] = ts[k]
      BY <2>3, <2>4, <2>5, <2>6, Zenon
    <2>8. QED
      BY <2>3, <2>4, <2>6, <2>7, Zenon
  <1>11. 0 .. n \subseteq D
    <2>1. 0 \in D
      BY <1>1, <1>7
    <2>2. \A k \in 1 .. n : k - 1 \in D => k \in D
      <3>1. ASSUME NEW k \in 1 .. n, k - 1 \in D PROVE k \in D
        <4>1. at[2 * (k - 1) + 1] = k - 1
          BY <3>1
        <4>2. at[2 * k + 1] = k
          BY <1>10, <4>1, Zenon
        <4>3. k \in 0 .. n
          BY <1>1
        <4>4. QED
          BY <4>2, <4>3
      <3>2. QED
        BY <3>1
    <2> HIDE DEF D
    <2>3. QED
      BY <1>1, <2>1, <2>2, UpTo
  <1>12. \A k \in 1 .. n : Tokens[k] = ts[k]
    <2>1. ASSUME NEW k \in 1 .. n PROVE Tokens[k] = ts[k]
      <3>1. k - 1 \in D
        <4> HIDE DEF D
        <4>1. k - 1 \in 0 .. n
          BY <1>1
        <4>2. QED
          BY <1>11, <4>1
      <3>2. QED
        BY <1>10, <3>1
    <2>2. QED
      BY <2>1
  <1>13. at[h] = n
    <2>1. n \in D
      <3> HIDE DEF D
      <3>1. QED
        BY <1>1, <1>11
    <2>2. QED
      BY <1>1, <2>1
  <1>14. Len(Tokens) = n + 1
    <2>1. h \in 1 .. h /\ stream[h] \in AllTokens /\ stream[h].kind = "eof"
      BY <1>1, <1>2
    <2>2. Len(Kept(stream[h])) = 1
      BY <1>3, <2>1
    <2>3. at[h + 1] = at[h] + Len(Kept(stream[h]))
      BY <1>7, <2>1, Zenon
    <2>4. QED
      BY <1>7, <1>13, <2>2, <2>3
  <1>15. Ended(Tokens)
    BY TokensEnd
  <1>16. QED
    BY <1>12, <1>14, <1>15 DEF AreTokens, n

----------------------------------------------------------------------------
(* Where the parts of a stage lie in the tokens.                           *)
LEMMA MeantKinds ==
  /\ \A w : /\ IsLiteral(Literal(w)) /\ ~IsRedir(Literal(w)) /\ ~IsPipe(Literal(w))
            /\ Literal(w).text = w
  /\ \A f, m : /\ IsRedir(Redirection(f, m)) /\ ~IsLiteral(Redirection(f, m))
               /\ ~IsPipe(Redirection(f, m))
               /\ Redirection(f, m).from = f /\ Redirection(f, m).mode = m
  /\ \A f, d : /\ IsPipe(Pipe(f, d)) /\ ~IsLiteral(Pipe(f, d)) /\ ~IsRedir(Pipe(f, d))
               /\ Pipe(f, d).from = f /\ Pipe(f, d).to = d
  BY DEF IsLiteral, IsRedir, IsPipe, Literal, Redirection, Pipe

(* The tokens from i on are those of the stage s.                          *)
FilesFrom(i, s) == i + Len(s.env) + Len(s.args) + 1
PipesFrom(i, s) == FilesFrom(i, s) + 2 * Len(s.redirs)
NextFrom(i, s)   == PipesFrom(i, s) + Len(s.pipes)

EnvLies(toks, i, s) == \A x \in 1 .. Len(s.env) : toks[i + x - 1] = Literal(s.env[x])
BinLies(toks, i, s) == toks[i + Len(s.env)] = Literal(s.bin)
ArgsLie(toks, i, s) == \A x \in 1 .. Len(s.args) : toks[i + Len(s.env) + x] = Literal(s.args[x])
RedirsLie(toks, i, s) ==
  \A x \in 1 .. Len(s.redirs) :
    /\ toks[FilesFrom(i, s) + 2 * x - 2] = Redirection(s.redirs[x].form[2], s.redirs[x].form[3])
    /\ toks[FilesFrom(i, s) + 2 * x - 1] = Literal(s.redirs[x].file)
PipesLie(toks, i, s) ==
  \A x \in 1 .. Len(s.pipes) :
    toks[PipesFrom(i, s) + x - 1] = Pipe(s.pipes[x][2], s.pipes[x][3])

StageLies(toks, i, s) ==
  /\ EnvLies(toks, i, s) /\ BinLies(toks, i, s) /\ ArgsLie(toks, i, s)
  /\ RedirsLie(toks, i, s) /\ PipesLie(toks, i, s)

LEMMA StageParts ==
  ASSUME NEW s \in UserStages
  PROVE  /\ s.env \in Seq(Names) /\ s.bin \in Names /\ s.args \in Seq(Names)
         /\ s.redirs \in Seq([form : RedirForms, file : Names]) /\ s.pipes \in Seq(PipeForms)
         /\ Len(s.env) \in Nat /\ Len(s.args) \in Nat /\ Len(s.redirs) \in Nat /\ Len(s.pipes) \in Nat
         /\ DOMAIN s.env = 1 .. Len(s.env) /\ DOMAIN s.args = 1 .. Len(s.args)
         /\ DOMAIN s.redirs = 1 .. Len(s.redirs) /\ DOMAIN s.pipes = 1 .. Len(s.pipes)
         /\ \A x \in 1 .. Len(s.env) : IsAssignment(Literal(s.env[x]))
         /\ ~IsAssignment(Literal(s.bin))
         /\ \A x \in 1 .. Len(s.redirs) : s.redirs[x].form \in RedirForms /\ s.redirs[x].file \in Names
  <1> DEFINE A == {w \in Names : IsAssignment(Literal(w))}
  <1>1. /\ s.env \in Seq(A) /\ s.bin \in Names /\ ~IsAssignment(Literal(s.bin)) /\ s.args \in Seq(Names)
        /\ s.redirs \in Seq([form : RedirForms, file : Names]) /\ s.pipes \in Seq(PipeForms)
    BY DEF UserStages
  <1>2. A \subseteq Names /\ \A w \in A : IsAssignment(Literal(w))
    OBVIOUS
  <1> HIDE DEF A
  <1>3. s.env \in Seq(Names)
    BY <1>1, <1>2, SeqMonotonic
  <1>4. \A x \in 1 .. Len(s.env) : IsAssignment(Literal(s.env[x]))
    <2>1. \A x \in 1 .. Len(s.env) : s.env[x] \in A
      BY <1>1, ElementOfSeq
    <2>2. QED
      BY <1>2, <2>1
  <1>5. \A x \in 1 .. Len(s.redirs) : s.redirs[x].form \in RedirForms /\ s.redirs[x].file \in Names
    <2>1. \A x \in 1 .. Len(s.redirs) : s.redirs[x] \in [form : RedirForms, file : Names]
      BY <1>1, ElementOfSeq
    <2>2. QED
      BY <2>1
  <1>6. QED
    BY <1>1, <1>3, <1>4, <1>5, LenProperties

LEMMA JoinedAt ==
  ASSUME NEW S, NEW u \in Seq(S), NEW v \in Seq(S), NEW m, m = u \o v
  PROVE  /\ m \in Seq(S) /\ Len(m) = Len(u) + Len(v)
         /\ \A x \in 1 .. Len(u) : m[x] = u[x]
         /\ \A x \in 1 .. Len(v) : m[Len(u) + x] = v[x]
  <1>1. /\ u \o v \in Seq(S) /\ Len(u \o v) = Len(u) + Len(v)
        /\ \A x \in 1 .. Len(u) + Len(v) : (u \o v)[x] = IF x <= Len(u) THEN u[x] ELSE v[x - Len(u)]
    BY ConcatProperties
  <1>2. Len(u) \in Nat /\ Len(v) \in Nat
    BY LenProperties
  <1>3. ASSUME NEW x \in 1 .. Len(v) PROVE m[Len(u) + x] = v[x]
    <2>1. Len(u) + x \in 1 .. Len(u) + Len(v) /\ ~(Len(u) + x <= Len(u)) /\ (Len(u) + x) - Len(u) = x
      BY <1>2
    <2>2. QED
      BY <1>1, <2>1
  <1>4. QED
    BY <1>1, <1>2, <1>3

(* Pairs one behind the other.                                             *)
ArePairs(p, n, a, b) ==
  /\ n \in Nat /\ Len(p) = n
  /\ \A x \in 1 .. n : Len(p[x]) = 2 /\ p[x][1] = a[x] /\ p[x][2] = b[x]
TakeTurns(f, n, a, b) ==
  Len(f) = 2 * n /\ \A x \in 1 .. n : f[2 * x - 1] = a[x] /\ f[2 * x] = b[x]

LEMMA FlatPairs ==
  ASSUME NEW S, NEW p \in Seq(Seq(S)), NEW n, NEW a, NEW b, ArePairs(p, n, a, b)
  PROVE  Flat(p) \in Seq(S) /\ TakeTurns(Flat(p), n, a, b)
  <1>3. /\ n \in Nat /\ Len(p) = n
        /\ \A x \in 1 .. n : Len(p[x]) = 2 /\ p[x][1] = a[x] /\ p[x][2] = b[x]
    BY DEF ArePairs
  <1>4. Len(p) = n
    BY <1>3
  <1>5. PICK at : Places(at, p, Flat(p))
    BY FlatPlaces
  <1> DEFINE f == Flat(p)
  <1>6. f \in Seq(S)
    BY FlatType
  <1> HIDE DEF f
  <1>7. /\ at[1] = 0 /\ at[n + 1] = Len(f)
        /\ \A x \in 1 .. n : /\ at[x + 1] = at[x] + Len(p[x])
                             /\ \A y \in 1 .. Len(p[x]) : f[at[x] + y] = p[x][y]
    BY <1>4, <1>5, Zenon DEF Places, f
  <1> DEFINE D == {x \in 0 .. n : at[x + 1] = 2 * x}
  <1>8. 0 .. n \subseteq D
    <2>1. 0 \in D
      BY <1>3, <1>7
    <2>2. ASSUME NEW x \in 1 .. n, x - 1 \in D PROVE x \in D
      <3>1. at[(x - 1) + 1] = 2 * (x - 1) /\ (x - 1) + 1 = x
        BY <2>2
      <3>2. at[x + 1] = at[x] + 2
        <4>1. at[x + 1] = at[x] + Len(p[x])
          BY <1>7, Zenon
        <4>2. Len(p[x]) = 2
          BY <1>3, Zenon
        <4>3. QED
          BY <4>1, <4>2, Zenon
      <3>3. QED
        BY <3>1, <3>2
    <2> HIDE DEF D
    <2>3. QED
      BY <1>3, <2>1, <2>2, UpTo
  <1>9. Len(f) = 2 * n
    BY <1>3, <1>7, <1>8
  <1>10. ASSUME NEW x \in 1 .. n PROVE f[2 * x - 1] = a[x] /\ f[2 * x] = b[x]
    <2>1. x - 1 \in 0 .. n /\ (x - 1) + 1 = x
      BY <1>3
    <2>2. at[x] = 2 * (x - 1)
      BY <1>8, <2>1
    <2>3. 1 \in 1 .. 2 /\ 2 \in 1 .. 2
      OBVIOUS
    <2>4. f[at[x] + 1] = a[x] /\ f[at[x] + 2] = b[x]
      <3>1. Len(p[x]) = 2 /\ p[x][1] = a[x] /\ p[x][2] = b[x]
        BY <1>3
      <3>2. \A y \in 1 .. Len(p[x]) : f[at[x] + y] = p[x][y]
        BY <1>7, Zenon
      <3>3. QED
        BY <2>3, <3>1, <3>2
    <2>5. 2 * (x - 1) + 1 = 2 * x - 1 /\ 2 * (x - 1) + 2 = 2 * x
      OBVIOUS
    <2>6. QED
      BY <2>2, <2>4, <2>5
  <1>11. QED
    BY <1>6, <1>9, <1>10 DEF f, TakeTurns

(* Where the parts of a stage's meaning lie in it.                         *)
LEMMA MeaningsLie ==
  ASSUME NEW s \in UserStages
  PROVE  /\ Len(Meanings(s)) = NextFrom(0, s)
         /\ StageLies(Meanings(s), 1, s)
  <1> DEFINE envM == [k \in DOMAIN s.env |-> Literal(s.env[k])]
             argM == [k \in DOMAIN s.args |-> Literal(s.args[k])]
             redM == [r \in DOMAIN s.redirs |->
                        << Redirection(s.redirs[r].form[2], s.redirs[r].form[3]),
                           Literal(s.redirs[r].file) >>]
             pipM == [p \in DOMAIN s.pipes |-> Pipe(s.pipes[p][2], s.pipes[p][3])]
             e == Len(s.env)
             a == Len(s.args)
             r == Len(s.redirs)
             q == Len(s.pipes)
             T == TokenSet
  <1>1. /\ e \in Nat /\ a \in Nat /\ r \in Nat /\ q \in Nat
        /\ DOMAIN s.env = 1 .. e /\ DOMAIN s.args = 1 .. a
        /\ DOMAIN s.redirs = 1 .. r /\ DOMAIN s.pipes = 1 .. q
        /\ s.env \in Seq(Names) /\ s.bin \in Names /\ s.args \in Seq(Names) /\ s.pipes \in Seq(PipeForms)
        /\ \A x \in 1 .. r : s.redirs[x].form \in RedirForms /\ s.redirs[x].file \in Names
    BY StageParts
  <1>2. Meanings(s) = envM \o << Literal(s.bin) >> \o argM \o Flat(redM) \o pipM
    BY Zenon DEF Meanings
  <1>3. envM \in Seq(T) /\ Len(envM) = e /\ \A x \in 1 .. e : envM[x] = Literal(s.env[x])
    <2>1. \A x \in 1 .. e : Literal(s.env[x]) \in T
      BY <1>1, ElementOfSeq, NamesRead
    <2> HIDE DEF T
    <2> HIDE DEF e
    <2>2. envM \in [1 .. e -> T] /\ \A x \in 1 .. e : envM[x] = Literal(s.env[x])
      BY <1>1, <2>1
    <2> HIDE DEF envM
    <2>3. QED
      BY <1>1, <2>2
  <1>4. argM \in Seq(T) /\ Len(argM) = a /\ \A x \in 1 .. a : argM[x] = Literal(s.args[x])
    <2>1. \A x \in 1 .. a : Literal(s.args[x]) \in T
      BY <1>1, ElementOfSeq, NamesRead
    <2> HIDE DEF T
    <2> HIDE DEF a
    <2>2. argM \in [1 .. a -> T] /\ \A x \in 1 .. a : argM[x] = Literal(s.args[x])
      BY <1>1, <2>1
    <2> HIDE DEF argM
    <2>3. QED
      BY <1>1, <2>2
  <1>5. /\ pipM \in Seq(T) /\ Len(pipM) = q
        /\ \A x \in 1 .. q : pipM[x] = Pipe(s.pipes[x][2], s.pipes[x][3])
    <2>1. \A x \in 1 .. q : Pipe(s.pipes[x][2], s.pipes[x][3]) \in T
      BY <1>1, ElementOfSeq, PipeFormsRead
    <2> HIDE DEF T
    <2> HIDE DEF q
    <2>2. pipM \in [1 .. q -> T] /\ \A x \in 1 .. q : pipM[x] = Pipe(s.pipes[x][2], s.pipes[x][3])
      BY <1>1, <2>1
    <2> HIDE DEF pipM
    <2>3. QED
      BY <1>1, <2>2
  <1>6. /\ Flat(redM) \in Seq(T) /\ Len(Flat(redM)) = 2 * r
        /\ \A x \in 1 .. r :
             /\ Flat(redM)[2 * x - 1] = Redirection(s.redirs[x].form[2], s.redirs[x].form[3])
             /\ Flat(redM)[2 * x] = Literal(s.redirs[x].file)
    <2> DEFINE u == [x \in 1 .. r |-> Redirection(s.redirs[x].form[2], s.redirs[x].form[3])]
               v == [x \in 1 .. r |-> Literal(s.redirs[x].file)]
    <2>1. \A x \in 1 .. r :
            /\ Redirection(s.redirs[x].form[2], s.redirs[x].form[3]) \in T
            /\ Literal(s.redirs[x].file) \in T
      BY <1>1, RedirFormsRead, NamesRead
    <2> HIDE DEF T, r
    <2>2. \A x \in 1 .. r : u[x] \in T /\ v[x] \in T
      BY <2>1
    <2>3. redM \in Seq(Seq(T)) /\ Len(redM) = r /\ \A x \in 1 .. r : redM[x] = << u[x], v[x] >>
      <3> DEFINE Z == Seq(T)
      <3>1. \A x \in 1 .. r : << u[x], v[x] >> \in Z
        BY <2>2
      <3>2. \A x \in 1 .. r : redM[x] = << u[x], v[x] >>
        BY <1>1
      <3>3. redM = [x \in 1 .. r |-> redM[x]] /\ r \in Nat
        BY <1>1
      <3> HIDE DEF Z, redM, u, v
      <3>4. redM \in [1 .. r -> Z]
        BY <3>1, <3>2, <3>3
      <3>5. QED
        BY <3>2, <3>3, <3>4 DEF Z
    <2>4. \A x \in 1 .. r : /\ u[x] = Redirection(s.redirs[x].form[2], s.redirs[x].form[3])
                            /\ v[x] = Literal(s.redirs[x].file)
      OBVIOUS
    <2>5. r \in Nat
      BY <1>1
    <2> HIDE DEF u, v, redM
    <2>6. /\ Flat(redM) \in Seq(T) /\ Len(Flat(redM)) = 2 * r
          /\ \A x \in 1 .. r : Flat(redM)[2 * x - 1] = u[x] /\ Flat(redM)[2 * x] = v[x]
      <3>1. \A y, z : Len(<< y, z >>) = 2 /\ << y, z >>[1] = y /\ << y, z >>[2] = z
        OBVIOUS
      <3>2. \A x \in 1 .. r : Len(redM[x]) = 2 /\ redM[x][1] = u[x] /\ redM[x][2] = v[x]
        <4>1. ASSUME NEW x \in 1 .. r
              PROVE  Len(redM[x]) = 2 /\ redM[x][1] = u[x] /\ redM[x][2] = v[x]
          <5>1. redM[x] = << u[x], v[x] >>
            BY <2>3, Zenon
          <5>2. PICK w, y, z : w = redM[x] /\ y = u[x] /\ z = v[x]
            OBVIOUS
          <5>3. w = << y, z >>
            BY <5>1, <5>2, Zenon
          <5>4. Len(w) = 2 /\ w[1] = y /\ w[2] = z
            BY <5>3
          <5>5. QED
            BY <5>2, <5>4, Zenon
        <4>2. QED
          BY <4>1, Zenon
      <3>3. ArePairs(redM, r, u, v)
        BY <2>3, <2>5, <3>2, Zenon DEF ArePairs
      <3>5. Flat(redM) \in Seq(T) /\ TakeTurns(Flat(redM), r, u, v)
        BY <2>3, <3>3, FlatPairs, Zenon
      <3>4. QED
        BY <3>5, Zenon DEF TakeTurns
    <2>7. QED
      BY <2>4, <2>6, Zenon
  <1> DEFINE bin == << Literal(s.bin) >>
             red == Flat(redM)
             m1 == envM \o bin
             m2 == m1 \o argM
             m3 == m2 \o red
             m4 == m3 \o pipM
  <1>7. bin \in Seq(T) /\ Len(bin) = 1 /\ bin[1] = Literal(s.bin)
    <2>1. Literal(s.bin) \in T
      BY <1>1, NamesRead
    <2> HIDE DEF T
    <2>2. QED
      BY <2>1
  <1>8. Meanings(s) = m4
    BY <1>2, Zenon
  <1> HIDE DEF envM, argM, redM, pipM, bin, red, T, e, a, r, q
  <1>9. /\ m1 \in Seq(T) /\ Len(m1) = e + 1 /\ \A x \in 1 .. e : m1[x] = Literal(s.env[x])
        /\ m1[e + 1] = Literal(s.bin)
    <2>1. envM \in Seq(T) /\ bin \in Seq(T) /\ m1 = envM \o bin
      BY <1>3, <1>7
    <2> HIDE DEF m1
    <2>2. /\ m1 \in Seq(T) /\ Len(m1) = Len(envM) + Len(bin)
          /\ \A x \in 1 .. Len(envM) : m1[x] = envM[x]
          /\ \A x \in 1 .. Len(bin) : m1[Len(envM) + x] = bin[x]
      BY <2>1, JoinedAt
    <2>3. 1 \in 1 .. 1
      OBVIOUS
    <2>4. QED
      BY <1>3, <1>7, <2>2, <2>3, Zenon
  <1> HIDE DEF m1
  <1>10. /\ m2 \in Seq(T) /\ Len(m2) = (e + 1) + a
         /\ \A x \in 1 .. e + 1 : m2[x] = m1[x]
         /\ \A x \in 1 .. a : m2[(e + 1) + x] = Literal(s.args[x])
    <2>1. m1 \in Seq(T) /\ argM \in Seq(T) /\ m2 = m1 \o argM
      BY <1>4, <1>9
    <2> HIDE DEF m2
    <2>2. /\ m2 \in Seq(T) /\ Len(m2) = Len(m1) + Len(argM)
          /\ \A x \in 1 .. Len(m1) : m2[x] = m1[x]
          /\ \A x \in 1 .. Len(argM) : m2[Len(m1) + x] = argM[x]
      BY <2>1, JoinedAt
    <2>3. QED
      BY <1>4, <1>9, <2>2, Zenon
  <1> HIDE DEF m2
  <1>11. /\ m3 \in Seq(T) /\ Len(m3) = ((e + 1) + a) + 2 * r
         /\ \A x \in 1 .. (e + 1) + a : m3[x] = m2[x]
         /\ \A y \in 1 .. 2 * r : m3[((e + 1) + a) + y] = red[y]
    <2>1. m2 \in Seq(T) /\ red \in Seq(T) /\ m3 = m2 \o red
      BY <1>6, <1>10 DEF red
    <2> HIDE DEF m3
    <2>2. /\ m3 \in Seq(T) /\ Len(m3) = Len(m2) + Len(red)
          /\ \A x \in 1 .. Len(m2) : m3[x] = m2[x]
          /\ \A x \in 1 .. Len(red) : m3[Len(m2) + x] = red[x]
      BY <2>1, JoinedAt
    <2>3. Len(red) = 2 * r
      BY <1>6 DEF red
    <2>4. QED
      BY <1>10, <2>2, <2>3, Zenon
  <1> HIDE DEF m3
  <1>12. /\ Len(m4) = (((e + 1) + a) + 2 * r) + q
         /\ \A x \in 1 .. ((e + 1) + a) + 2 * r : m4[x] = m3[x]
         /\ \A x \in 1 .. q : m4[(((e + 1) + a) + 2 * r) + x] = Pipe(s.pipes[x][2], s.pipes[x][3])
    <2>1. m3 \in Seq(T) /\ pipM \in Seq(T) /\ m4 = m3 \o pipM
      BY <1>5, <1>11
    <2> HIDE DEF m4
    <2>2. /\ Len(m4) = Len(m3) + Len(pipM)
          /\ \A x \in 1 .. Len(m3) : m4[x] = m3[x]
          /\ \A x \in 1 .. Len(pipM) : m4[Len(m3) + x] = pipM[x]
      BY <2>1, JoinedAt
    <2>3. QED
      BY <1>5, <1>11, <2>2, Zenon
  <1> HIDE DEF m4
  <1>13. FilesFrom(1, s) = 1 + e + a + 1 /\ PipesFrom(1, s) = 1 + e + a + 1 + 2 * r
    BY DEF FilesFrom, PipesFrom, e, a, r
  <1>14. Len(m4) = NextFrom(0, s)
    <2>1. NextFrom(0, s) = 0 + e + a + 1 + 2 * r + q
      BY DEF NextFrom, FilesFrom, PipesFrom, e, a, r, q
    <2>2. QED
      BY <1>1, <1>12, <2>1
  <1>15. EnvLies(m4, 1, s)
    <2>1. ASSUME NEW x \in 1 .. e PROVE m4[1 + x - 1] = Literal(s.env[x])
      <3>1. /\ 1 + x - 1 = x /\ x \in 1 .. e + 1 /\ x \in 1 .. (e + 1) + a
            /\ x \in 1 .. ((e + 1) + a) + 2 * r
        BY <1>1
      <3>2. QED
        BY <1>9, <1>10, <1>11, <1>12, <3>1, ZenonT(40)
    <2>2. QED
      BY <2>1 DEF EnvLies, e
  <1>16. BinLies(m4, 1, s)
    <2>1. /\ 1 + e = e + 1 /\ e + 1 \in 1 .. e + 1 /\ e + 1 \in 1 .. (e + 1) + a
          /\ e + 1 \in 1 .. ((e + 1) + a) + 2 * r
      BY <1>1
    <2>2. m4[1 + e] = Literal(s.bin)
      BY <1>9, <1>10, <1>11, <1>12, <2>1, ZenonT(40)
    <2>3. QED
      BY <2>2 DEF BinLies, e
  <1>17. ArgsLie(m4, 1, s)
    <2>1. ASSUME NEW x \in 1 .. a PROVE m4[1 + e + x] = Literal(s.args[x])
      <3>1. /\ 1 + e + x = (e + 1) + x /\ (e + 1) + x \in 1 .. (e + 1) + a
            /\ (e + 1) + x \in 1 .. ((e + 1) + a) + 2 * r
        BY <1>1
      <3>2. QED
        BY <1>10, <1>11, <1>12, <3>1, Zenon
    <2>2. QED
      BY <2>1 DEF ArgsLie, e, a
  <1>18. RedirsLie(m4, 1, s)
    <2>1. ASSUME NEW x \in 1 .. r
          PROVE  /\ m4[FilesFrom(1, s) + 2 * x - 2]
                      = Redirection(s.redirs[x].form[2], s.redirs[x].form[3])
                 /\ m4[FilesFrom(1, s) + 2 * x - 1] = Literal(s.redirs[x].file)
      <3> DEFINE y == 2 * x - 1
                 z == 2 * x
      <3>1. /\ y \in 1 .. 2 * r /\ z \in 1 .. 2 * r
            /\ ((e + 1) + a) + y \in 1 .. ((e + 1) + a) + 2 * r
            /\ ((e + 1) + a) + z \in 1 .. ((e + 1) + a) + 2 * r
            /\ 1 + e + a + 1 + 2 * x - 2 = ((e + 1) + a) + y
            /\ 1 + e + a + 1 + 2 * x - 1 = ((e + 1) + a) + z
        BY <1>1
      <3>2. /\ red[y] = Redirection(s.redirs[x].form[2], s.redirs[x].form[3])
            /\ red[z] = Literal(s.redirs[x].file)
        BY <1>6 DEF red
      <3> HIDE DEF y, z
      <3>3. /\ m4[((e + 1) + a) + y] = Redirection(s.redirs[x].form[2], s.redirs[x].form[3])
            /\ m4[((e + 1) + a) + z] = Literal(s.redirs[x].file)
        BY <1>11, <1>12, <3>1, <3>2, Zenon
      <3>4. QED
        BY <1>13, <3>1, <3>3, Zenon
    <2>2. QED
      BY <2>1, Zenon DEF RedirsLie, r
  <1>19. PipesLie(m4, 1, s)
    <2>1. ASSUME NEW x \in 1 .. q
          PROVE  m4[PipesFrom(1, s) + x - 1] = Pipe(s.pipes[x][2], s.pipes[x][3])
      <3>1. 1 + e + a + 1 + 2 * r + x - 1 = (((e + 1) + a) + 2 * r) + x
        BY <1>1
      <3>2. QED
        BY <1>12, <1>13, <3>1, Zenon
    <2>2. QED
      BY <2>1, Zenon DEF PipesLie, q
  <1>20. QED
    BY <1>8, <1>14, <1>15, <1>16, <1>17, <1>18, <1>19, Zenon DEF StageLies

----------------------------------------------------------------------------
(* Where build finds them.                                                 *)
LEMMA WordKind ==
  ASSUME NEW t, NEW w, t = Literal(w)
  PROVE  IsLiteral(t) /\ ~IsRedir(t) /\ ~IsPipe(t) /\ t.text = w
  BY MeantKinds, Zenon

LEMMA RedirKind ==
  ASSUME NEW t, NEW f, NEW m, t = Redirection(f, m)
  PROVE  IsRedir(t) /\ ~IsLiteral(t) /\ ~IsPipe(t) /\ t.from = f /\ t.mode = m
  BY MeantKinds, Zenon

LEMMA PipeKind ==
  ASSUME NEW t, NEW f, NEW d, t = Pipe(f, d)
  PROVE  IsPipe(t) /\ ~IsLiteral(t) /\ ~IsRedir(t) /\ t.from = f /\ t.to = d
  BY MeantKinds, Zenon

(* The stage s lies at i, and no further pipe behind it; the end, if it    *)
(* has no pipe itself.                                                     *)
Placed(toks, i, s) ==
  /\ Ended(toks) /\ i \in 1 .. Len(toks) /\ s \in UserStages /\ StageLies(toks, i, s)
  /\ NextFrom(i, s) \in 1 .. Len(toks) /\ ~IsPipe(toks[NextFrom(i, s)])
  /\ s.pipes = <<>> => NextFrom(i, s) = Len(toks)

LEMMA PlacedNumbers ==
  ASSUME NEW toks, NEW i, NEW s, Placed(toks, i, s)
  PROVE  /\ i \in Nat /\ Len(toks) \in Nat
         /\ Len(s.env) \in Nat /\ Len(s.args) \in Nat /\ Len(s.redirs) \in Nat /\ Len(s.pipes) \in Nat
         /\ i + Len(s.env) \in 1 .. Len(toks) /\ (i + Len(s.env)) + 1 \in 1 .. Len(toks)
         /\ FilesFrom(i, s) = ((i + Len(s.env)) + 1) + Len(s.args) /\ FilesFrom(i, s) \in 1 .. Len(toks)
         /\ PipesFrom(i, s) = FilesFrom(i, s) + 2 * Len(s.redirs) /\ PipesFrom(i, s) \in 1 .. Len(toks)
         /\ NextFrom(i, s) = PipesFrom(i, s) + Len(s.pipes) /\ NextFrom(i, s) \in 1 .. Len(toks)
         /\ DOMAIN toks = 1 .. Len(toks)
  <1> DEFINE e == Len(s.env)
             a == Len(s.args)
             r == Len(s.redirs)
             q == Len(s.pipes)
             n == Len(toks)
  <1>1. i \in Nat /\ n \in Nat /\ i \in 1 .. n /\ DOMAIN toks = 1 .. n
    BY EndedFacts DEF Placed
  <1>2. e \in Nat /\ a \in Nat /\ r \in Nat /\ q \in Nat
    BY StageParts DEF Placed
  <1>3. /\ FilesFrom(i, s) = i + e + a + 1 /\ PipesFrom(i, s) = FilesFrom(i, s) + 2 * r
        /\ NextFrom(i, s) = PipesFrom(i, s) + q /\ NextFrom(i, s) \in 1 .. n
    BY DEF FilesFrom, PipesFrom, NextFrom, Placed
  <1> HIDE DEF e, a, r, q, n
  <1>4. /\ i + e \in 1 .. n /\ (i + e) + 1 \in 1 .. n
        /\ FilesFrom(i, s) = ((i + e) + 1) + a /\ FilesFrom(i, s) \in 1 .. n
        /\ PipesFrom(i, s) \in 1 .. n
    BY <1>1, <1>2, <1>3
  <1>5. QED
    BY <1>1, <1>2, <1>3, <1>4 DEF e, a, r, q, n

LEMMA CollectIs ==
  ASSUME NEW n \in Nat, NEW i \in 1 .. n, NEW S, S \subseteq 1 .. n, n \notin S,
         NEW d \in i .. n, d \notin S, \A k \in i .. d - 1 : k \in S
  PROVE  Collect(i, S) = d
  <1> DEFINE c == Collect(i, S)
  <1>1. c \in i .. n /\ c \notin S /\ \A k \in i .. c - 1 : k \in S
    BY CollectStops DEF FirstOut
  <1> HIDE DEF c
  <1>2. ~(c < d)
    <2>1. c < d => c \in i .. d - 1
      BY <1>1
    <2>2. QED
      BY <1>1, <2>1
  <1>3. ~(d < c)
    <2>1. d < c => d \in i .. c - 1
      BY <1>1
    <2>2. QED
      BY <1>1, <2>1
  <1>4. QED
    BY <1>1, <1>2, <1>3 DEF c

LEMMA PlacedBin ==
  ASSUME NEW toks, NEW i, NEW s, Placed(toks, i, s)
  PROVE  BinAt(toks, i) = i + Len(s.env)
  <1> DEFINE n == Len(toks)
             S == {k \in DOMAIN toks : IsAssignment(toks[k])}
             d == i + Len(s.env)
  <1>1. /\ i \in Nat /\ n \in Nat /\ Len(s.env) \in Nat /\ d \in 1 .. n /\ DOMAIN toks = 1 .. n
    BY PlacedNumbers
  <1>2. S \subseteq 1 .. n /\ n \notin S
    BY <1>1, EndedFacts DEF Placed
  <1>3. EnvLies(toks, i, s) /\ BinLies(toks, i, s) /\ i \in 1 .. n
    BY DEF Placed, StageLies
  <1>4. ~IsAssignment(toks[d])
    BY <1>3, StageParts DEF Placed, BinLies
  <1>5. ASSUME NEW k \in i .. d - 1 PROVE k \in S
    <2>1. k - i + 1 \in 1 .. Len(s.env) /\ i + (k - i + 1) - 1 = k /\ k \in 1 .. n
      BY <1>1, <1>3
    <2>2. toks[i + (k - i + 1) - 1] = Literal(s.env[k - i + 1])
      BY <1>3, <2>1, Zenon DEF EnvLies
    <2>3. toks[k] = Literal(s.env[k - i + 1])
      BY <2>1, <2>2, Zenon
    <2>4. IsAssignment(Literal(s.env[k - i + 1]))
      BY <2>1, StageParts DEF Placed
    <2>5. QED
      BY <1>1, <2>1, <2>3, <2>4
  <1>6. d \in i .. n /\ d \notin S
    BY <1>1, <1>3, <1>4
  <1>7. Collect(i, S) = d
    <2> HIDE DEF S, d, n
    <2>1. QED
      BY <1>1, <1>2, <1>3, <1>5, <1>6, CollectIs
  <1>8. QED
    BY <1>7 DEF BinAt

LEMMA PlacedPipe ==
  ASSUME NEW toks, NEW i, NEW s, Placed(toks, i, s), s.pipes # <<>>
  PROVE  /\ IsPipe(toks[PipesFrom(i, s)])
         /\ ~IsLiteral(toks[PipesFrom(i, s)]) /\ ~IsRedir(toks[PipesFrom(i, s)])
  <1>1. s.pipes \in Seq(PipeForms) /\ Len(s.pipes) \in Nat
    BY StageParts DEF Placed
  <1>2. 1 \in 1 .. Len(s.pipes)
    BY <1>1, EmptySeq
  <1>3. PipesFrom(i, s) + 1 - 1 = PipesFrom(i, s)
    BY PlacedNumbers
  <1>4. toks[PipesFrom(i, s) + 1 - 1] = Pipe(s.pipes[1][2], s.pipes[1][3])
    BY <1>2, Zenon DEF Placed, StageLies, PipesLie
  <1>5. QED
    BY <1>3, <1>4, PipeKind

(* What follows the files of a stage is a pipe or the end. *)
LEMMA PlacedBehind ==
  ASSUME NEW toks, NEW i, NEW s, Placed(toks, i, s)
  PROVE  ~IsLiteral(toks[PipesFrom(i, s)]) /\ ~IsRedir(toks[PipesFrom(i, s)])
  <1>1. CASE s.pipes # <<>>
    BY <1>1, PlacedPipe, Zenon
  <1>2. CASE s.pipes = <<>>
    <2>1. Len(s.pipes) = 0
      BY <1>2
    <2>2. PipesFrom(i, s) = Len(toks)
      <3>1. NextFrom(i, s) = Len(toks)
        BY <1>2 DEF Placed
      <3>2. NextFrom(i, s) = PipesFrom(i, s) + Len(s.pipes) /\ PipesFrom(i, s) \in 1 .. Len(toks)
        BY PlacedNumbers, Zenon
      <3>3. QED
        BY <2>1, <3>1, <3>2
    <2>3. ~IsLiteral(toks[Len(toks)]) /\ ~IsRedir(toks[Len(toks)])
      BY EndedFacts DEF Placed
    <2>4. QED
      BY <2>2, <2>3
  <1>3. QED
    BY <1>1, <1>2

LEMMA PlacedRedir ==
  ASSUME NEW toks, NEW i, NEW s, Placed(toks, i, s), NEW x \in 1 .. Len(s.redirs)
  PROVE  /\ toks[FilesFrom(i, s) + 2 * x - 2] = Redirection(s.redirs[x].form[2], s.redirs[x].form[3])
         /\ toks[FilesFrom(i, s) + 2 * x - 1] = Literal(s.redirs[x].file)
         /\ IsRedir(toks[FilesFrom(i, s) + 2 * x - 2]) /\ ~IsLiteral(toks[FilesFrom(i, s) + 2 * x - 2])
         /\ IsLiteral(toks[FilesFrom(i, s) + 2 * x - 1])
  <1>1. /\ toks[FilesFrom(i, s) + 2 * x - 2] = Redirection(s.redirs[x].form[2], s.redirs[x].form[3])
        /\ toks[FilesFrom(i, s) + 2 * x - 1] = Literal(s.redirs[x].file)
    BY Zenon DEF Placed, StageLies, RedirsLie
  <1>2. QED
    BY <1>1, WordKind, RedirKind

LEMMA PlacedFiles ==
  ASSUME NEW toks, NEW i, NEW s, Placed(toks, i, s)
  PROVE  FilesAt(toks, i) = FilesFrom(i, s)
  <1> DEFINE n == Len(toks)
             S == {k \in DOMAIN toks : IsLiteral(toks[k])}
             b == (i + Len(s.env)) + 1
             d == FilesFrom(i, s)
  <1>1. /\ i \in Nat /\ n \in Nat /\ Len(s.env) \in Nat /\ Len(s.args) \in Nat /\ Len(s.redirs) \in Nat
        /\ b \in 1 .. n /\ d \in 1 .. n
        /\ d = b + Len(s.args) /\ DOMAIN toks = 1 .. n
        /\ PipesFrom(i, s) = d + 2 * Len(s.redirs)
    BY PlacedNumbers
  <1>2. S \subseteq 1 .. n /\ n \notin S
    BY <1>1, EndedFacts DEF Placed
  <1>3. ArgsLie(toks, i, s)
    BY DEF Placed, StageLies
  <1>4. ~IsLiteral(toks[d])
    <2>1. CASE Len(s.redirs) = 0
      <3>1. PipesFrom(i, s) = d
        BY <1>1, <2>1
      <3>2. QED
        BY <3>1, PlacedBehind
    <2>2. CASE Len(s.redirs) # 0
      <3>1. 1 \in 1 .. Len(s.redirs) /\ d + 2 * 1 - 2 = d
        BY <1>1, <2>2
      <3>2. ~IsLiteral(toks[d + 2 * 1 - 2])
        BY <3>1, PlacedRedir, Zenon
      <3>3. QED
        BY <3>1, <3>2, Zenon
    <2>3. QED
      BY <2>1, <2>2
  <1>5. ASSUME NEW k \in b .. d - 1 PROVE k \in S
    <2> DEFINE x == k - b + 1
    <2>1. x \in 1 .. Len(s.args) /\ i + Len(s.env) + x = k /\ k \in 1 .. n
      <3>1. i + Len(s.env) + x = k
        BY <1>1
      <3> HIDE DEF b, d, n
      <3>2. x \in 1 .. Len(s.args) /\ k \in 1 .. n
        BY <1>1
      <3>3. QED
        BY <3>1, <3>2
    <2> HIDE DEF x
    <2>2. toks[i + Len(s.env) + x] = Literal(s.args[x])
      BY <1>3, <2>1, Zenon DEF ArgsLie
    <2>3. IsLiteral(toks[k])
      BY <2>1, <2>2, WordKind
    <2>4. QED
      BY <1>1, <2>1, <2>3
  <1>6. d \in b .. n /\ d \notin S
    <2>1. d \notin S
      BY <1>4
    <2> HIDE DEF b, d, n, S
    <2>2. QED
      BY <1>1, <2>1
  <1>7. Collect(b, S) = d
    <2> HIDE DEF S, d, n, b
    <2>1. QED
      BY <1>1, <1>2, <1>5, <1>6, CollectIs
  <1>8. FilesAt(toks, i) = Collect(BinAt(toks, i) + 1, S)
    BY DEF FilesAt
  <1>9. QED
    BY <1>7, <1>8, PlacedBin

LEMMA PlacedLeft ==
  ASSUME NEW toks, NEW i, NEW s, Placed(toks, i, s)
  PROVE  LeftAt(toks, i) = PipesFrom(i, s) /\ PipesAt(toks, i) = PipesFrom(i, s)
  <1> DEFINE n == Len(toks)
             b == FilesFrom(i, s)
             d == PipesFrom(i, s)
             r == Len(s.redirs)
             c == FilesEnd(toks, b)
  <1>1. n \in Nat /\ r \in Nat /\ b \in 1 .. n /\ d = b + 2 * r /\ d \in 1 .. n
    BY PlacedNumbers
  <1>2. /\ c \in b .. n /\ FilesRun(toks, b, c) /\ ~(IsRedir(toks[c]) /\ IsLiteral(toks[c + 1]))
    BY <1>1, FilesStop DEF Placed
  <1> HIDE DEF b, c, d, n, r
  <1>3. (c - b) % 2 = 0
    BY <1>2 DEF FilesRun
  <1>4. PICK m \in Nat : c = b + 2 * m
    <2>1. c - b \in Nat
      BY <1>1, <1>2
    <2>2. (c - b) \div 2 \in Nat /\ c - b = 2 * ((c - b) \div 2)
      BY <1>3, <2>1
    <2>3. c = b + 2 * ((c - b) \div 2)
      BY <1>1, <1>2, <2>2
    <2>4. QED
      BY <2>2, <2>3
  <1>5. ~(m < r)
    <2>1. SUFFICES ASSUME m < r PROVE FALSE
      OBVIOUS
    <2>2. m + 1 \in 1 .. r /\ b + 2 * (m + 1) - 2 = c /\ b + 2 * (m + 1) - 1 = c + 1
      BY <1>1, <1>4, <2>1
    <2>3. IsRedir(toks[b + 2 * (m + 1) - 2]) /\ IsLiteral(toks[b + 2 * (m + 1) - 1])
      BY <2>2, PlacedRedir, Zenon DEF b, r
    <2>4. QED
      BY <1>2, <2>2, <2>3, Zenon
  <1>6. ~(r < m)
    <2>1. SUFFICES ASSUME r < m PROVE FALSE
      OBVIOUS
    <2>2. d \in b .. c - 1 /\ (d - b) % 2 = 0
      <3>1. d - b = 2 * r
        BY <1>1
      <3>2. (2 * r) % 2 = 0
        BY <1>1
      <3>3. d \in b .. c - 1
        BY <1>1, <1>4, <2>1
      <3>4. QED
        BY <3>1, <3>2, <3>3
    <2>3. IsRedir(toks[d])
      BY <1>2, <2>2, Zenon DEF FilesRun
    <2>4. QED
      BY <2>3, PlacedBehind DEF d
  <1>7. c = d
    BY <1>1, <1>4, <1>5, <1>6
  <1>8. LeftAt(toks, i) = c
    BY PlacedFiles, Zenon DEF LeftAt, c, b
  <1>9. ~IsRedir(toks[d])
    BY PlacedBehind DEF d
  <1>10. QED
    BY <1>7, <1>8, <1>9, Zenon DEF PipesAt, d

LEMMA PlacedEnd ==
  ASSUME NEW toks, NEW i, NEW s, Placed(toks, i, s)
  PROVE  EndAt(toks, i) = NextFrom(i, s)
  <1> DEFINE n == Len(toks)
             S == {k \in DOMAIN toks : IsPipe(toks[k])}
             b == PipesFrom(i, s)
             d == NextFrom(i, s)
             q == Len(s.pipes)
  <1>1. n \in Nat /\ q \in Nat /\ b \in 1 .. n /\ d = b + q /\ d \in 1 .. n /\ DOMAIN toks = 1 .. n
    BY PlacedNumbers
  <1>2. S \subseteq 1 .. n /\ n \notin S
    BY <1>1, EndedFacts DEF Placed
  <1>3. PipesLie(toks, i, s) /\ ~IsPipe(toks[d])
    BY DEF Placed, StageLies
  <1>4. ASSUME NEW k \in b .. d - 1 PROVE k \in S
    <2> DEFINE x == k - b + 1
    <2>1. x \in 1 .. q /\ b + x - 1 = k /\ k \in 1 .. n
      <3> HIDE DEF b, d, q, n
      <3>1. QED
        BY <1>1
    <2> HIDE DEF x
    <2>2. toks[b + x - 1] = Pipe(s.pipes[x][2], s.pipes[x][3])
      BY <1>3, <2>1, Zenon DEF PipesLie
    <2>3. IsPipe(toks[k])
      BY <2>1, <2>2, PipeKind
    <2>4. QED
      BY <1>1, <2>1, <2>3
  <1>5. d \in b .. n /\ d \notin S
    <2>1. d \in b .. n
      <3> HIDE DEF b, d, q, n
      <3>1. QED
        BY <1>1
    <2>2. QED
      BY <1>3, <2>1
  <1>6. Collect(b, S) = d
    <2> HIDE DEF S, d, n, b
    <2>1. QED
      BY <1>1, <1>2, <1>4, <1>5, CollectIs
  <1>7. EndAt(toks, i) = Collect(PipesAt(toks, i), S)
    BY DEF EndAt
  <1>8. QED
    BY <1>6, <1>7, PlacedLeft

LEMMA PlacedNotRefused ==
  ASSUME NEW toks, NEW i, NEW s, Placed(toks, i, s)
  PROVE  ~Refused(toks, i) /\ toks[BinAt(toks, i)].text = s.bin
  <1>1. toks[BinAt(toks, i)] = Literal(s.bin)
    BY PlacedBin DEF Placed, StageLies, BinLies
  <1>2. ~IsRedir(toks[LeftAt(toks, i)])
    <2>1. LeftAt(toks, i) = PipesFrom(i, s)
      BY PlacedLeft
    <2>2. ~IsRedir(toks[PipesFrom(i, s)])
      BY PlacedBehind
    <2>3. QED
      BY <2>1, <2>2, Zenon
  <1>3. IsLiteral(toks[BinAt(toks, i)]) /\ toks[BinAt(toks, i)].text = s.bin
    BY <1>1, WordKind
  <1>4. QED
    BY <1>2, <1>3 DEF Refused

----------------------------------------------------------------------------
(* What build makes of a stage, and of a job.                              *)
(* What a stage of a job means. *)
MeantRedirs(s) ==
  [r \in DOMAIN s.redirs |->
     [from |-> s.redirs[r].form[2], mode |-> s.redirs[r].form[3], file |-> s.redirs[r].file]]
MeantLinks(s) ==
  { [to |-> fd, from |-> UNION {p[2] : p \in {q \in Range(s.pipes) : q[3] = fd}}] :
    fd \in {p[3] : p \in Range(s.pipes)} }
MeantStage(s) == Stage(s.env, s.bin, s.args, MeantRedirs(s), MeantLinks(s))

SpellAt(toks, i, v) == \A k \in 1 .. Len(v) : toks[i + k - 1] = Literal(v[k])

LEMMA WordsAre ==
  ASSUME NEW toks, NEW i \in Nat, NEW S, NEW v \in Seq(S), NEW j, j = i + Len(v),
         SpellAt(toks, i, v)
  PROVE  Words(toks, i, j) = v
  <1>1. Len(v) \in Nat /\ v = [k \in 1 .. Len(v) |-> v[k]] /\ j - i = Len(v)
    BY LenProperties
  <1>2. \A k \in 1 .. Len(v) : toks[i + k - 1].text = v[k]
    BY WordKind DEF SpellAt
  <1>3. Words(toks, i, j) = [k \in 1 .. Len(v) |-> toks[i + k - 1].text]
    BY <1>1 DEF Words
  <1>4. QED
    BY <1>1, <1>2, <1>3

LEMMA PlacedWords ==
  ASSUME NEW toks, NEW i, NEW s, Placed(toks, i, s)
  PROVE  /\ Words(toks, i, BinAt(toks, i)) = s.env
         /\ Words(toks, BinAt(toks, i) + 1, FilesAt(toks, i)) = s.args
  <1>1. BinAt(toks, i) = i + Len(s.env) /\ FilesAt(toks, i) = FilesFrom(i, s)
    BY PlacedBin, PlacedFiles
  <1>2. /\ i \in Nat /\ Len(s.env) \in Nat /\ Len(s.args) \in Nat
        /\ FilesFrom(i, s) = ((i + Len(s.env)) + 1) + Len(s.args)
    BY PlacedNumbers
  <1>3. s.env \in Seq(Names) /\ s.args \in Seq(Names)
    BY StageParts DEF Placed
  <1>4. EnvLies(toks, i, s) /\ ArgsLie(toks, i, s)
    BY DEF Placed, StageLies
  <1>5. Words(toks, i, i + Len(s.env)) = s.env
    <2>1. SpellAt(toks, i, s.env)
      BY <1>4, Zenon DEF EnvLies, SpellAt
    <2>2. QED
      BY <1>2, <1>3, <2>1, WordsAre, Zenon
  <1>6. Words(toks, (i + Len(s.env)) + 1, FilesFrom(i, s)) = s.args
    <2>1. \A k \in 1 .. Len(s.args) : ((i + Len(s.env)) + 1) + k - 1 = i + Len(s.env) + k
      BY <1>2
    <2>2. SpellAt(toks, (i + Len(s.env)) + 1, s.args)
      BY <1>4, <2>1, Zenon DEF ArgsLie, SpellAt
    <2>3. (i + Len(s.env)) + 1 \in Nat
      BY <1>2
    <2>4. QED
      BY <1>2, <1>3, <2>2, <2>3, WordsAre, Zenon
  <1>7. QED
    BY <1>1, <1>5, <1>6

LEMMA PlacedRedirs ==
  ASSUME NEW toks, NEW i, NEW s, Placed(toks, i, s)
  PROVE  Redirs(toks, FilesAt(toks, i), LeftAt(toks, i)) = MeantRedirs(s)
  <1> DEFINE b == FilesFrom(i, s)
             d == PipesFrom(i, s)
             r == Len(s.redirs)
  <1>1. b \in Nat /\ r \in Nat /\ d = b + 2 * r
    BY PlacedNumbers
  <1>2. FilesAt(toks, i) = b /\ LeftAt(toks, i) = d
    BY PlacedFiles, PlacedLeft
  <1>3. DOMAIN s.redirs = 1 .. r
    BY StageParts DEF Placed
  <1>4. ASSUME NEW x \in 1 .. r
        PROVE  /\ toks[b + 2 * x - 2].from = s.redirs[x].form[2]
               /\ toks[b + 2 * x - 2].mode = s.redirs[x].form[3]
               /\ toks[b + 2 * x - 1].text = s.redirs[x].file
    BY PlacedRedir, RedirKind, WordKind
  <1> HIDE DEF b, d, r
  <1>5. (d - b) \div 2 = r
    BY <1>1
  <1>6. QED
    BY <1>2, <1>3, <1>4, <1>5 DEF Redirs, MeantRedirs

LEMMA PlacedLinks ==
  ASSUME NEW toks, NEW i, NEW s, Placed(toks, i, s)
  PROVE  Links(toks, PipesAt(toks, i), EndAt(toks, i)) = MeantLinks(s)
  <1> DEFINE b == PipesFrom(i, s)
             d == NextFrom(i, s)
             q == Len(s.pipes)
             R == Range(s.pipes)
  <1>1. b \in Nat /\ q \in Nat /\ d = b + q
    BY PlacedNumbers
  <1>2. PipesAt(toks, i) = b /\ EndAt(toks, i) = d
    BY PlacedLeft, PlacedEnd
  <1>3. \A x \in 1 .. q : toks[b + x - 1] = Pipe(s.pipes[x][2], s.pipes[x][3])
    BY Zenon DEF Placed, StageLies, PipesLie
  <1>4. R = {s.pipes[x] : x \in 1 .. q}
    BY StageParts DEF Placed, Range
  <1>5. ASSUME NEW k \in b .. d - 1
        PROVE  \E p \in R : toks[k].to = p[3] /\ toks[k].from = p[2]
    <2>1. PICK x \in 1 .. q : b + x - 1 = k
      <3> HIDE DEF b, d, q, R
      <3>1. k - b + 1 \in 1 .. q /\ b + (k - b + 1) - 1 = k
        BY <1>1
      <3>2. QED
        BY <3>1
    <2>2. toks[k] = Pipe(s.pipes[x][2], s.pipes[x][3])
      BY <1>3, <2>1, Zenon
    <2>3. toks[k].to = s.pipes[x][3] /\ toks[k].from = s.pipes[x][2]
      BY <2>2, PipeKind
    <2>4. s.pipes[x] \in R
      BY <1>4
    <2>5. QED
      BY <2>3, <2>4
  <1>6. ASSUME NEW p \in R
        PROVE  \E k \in b .. d - 1 : toks[k].to = p[3] /\ toks[k].from = p[2]
    <2>1. PICK x \in 1 .. q : p = s.pipes[x]
      BY <1>4
    <2>2. b + x - 1 \in b .. d - 1
      <3> HIDE DEF b, d, q, R
      <3>1. QED
        BY <1>1
    <2>3. toks[b + x - 1].to = p[3] /\ toks[b + x - 1].from = p[2]
      BY <1>3, <2>1, PipeKind
    <2>4. QED
      BY <2>2, <2>3
  <1> DEFINE K == b .. d - 1
             to(k) == toks[k].to
             from(k) == toks[k].from
  <1> HIDE DEF b, d, q, R, K
  <1>7. {toks[k].to : k \in K} = {p[3] : p \in R}
    BY <1>5, <1>6 DEF K
  <1>8. ASSUME NEW fd
        PROVE  UNION {toks[k].from : k \in {l \in K : toks[l].to = fd}}
                 = UNION {p[2] : p \in {r \in R : r[3] = fd}}
    <2>1. {toks[k].from : k \in {l \in K : toks[l].to = fd}} = {p[2] : p \in {r \in R : r[3] = fd}}
      BY <1>5, <1>6 DEF K
    <2>2. QED
      BY <2>1
  <1>9. Links(toks, b, d) = MeantLinks(s)
    BY <1>7, <1>8 DEF Links, MeantLinks, K, R
  <1>10. QED
    BY <1>2, <1>9

LEMMA StageMeant ==
  ASSUME NEW toks, NEW i, NEW s, Placed(toks, i, s)
  PROVE  /\ ~Refused(toks, i)
         /\ StageAt(toks, i, Links(toks, PipesAt(toks, i), EndAt(toks, i))) = MeantStage(s)
  BY PlacedWords, PlacedRedirs, PlacedLinks, PlacedNotRefused, Zenon DEF StageAt, MeantStage

(* The last stage of a job stands alone, another one before the next one.  *)
LEMMA LastMeant ==
  ASSUME NEW toks, NEW i, NEW s, Placed(toks, i, s), s.pipes = <<>>, NEW next
  PROVE  Chained(toks, i, next) = << MeantStage(s) >>
  <1>1. EndAt(toks, i) = PipesAt(toks, i)
    <2>1. NextFrom(i, s) = PipesFrom(i, s) + Len(s.pipes) /\ PipesFrom(i, s) \in 1 .. Len(toks)
      BY PlacedNumbers, Zenon
    <2>2. Len(s.pipes) = 0
      OBVIOUS
    <2>3. NextFrom(i, s) = PipesFrom(i, s)
      BY <2>1, <2>2
    <2>4. QED
      BY <2>3, PlacedLeft, PlacedEnd
  <1>2. Range(s.pipes) = {}
    BY DEF Range
  <1>3. MeantLinks(s) = {}
    BY <1>2 DEF MeantLinks
  <1>4. StageAt(toks, i, {}) = MeantStage(s)
    BY <1>3, PlacedLinks, StageMeant
  <1>5. QED
    BY <1>1, <1>4, Zenon DEF Chained

LEMMA NextMeant ==
  ASSUME NEW toks, NEW i, NEW s, Placed(toks, i, s), s.pipes # <<>>, NEW next, next # <<>>
  PROVE  Chained(toks, i, next) = << MeantStage(s) >> \o next
  <1>1. EndAt(toks, i) # PipesAt(toks, i)
    <2>1. /\ NextFrom(i, s) = PipesFrom(i, s) + Len(s.pipes)
          /\ PipesFrom(i, s) \in Nat /\ Len(s.pipes) \in Nat
      BY PlacedNumbers
    <2>2. Len(s.pipes) # 0
      BY StageParts, EmptySeq DEF Placed
    <2>3. NextFrom(i, s) # PipesFrom(i, s)
      BY <2>1, <2>2
    <2>4. QED
      BY <2>3, PlacedLeft, PlacedEnd
  <1>2. QED
    BY <1>1, StageMeant, Zenon DEF Chained

(* A stage begins with a word. *)
LEMMA FirstWord ==
  ASSUME NEW toks, NEW i \in Nat, NEW s \in UserStages, StageLies(toks, i, s)
  PROVE  ~IsPipe(toks[i])
  <1> DEFINE e == Len(s.env)
  <1>1. e \in Nat
    BY StageParts
  <1>2. EnvLies(toks, i, s) /\ BinLies(toks, i, s)
    BY DEF StageLies
  <1>3. CASE e = 0
    <2>1. i + e = i
      BY <1>3
    <2>2. toks[i] = Literal(s.bin)
      BY <1>2, <2>1, Zenon DEF BinLies
    <2>3. QED
      BY <2>2, WordKind
  <1>4. CASE e # 0
    <2>1. 1 \in 1 .. e /\ i + 1 - 1 = i
      BY <1>1, <1>4
    <2>2. toks[i] = Literal(s.env[1])
      BY <1>2, <2>1, Zenon DEF EnvLies
    <2>3. QED
      BY <2>2, WordKind
  <1>5. QED
    BY <1>3, <1>4

(* What lies in m lies in the tokens that m is a part of. *)
IsPart(toks, a, m) == \A x \in 1 .. Len(m) : toks[a + x] = m[x]

LEMMA StageShifts ==
  ASSUME NEW toks, NEW a \in Nat, NEW m, NEW s \in UserStages,
         IsPart(toks, a, m), StageLies(m, 1, s), Len(m) = NextFrom(0, s)
  PROVE  /\ StageLies(toks, a + 1, s)
         /\ NextFrom(a + 1, s) = (a + Len(m)) + 1
  <1> DEFINE e == Len(s.env)
             g == Len(s.args)
             r == Len(s.redirs)
             q == Len(s.pipes)
  <1>1. e \in Nat /\ g \in Nat /\ r \in Nat /\ q \in Nat
    BY StageParts
  <1>2. \A x \in 1 .. Len(m) : toks[a + x] = m[x]
    BY DEF IsPart
  <1>3. /\ FilesFrom(1, s) = e + g + 2 /\ FilesFrom(a + 1, s) = a + e + g + 2
        /\ PipesFrom(1, s) = e + g + 2 + 2 * r /\ PipesFrom(a + 1, s) = a + e + g + 2 + 2 * r
        /\ NextFrom(a + 1, s) = a + e + g + 2 + 2 * r + q /\ Len(m) = e + g + 1 + 2 * r + q
    <2>1. /\ FilesFrom(1, s) = 1 + e + g + 1 /\ FilesFrom(a + 1, s) = a + 1 + e + g + 1
          /\ PipesFrom(1, s) = FilesFrom(1, s) + 2 * r
          /\ PipesFrom(a + 1, s) = FilesFrom(a + 1, s) + 2 * r
          /\ NextFrom(a + 1, s) = PipesFrom(a + 1, s) + q
          /\ Len(m) = 0 + e + g + 1 + 2 * r + q
      BY Zenon DEF FilesFrom, PipesFrom, NextFrom
    <2>2. PICK f1, f2, p1, p2, l, d : /\ f1 = FilesFrom(1, s) /\ f2 = FilesFrom(a + 1, s)
                                       /\ p1 = PipesFrom(1, s) /\ p2 = PipesFrom(a + 1, s)
                                       /\ l = Len(m) /\ d = NextFrom(a + 1, s)
      OBVIOUS
    <2> HIDE DEF e, g, r, q
    <2>3. f1 = e + g + 2 /\ f2 = a + e + g + 2
      BY <1>1, <2>1, <2>2
    <2>4. p1 = e + g + 2 + 2 * r /\ p2 = a + e + g + 2 + 2 * r
      BY <1>1, <2>1, <2>2, <2>3
    <2>5. d = a + e + g + 2 + 2 * r + q /\ l = e + g + 1 + 2 * r + q
      BY <1>1, <2>1, <2>2, <2>4
    <2>6. QED
      BY <2>2, <2>3, <2>4, <2>5, Zenon
  <1>4. /\ EnvLies(m, 1, s) /\ BinLies(m, 1, s) /\ ArgsLie(m, 1, s)
        /\ RedirsLie(m, 1, s) /\ PipesLie(m, 1, s)
    BY DEF StageLies
  <1>5. EnvLies(toks, a + 1, s)
    <2>1. ASSUME NEW x \in 1 .. e PROVE toks[a + 1 + x - 1] = Literal(s.env[x])
      <3>1. 1 + x - 1 \in 1 .. Len(m) /\ a + (1 + x - 1) = a + 1 + x - 1
        <4> HIDE DEF e, g, r, q
        <4>1. QED
          BY <1>1, <1>3
      <3>2. m[1 + x - 1] = Literal(s.env[x])
        BY <1>4, Zenon DEF EnvLies
      <3>3. QED
        BY <1>2, <3>1, <3>2, Zenon
    <2>2. QED
      BY <2>1, Zenon DEF EnvLies
  <1>6. BinLies(toks, a + 1, s)
    <2>1. 1 + e \in 1 .. Len(m) /\ a + (1 + e) = a + 1 + e
      <3> HIDE DEF e, g, r, q
      <3>1. QED
        BY <1>1, <1>3
    <2>2. QED
      BY <1>2, <1>4, <2>1, Zenon DEF BinLies
  <1>7. ArgsLie(toks, a + 1, s)
    <2>1. ASSUME NEW x \in 1 .. g PROVE toks[a + 1 + e + x] = Literal(s.args[x])
      <3>1. 1 + e + x \in 1 .. Len(m) /\ a + (1 + e + x) = a + 1 + e + x
        <4> HIDE DEF e, g, r, q
        <4>1. QED
          BY <1>1, <1>3
      <3>2. m[1 + e + x] = Literal(s.args[x])
        BY <1>4, Zenon DEF ArgsLie
      <3>3. QED
        BY <1>2, <3>1, <3>2, Zenon
    <2>2. QED
      BY <2>1, Zenon DEF ArgsLie
  <1>8. RedirsLie(toks, a + 1, s)
    <2> DEFINE b == FilesFrom(1, s)
               c == FilesFrom(a + 1, s)
    <2>1. ASSUME NEW x \in 1 .. r
          PROVE  toks[c + 2 * x - 2] = m[b + 2 * x - 2] /\ toks[c + 2 * x - 1] = m[b + 2 * x - 1]
      <3>1. /\ b + 2 * x - 2 \in 1 .. Len(m) /\ a + (b + 2 * x - 2) = c + 2 * x - 2
            /\ b + 2 * x - 1 \in 1 .. Len(m) /\ a + (b + 2 * x - 1) = c + 2 * x - 1
        <4> HIDE DEF e, g, r, q, b, c
        <4>1. b = e + g + 2 /\ c = a + e + g + 2 /\ Len(m) = e + g + 1 + 2 * r + q
          BY <1>3 DEF b, c
        <4>2. QED
          BY <1>1, <4>1
      <3>2. QED
        BY <1>2, <3>1, Zenon
    <2>2. QED
      BY <1>4, <2>1, Zenon DEF RedirsLie
  <1>9. PipesLie(toks, a + 1, s)
    <2> DEFINE b == PipesFrom(1, s)
               c == PipesFrom(a + 1, s)
    <2>1. ASSUME NEW x \in 1 .. q PROVE toks[c + x - 1] = m[b + x - 1]
      <3>1. b + x - 1 \in 1 .. Len(m) /\ a + (b + x - 1) = c + x - 1
        <4> HIDE DEF e, g, r, q, b, c
        <4>1. /\ b = e + g + 2 + 2 * r /\ c = a + e + g + 2 + 2 * r
              /\ Len(m) = e + g + 1 + 2 * r + q
          BY <1>3 DEF b, c
        <4>2. QED
          BY <1>1, <4>1
      <3>2. QED
        BY <1>2, <3>1, Zenon
    <2>2. QED
      BY <1>4, <2>1, Zenon DEF PipesLie
  <1>10. NextFrom(a + 1, s) = (a + Len(m)) + 1
    <2>1. PICK l, d : l = Len(m) /\ d = NextFrom(a + 1, s)
      OBVIOUS
    <2> HIDE DEF e, g, r, q
    <2>2. d = a + e + g + 2 + 2 * r + q /\ l = e + g + 1 + 2 * r + q
      BY <1>3, <2>1, Zenon
    <2>3. d = (a + l) + 1
      BY <1>1, <2>2
    <2>4. QED
      BY <2>1, <2>3, Zenon
  <1>11. QED
    BY <1>5, <1>6, <1>7, <1>8, <1>9, <1>10 DEF StageLies

(* The stages of a job lie in its tokens one behind the other. *)
JobPlaced(at, toks, j) ==
  /\ at \in [1 .. Len(j) + 1 -> Nat] /\ at[1] = 0
  /\ \A k \in 1 .. Len(j) : /\ Placed(toks, at[k] + 1, j[k])
                            /\ NextFrom(at[k] + 1, j[k]) = at[k + 1] + 1

LEMMA JobLies ==
  ASSUME NEW j \in Jobs, NEW toks, AreTokens(toks, JobMeanings(j))
  PROVE  \E at : JobPlaced(at, toks, j)
  <1> DEFINE n == Len(j)
             ts == JobMeanings(j)
             m == [k \in DOMAIN j |-> Meanings(j[k])]
  <1>1. /\ j \in Seq(UserStages) /\ n \in Nat /\ DOMAIN j = 1 .. n
        /\ \A k \in 1 .. n : j[k] \in UserStages
        /\ \A k \in 1 .. n : j[k].pipes = <<>> => k = n
    BY JobTypes, LenProperties, ElementOfSeq
  <1>2. m \in Seq(Seq(TokenSet)) /\ ts = Flat(m)
    BY <1>1, JobAgrees DEF JobMeanings
  <1>3. Len(m) = n /\ \A k \in 1 .. n : m[k] = Meanings(j[k])
    <2>1. DOMAIN m = 1 .. n /\ \A k \in 1 .. n : m[k] = Meanings(j[k])
      BY <1>1
    <2> HIDE DEF m
    <2>2. Len(m) \in Nat /\ DOMAIN m = 1 .. Len(m)
      BY <1>2, LenProperties
    <2> HIDE DEF n
    <2>3. Len(m) = n
      BY <1>1, <2>1, <2>2
    <2>4. QED
      BY <2>1, <2>3, Zenon
  <1> HIDE DEF m, ts
  <1>4. PICK at : Places(at, m, ts)
    BY <1>2, FlatPlaces, Zenon
  <1>5. /\ at \in [1 .. n + 1 -> 0 .. Len(ts)] /\ at[1] = 0 /\ at[n + 1] = Len(ts)
        /\ \A k \in 1 .. n : /\ at[k + 1] = at[k] + Len(m[k])
                             /\ \A x \in 1 .. Len(m[k]) : ts[at[k] + x] = m[k][x]
    BY <1>3, <1>4, Zenon DEF Places
  <1>6. /\ Ended(toks) /\ Len(toks) = Len(ts) + 1
        /\ \A k \in 1 .. Len(ts) : toks[k] = ts[k]
    BY DEF AreTokens, ts
  <1>7. Len(ts) \in Nat
    BY <1>2, FlatType, LenProperties
  <1> HIDE DEF n
  <1>8. \A k \in 1 .. n + 1 : at[k] \in Nat /\ at[k] + 1 \in 1 .. Len(toks)
    BY <1>5, <1>6, <1>7
  <1>9. ASSUME NEW k \in 1 .. n
        PROVE  /\ StageLies(toks, at[k] + 1, j[k])
               /\ NextFrom(at[k] + 1, j[k]) = at[k + 1] + 1
    <2>1. k \in 1 .. n + 1 /\ k + 1 \in 1 .. n + 1
      BY <1>1
    <2>2. m[k] = Meanings(j[k]) /\ j[k] \in UserStages
      BY <1>1, <1>3
    <2>3. StageLies(m[k], 1, j[k]) /\ Len(m[k]) = NextFrom(0, j[k])
      BY <2>2, MeaningsLie
    <2>4. IsPart(toks, at[k], m[k])
      <3>1. ASSUME NEW x \in 1 .. Len(m[k]) PROVE toks[at[k] + x] = m[k][x]
        <4>1. PICK u \in Nat, v \in Nat : u = at[k] /\ v = at[k + 1]
          BY <1>8, <2>1
        <4>2. v = u + Len(m[k]) /\ v <= Len(ts)
          BY <1>5, <2>1, <4>1
        <4>3. Len(m[k]) \in Nat
          <5>1. Meanings(j[k]) \in Seq(TokenSet)
            BY <2>2, StageAgrees DEF Agree
          <5>2. QED
            BY <2>2, <5>1, LenProperties
        <4>4. u + x \in 1 .. Len(ts)
          BY <1>7, <4>1, <4>2, <4>3
        <4>5. toks[at[k] + x] = ts[at[k] + x]
          BY <1>6, <4>1, <4>4, Zenon
        <4>6. QED
          BY <1>5, <4>5, Zenon
      <3>2. QED
        BY <3>1, Zenon DEF IsPart
    <2>5. at[k] \in Nat
      BY <1>8, <2>1
    <2>6. /\ StageLies(toks, at[k] + 1, j[k])
          /\ NextFrom(at[k] + 1, j[k]) = (at[k] + Len(m[k])) + 1
      BY <2>2, <2>3, <2>4, <2>5, StageShifts, Zenon
    <2>7. at[k + 1] = at[k] + Len(m[k])
      BY <1>5
    <2>8. QED
      BY <2>6, <2>7, Zenon
  <1>10. ASSUME NEW k \in 1 .. n PROVE Placed(toks, at[k] + 1, j[k])
    <2>1. /\ k \in 1 .. n + 1 /\ k + 1 \in 1 .. n + 1
          /\ k = n => k + 1 = n + 1
          /\ k # n => k + 1 \in 1 .. n
      BY <1>1
    <2>2. at[k] + 1 \in 1 .. Len(toks) /\ at[k + 1] + 1 \in 1 .. Len(toks) /\ at[k + 1] + 1 \in Nat
      BY <1>8, <2>1
    <2>3. k = n => at[k + 1] + 1 = Len(toks)
      BY <1>5, <1>6, <2>1
    <2>4. ~IsPipe(toks[at[k + 1] + 1])
      <3>1. CASE k = n
        BY <1>6, <2>3, <3>1, EndedFacts
      <3>2. CASE k # n
        <4>1. StageLies(toks, at[k + 1] + 1, j[k + 1]) /\ j[k + 1] \in UserStages
          BY <1>1, <1>9, <2>1, <3>2
        <4>2. QED
          BY <2>2, <4>1, FirstWord
      <3>3. QED
        BY <3>1, <3>2
    <2>5. j[k].pipes = <<>> => at[k + 1] + 1 = Len(toks)
      BY <1>1, <2>3
    <2>6. QED
      BY <1>1, <1>6, <1>9, <2>2, <2>4, <2>5, Zenon DEF Placed
  <1>11. at \in [1 .. n + 1 -> Nat]
    BY <1>5, <1>7
  <1>12. JobPlaced(at, toks, j)
    BY <1>5, <1>9, <1>10, <1>11 DEF JobPlaced, n
  <1>13. QED
    BY <1>12, Zenon

LEMMA Single ==
  ASSUME NEW S, NEW x \in S
  PROVE  << x >> \in Seq(S) /\ Len(<< x >>) = 1 /\ << x >>[1] = x
  OBVIOUS

LEMMA Rests ==
  ASSUME NEW S, NEW g \in Seq(S), NEW n, n = Len(g)
  PROVE  /\ \A k \in 1 .. n : SubSeq(g, k, n) # <<>>
         /\ SubSeq(g, 1, n) = g
         /\ n # 0 => SubSeq(g, n, n) = << g[n] >>
  <1>1. n \in Nat
    BY LenProperties
  <1>2. ASSUME NEW k \in 1 .. n
        PROVE  /\ SubSeq(g, k, n) \in Seq(S) /\ Len(SubSeq(g, k, n)) = n - k + 1
               /\ \A i \in 1 .. n - k + 1 : SubSeq(g, k, n)[i] = g[k + i - 1]
    <2>1. /\ SubSeq(g, k, n) \in Seq(S)
          /\ Len(SubSeq(g, k, n)) = (IF k <= n THEN n - k + 1 ELSE 0)
          /\ \A i \in 1 .. n - k + 1 : SubSeq(g, k, n)[i] = g[k + i - 1]
      BY <1>1, SubSeqProperties
    <2>2. k <= n
      BY <1>1
    <2>3. QED
      BY <2>1, <2>2
  <1>3. ASSUME NEW k \in 1 .. n PROVE SubSeq(g, k, n) # <<>>
    <2>1. n - k + 1 # 0 /\ Len(<<>>) = 0
      BY <1>1
    <2>2. QED
      BY <1>2, <2>1
  <1>4. SubSeq(g, 1, n) = g
    <2>1. CASE n = 0
      <3>1. g = <<>>
        BY <2>1, EmptySeq
      <3>2. QED
        BY <2>1, <3>1
    <2>2. CASE n # 0
      <3>1. 1 \in 1 .. n /\ n - 1 + 1 = n /\ \A i \in 1 .. n : 1 + i - 1 = i
        BY <1>1, <2>2
      <3>2. /\ SubSeq(g, 1, n) \in Seq(S) /\ Len(SubSeq(g, 1, n)) = n
            /\ \A i \in 1 .. n : SubSeq(g, 1, n)[i] = g[i]
        BY <1>2, <3>1
      <3>3. QED
        BY <3>2, SeqEqual
    <2>3. QED
      BY <2>1, <2>2
  <1>5. ASSUME n # 0 PROVE SubSeq(g, n, n) = << g[n] >>
    <2>1. n \in 1 .. n /\ n - n + 1 = 1 /\ n + 1 - 1 = n /\ 1 \in 1 .. 1
      BY <1>1, <1>5
    <2>2. /\ SubSeq(g, n, n) \in Seq(S) /\ Len(SubSeq(g, n, n)) = 1
          /\ SubSeq(g, n, n)[1] = g[n]
      BY <1>2, <2>1
    <2>3. << g[n] >> \in Seq(S) /\ Len(<< g[n] >>) = 1 /\ << g[n] >>[1] = g[n]
      <3>1. g[n] \in S
        BY <2>1, ElementOfSeq
      <3>2. QED
        BY <3>1, Single
    <2>4. \A i \in 1 .. 1 : i = 1
      OBVIOUS
    <2> DEFINE u == SubSeq(g, n, n)
               v == << g[n] >>
    <2>5. u \in Seq(S) /\ v \in Seq(S) /\ Len(u) = Len(v) /\ \A i \in 1 .. Len(u) : u[i] = v[i]
      BY <2>2, <2>3, <2>4, Zenon
    <2> HIDE DEF u, v
    <2>6. u = v
      BY <2>5, SeqEqual
    <2>7. QED
      BY <2>6 DEF u, v
  <1>6. QED
    BY <1>3, <1>4, <1>5

(* The rest of a sequence, its first element apart. *)
LEMMA ConsRest ==
  ASSUME NEW S, NEW g \in Seq(S), NEW k \in 1 .. Len(g) - 1
  PROVE  << g[k] >> \o SubSeq(g, k + 1, Len(g)) = SubSeq(g, k, Len(g))
  <1> DEFINE n == Len(g)
             r == SubSeq(g, k + 1, n)
             s == SubSeq(g, k, n)
  <1>1. n \in Nat /\ k \in 1 .. n /\ k + 1 \in 1 .. n
    BY LenProperties
  <1>2. g[k] \in S
    BY <1>1, ElementOfSeq
  <1>3. PICK h \in Seq(S) : h = << g[k] >> /\ Len(h) = 1 /\ h[1] = g[k]
    BY <1>2, Single, Zenon
  <1>4. r \in Seq(S) /\ Len(r) = n - k /\ \A i \in 1 .. n - k : r[i] = g[k + i]
    BY <1>1
  <1>5. s \in Seq(S) /\ Len(s) = n - k + 1 /\ \A i \in 1 .. n - k + 1 : s[i] = g[k + i - 1]
    BY <1>1
  <1> HIDE DEF n, r, s
  <1>6. /\ h \o r \in Seq(S) /\ Len(h \o r) = Len(h) + Len(r)
        /\ \A i \in 1 .. Len(h) + Len(r) : (h \o r)[i] = IF i <= Len(h) THEN h[i] ELSE r[i - Len(h)]
    BY <1>4, ConcatProperties
  <1>7. Len(h \o r) = Len(s)
    BY <1>1, <1>3, <1>4, <1>5, <1>6
  <1>8. ASSUME NEW i \in 1 .. Len(s) PROVE (h \o r)[i] = s[i]
    <2>1. i \in 1 .. n - k + 1 /\ i \in 1 .. Len(h) + Len(r)
      BY <1>5, <1>6, <1>7
    <2>2. CASE i = 1
      <3>1. k + 1 - 1 = k /\ i <= Len(h)
        BY <1>1, <1>3, <2>2
      <3>2. s[1] = g[k]
        BY <1>5, <2>1, <2>2, <3>1
      <3>3. QED
        BY <1>3, <1>6, <2>1, <2>2, <3>1, <3>2
    <2>3. CASE i # 1
      <3>1. i - 1 \in 1 .. n - k /\ k + (i - 1) = k + i - 1 /\ ~(i <= Len(h))
        BY <1>1, <1>3, <2>1, <2>3
      <3>2. (h \o r)[i] = r[i - 1]
        BY <1>3, <1>6, <2>1, <3>1
      <3>3. r[i - 1] = g[k + (i - 1)] /\ s[i] = g[k + i - 1]
        BY <1>4, <1>5, <2>1, <3>1, Zenon
      <3>4. QED
        BY <3>1, <3>2, <3>3
    <2>4. QED
      BY <2>2, <2>3
  <1>9. h \o r = s
    BY <1>5, <1>6, <1>7, <1>8, SeqEqual
  <1>10. QED
    BY <1>3, <1>9 DEF n, r, s

(* Built from its tokens, a job is what it means. *)
LEMMA BuildMeans ==
  ASSUME NEW j \in Jobs, NEW toks, AreTokens(toks, JobMeanings(j))
  PROVE  Build(toks) = Meant(j)
  <1> DEFINE n == Len(j)
             S == {MeantStage(j[k]) : k \in 1 .. n}
             g == [k \in 1 .. n |-> MeantStage(j[k])]
  <1>1. /\ n \in Nat \ {0} /\ DOMAIN j = 1 .. n
        /\ \A k \in 1 .. n : j[k].pipes = <<>> <=> k = n
    BY JobTypes, LenProperties, EmptySeq
  <1>2. Meant(j) = g
    BY <1>1 DEF Meant, MeantStage, MeantRedirs, MeantLinks
  <1>3. g \in Seq(S) /\ Len(g) = n /\ \A k \in 1 .. n : g[k] = MeantStage(j[k])
    <2> HIDE DEF n
    <2>1. g \in [1 .. n -> S] /\ \A k \in 1 .. n : g[k] = MeantStage(j[k])
      OBVIOUS
    <2> HIDE DEF g, S
    <2>2. QED
      BY <1>1, <2>1
  <1>4. PICK at : JobPlaced(at, toks, j)
    BY JobLies
  <1>5. /\ at \in [1 .. n + 1 -> Nat] /\ at[1] = 0
        /\ \A k \in 1 .. n : /\ Placed(toks, at[k] + 1, j[k])
                             /\ NextFrom(at[k] + 1, j[k]) = at[k + 1] + 1
    BY <1>4, Zenon DEF JobPlaced
  <1>6. Ended(toks)
    BY DEF AreTokens
  <1>7. PICK f : Builds(f, toks)
    BY <1>6, BuildBuilds
  <1> HIDE DEF g, S
  <1> DEFINE D == {k \in 1 .. n : f[at[k] + 1] = SubSeq(g, k, n)}
  <1>8. ASSUME NEW k \in 1 .. n, k + 1 .. n \subseteq D PROVE k \in D
    <2>1. Placed(toks, at[k] + 1, j[k])
      BY <1>5
    <2>2. at[k] + 1 \in 1 .. Len(toks) /\ ~Refused(toks, at[k] + 1)
      BY <2>1, StageMeant DEF Placed
    <2>3. EndAt(toks, at[k] + 1) = at[k + 1] + 1
      BY <1>5, <2>1, PlacedEnd
    <2>4. f[at[k] + 1] = Chained(toks, at[k] + 1, f[at[k + 1] + 1])
      BY <1>7, <2>2, <2>3, Zenon DEF Builds
    <2>5. CASE k = n
      <3>1. f[at[k] + 1] = << MeantStage(j[k]) >>
        BY <1>1, <2>1, <2>4, <2>5, LastMeant, ZenonT(40)
      <3>2. SubSeq(g, n, n) = << g[n] >>
        <4>1. n # 0
          BY <1>1
        <4>2. QED
          BY <1>3, <4>1, Rests, Zenon
      <3>3. QED
        BY <1>3, <2>5, <3>1, <3>2
    <2>6. CASE k # n
      <3>1. k + 1 \in D /\ k + 1 \in 1 .. n /\ k \in 1 .. n - 1
        <4> HIDE DEF D, n
        <4>1. QED
          BY <1>1, <1>8, <2>6
      <3>2. f[at[k + 1] + 1] = SubSeq(g, k + 1, n)
        BY <3>1
      <3>3. SubSeq(g, k + 1, n) # <<>>
        BY <1>3, <3>1, Rests, Zenon
      <3>4. j[k].pipes # <<>>
        BY <1>1, <2>6
      <3>5. f[at[k] + 1] = << MeantStage(j[k]) >> \o SubSeq(g, k + 1, n)
        <4>1. Chained(toks, at[k] + 1, SubSeq(g, k + 1, n))
                = << MeantStage(j[k]) >> \o SubSeq(g, k + 1, n)
          BY <2>1, <3>3, <3>4, NextMeant, Zenon
        <4>2. f[at[k] + 1] = Chained(toks, at[k] + 1, SubSeq(g, k + 1, n))
          BY <2>4, <3>2, Zenon
        <4>3. QED
          BY <4>1, <4>2, Zenon
      <3>6. << g[k] >> \o SubSeq(g, k + 1, n) = SubSeq(g, k, n)
        BY <1>3, <3>1, ConsRest, Zenon
      <3>7. QED
        BY <1>3, <3>5, <3>6
    <2>7. QED
      BY <2>5, <2>6
  <1>9. 1 \in D
    <2> HIDE DEF D, n
    <2>1. 1 .. n \subseteq D
      BY <1>1, <1>8, DownInduction
    <2>2. QED
      BY <1>1, <2>1
  <1>10. f[1] = SubSeq(g, 1, n)
    BY <1>5, <1>9
  <1>11. SubSeq(g, 1, n) = g
    BY <1>3, Rests, Zenon
  <1>12. QED
    BY <1>2, <1>7, <1>10, <1>11 DEF Builds

LEMMA JobInvMeant ==
  ASSUME IInv, JobInv
  PROVE  BuildsWhatIsMeant
  <1>1. SUFFICES ASSUME job # <<>>
                 PROVE  phase # "error" /\ (phase = "built" => chain = Meant(job))
    BY DEF BuildsWhatIsMeant
  <1> DEFINE ps == JobPieces(job)
             ts == JobMeanings(job)
  <1>2. job \in Jobs /\ phase # "error" /\ \E at : Scanned(at, ps, ts)
    BY <1>1 DEF JobInv
  <1>3. ASSUME phase = "built" PROVE chain = Meant(job)
    <2>1. Ended(stream) /\ chain = Build(Tokens)
      BY <1>3 DEF IInv, TokInv
    <2>2. Agree(ps, ts)
      BY <1>2, JobTypes, JobAgrees
    <2>3. Begins(stream, ts) /\ Len(stream) = 2 * Len(ps) + 1
      BY <1>2, <1>3 DEF Scanned
    <2>4. AreTokens(Tokens, ts)
      BY <2>1, <2>2, <2>3, JobTokens
    <2>5. QED
      BY <1>2, <2>1, <2>4, BuildMeans
  <1>4. QED
    BY <1>2, <1>3

(* A job of the documented shape is never a syntax error, however long its *)
(* stages and whatever its words, and the tokens of its line are, one by   *)
(* one, what its assignments, words, operators and files stand for.        *)
THEOREM AlwaysJobInv == Spec => []JobInv
  <1>1. Init => JobInv
    BY InitJobInv
  <1>2. IInv /\ JobInv /\ [Next]_vars => JobInv'
    BY StepJobInv
  <1>3. QED
    BY <1>1, <1>2, AlwaysIInv, PTL DEF Spec

(* A job of the documented shape is parsed, and what is built is what the  *)
(* user meant: every variable, argument, file and link of every stage.     *)
THEOREM AlwaysBuildsWhatIsMeant == Spec => []BuildsWhatIsMeant
  <1>1. IInv /\ JobInv => BuildsWhatIsMeant
    BY JobInvMeant
  <1>2. QED
    BY <1>1, AlwaysIInv, AlwaysJobInv, PTL
=============================================================================
