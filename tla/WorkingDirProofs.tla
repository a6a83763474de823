-------------------------- MODULE WorkingDirProofs --------------------------
(* WorkingDir's invariants, for any descriptors, lines, paths, depth and   *)
(* any number of calls the kernel refuses.                                 *)
EXTENDS WorkingDir, FiniteSetTheorems, SequenceTheorems, WellFoundedInduction, TLAPS

Used(table) == {fd \in Fds : table[fd].used}
Owned(wd)   == IF wd = 0 THEN 0 ELSE 1

(* What update_cwd keeps of the shell's variables and descriptors; a path  *)
(* may be anything.                                                        *)
WdType ==
  /\ DOMAIN own \subseteq {"CWD"}
  /\ open_wd \in Fds \cup {0} /\ (open_wd # 0 => fds[open_wd].used)
  /\ DOMAIN fds = Fds /\ fds = [fd \in Fds |-> fds[fd]]
  /\ refused \in Nat

WdInv == WdType /\ CwdIsOpen /\ DirectoriesCounted

(* What a line was typed with is what its stages are started with. *)
LineKept ==
  /\ at \in Nat /\ (at = 0 => cmd = <<>>)
  /\ DOMAIN typed \subseteq {"CWD"}
  /\ cmd # <<>> => cmd \in Commands /\ env = Joined(typed, cmd[1].vars)

IInv == WdInv /\ LineKept /\ OneBase

----------------------------------------------------------------------------
(* Opening a descriptor uses one more; closing one frees it. *)
LEMMA OpenUses ==
  ASSUME NEW fd \in Fds, ~fds[fd].used, NEW path, NEW isDir, WdType
  PROVE  /\ DOMAIN Open(fd, path, isDir) = Fds
         /\ Open(fd, path, isDir)[fd] = [path |-> path, dir |-> isDir, used |-> TRUE]
         /\ \A f \in Fds \ {fd} : Open(fd, path, isDir)[f] = fds[f]
         /\ Open(fd, path, isDir) = [f \in Fds |-> Open(fd, path, isDir)[f]]
         /\ Used(Open(fd, path, isDir)) = Used(fds) \cup {fd}
         /\ fd \notin Used(fds)
  <1>1. /\ DOMAIN Open(fd, path, isDir) = Fds
        /\ Open(fd, path, isDir)[fd] = [path |-> path, dir |-> isDir, used |-> TRUE]
        /\ \A f \in Fds \ {fd} : Open(fd, path, isDir)[f] = fds[f]
        /\ Open(fd, path, isDir) = [f \in Fds |-> Open(fd, path, isDir)[f]]
    BY DEF Open, WdType
  <1>2. QED
    BY <1>1 DEF Used

LEMMA OpenedTable ==
  ASSUME NEW fd \in Fds, ~fds[fd].used, NEW path, NEW isDir, WdType,
         fds' = Open(fd, path, isDir)
  PROVE  /\ DOMAIN fds' = Fds /\ fds' = [f \in Fds |-> fds'[f]]
         /\ \A f \in Fds : fds[f].used => fds'[f] = fds[f]
         /\ fds'[fd] = [path |-> path, dir |-> isDir, used |-> TRUE]
         /\ Used(fds)' = Used(fds) \cup {fd} /\ fd \notin Used(fds)
  <1>1. \A f \in Fds : fds[f].used => f # fd
    OBVIOUS
  <1>2. QED
    BY <1>1, OpenUses DEF Used

LEMMA UsedFinite ==
  ASSUME NEW table
  PROVE  IsFiniteSet(Used(table)) /\ Cardinality(Used(table)) \in Nat
  <1>1. IsFiniteSet(Fds) /\ Used(table) \subseteq Fds
    BY PathsAssumption DEF Used
  <1>2. IsFiniteSet(Used(table))
    BY <1>1, FS_Subset
  <1>3. QED
    BY <1>2, FS_CardinalityType

(* One more descriptor, and one more refusal or the first working          *)
(* directory to account for it.                                            *)
LEMMA OneMoreCounted ==
  ASSUME WdType, WdType', DirectoriesCounted,
         NEW fd, fd \notin Used(fds), Used(fds)' = Used(fds) \cup {fd},
         Owned(open_wd)' + refused' = Owned(open_wd) + refused + 1
  PROVE  DirectoriesCounted'
  <1>1. Cardinality(Used(fds))' = Cardinality(Used(fds)) + 1
    BY UsedFinite, FS_AddElement
  <1>2. /\ Cardinality(Used(fds)) <= Owned(open_wd) + refused
        /\ Cardinality(Used(fds)) \in Nat
    BY UsedFinite DEF DirectoriesCounted, Used, Owned
  <1>3. Owned(open_wd) \in Nat /\ Owned(open_wd)' \in Nat
    BY DEF Owned
  <1>4. Cardinality(Used(fds))' <= Owned(open_wd)' + refused'
    BY <1>1, <1>2, <1>3 DEF WdType
  <1>5. QED
    BY <1>4 DEF DirectoriesCounted, Used, Owned

(* A refused call leaves what was open open, and CWD as it was. *)
LEMMA RefusalKeepsOpen ==
  ASSUME WdType, CwdIsOpen, own' = own, refused' = refused + 1,
         \A f \in Fds : fds[f].used => fds'[f] = fds[f]
  PROVE  CwdIsOpen'
  <1>1. CASE "CWD" \in DOMAIN own
    <2>1. PICK f \in Fds : fds[f] = [path |-> own["CWD"], dir |-> TRUE, used |-> TRUE]
      BY <1>1 DEF CwdIsOpen
    <2>2. fds'[f] = fds[f]
      BY <2>1
    <2>3. refused' # 0
      BY DEF WdType
    <2>4. QED
      BY <2>1, <2>2, <2>3 DEF CwdIsOpen
  <1>2. QED
    BY <1>1 DEF CwdIsOpen

----------------------------------------------------------------------------
(* update_cwd: what holds of the directory and its descriptors before,     *)
(* holds after.                                                            *)
LEMMA FstatFailsKeeps ==
  ASSUME WdInv, NEW fd \in Fds, ~fds[fd].used, NEW path, FstatFails(fd, path)
  PROVE  WdInv'
  <1> USE DEF WdInv
  <1>1. PICK isDir \in BOOLEAN : fds' = Open(fd, path, isDir)
    BY DEF FstatFails
  <1>2. refused' = refused + 1 /\ own' = own /\ open_wd' = open_wd
    BY DEF FstatFails, Refused
  <1>3. /\ DOMAIN fds' = Fds /\ fds' = [f \in Fds |-> fds'[f]]
        /\ \A f \in Fds : fds[f].used => fds'[f] = fds[f]
    BY <1>1, OpenedTable
  <1>4. WdType'
    BY <1>2, <1>3 DEF WdType
  <1>5. CwdIsOpen'
    BY <1>2, <1>3, RefusalKeepsOpen
  <1>6. DirectoriesCounted'
    <2>1. Used(fds)' = Used(fds) \cup {fd} /\ fd \notin Used(fds)
      BY <1>1, OpenedTable
    <2>2. Owned(open_wd)' + refused' = Owned(open_wd) + refused + 1
      BY <1>2 DEF WdType, Owned
    <2>3. QED
      BY <1>4, <2>1, <2>2, OneMoreCounted
  <1>7. QED
    BY <1>4, <1>5, <1>6

LEMMA IsFileKeeps ==
  ASSUME WdInv, NEW fd \in Fds, ~fds[fd].used, NEW path, IsFile(fd, path)
  PROVE  WdInv'
  <1> USE DEF WdInv
  <1>1. CASE UNCHANGED <<fds, refused>>
    BY <1>1 DEF IsFile, WdType, CwdIsOpen, DirectoriesCounted
  <1>2. CASE Refused /\ fds' = Open(fd, path, FALSE)
    <2>1. FstatFails(fd, path)
      BY <1>2 DEF IsFile, FstatFails
    <2>2. QED
      BY <2>1, FstatFailsKeeps
  <1>3. QED
    BY <1>1, <1>2 DEF IsFile

LEMMA IsDirKeeps ==
  ASSUME WdInv, NEW fd \in Fds, ~fds[fd].used, NEW path, IsDir(fd, path)
  PROVE  WdInv'
  <1> USE DEF WdInv
  <1>1. open_wd' = fd /\ fd # 0 /\ fd # open_wd
    BY PathsAssumption DEF IsDir, WdType
  <1>2. CASE /\ fds' = [f \in Fds |-> IF f = open_wd THEN Free ELSE Open(fd, path, TRUE)[f]]
             /\ own' = [v \in {"CWD"} |-> path]
             /\ UNCHANGED refused
    <2>1. fds'[fd] = [path |-> path, dir |-> TRUE, used |-> TRUE]
      <3> DEFINE row == Open(fd, path, TRUE)
      <3>1. row[fd] = [path |-> path, dir |-> TRUE, used |-> TRUE]
        <4>1. fd \in DOMAIN fds
          BY DEF WdType
        <4>2. QED
          BY <4>1 DEF Open
      <3> HIDE DEF row
      <3>2. fds' = [f \in Fds |-> IF f = open_wd THEN Free ELSE row[f]]
        BY <1>2 DEF row
      <3>3. fds'[fd] = row[fd]
        BY <1>1, <3>2
      <3>4. QED
        BY <3>1, <3>3, Zenon
    <2>2. WdType'
      <3>1. DOMAIN fds' = Fds /\ fds' = [f \in Fds |-> fds'[f]]
        BY <1>2
      <3>2. DOMAIN own' = {"CWD"}
        BY <1>2
      <3>3. fds'[fd].used /\ refused' = refused
        <4>1. [path |-> path, dir |-> TRUE, used |-> TRUE].used
          OBVIOUS
        <4>2. QED
          BY <1>2, <2>1, <4>1
      <3>4. QED
        BY <1>1, <3>1, <3>2, <3>3 DEF WdType
    <2>3. CwdIsOpen'
      <3>1. own'["CWD"] = path
        BY <1>2
      <3>2. fds'[open_wd'].path = path
        BY <1>1, <2>1
      <3>3. QED
        BY <1>1, <2>1, <3>1, <3>2 DEF CwdIsOpen
    <2>4. Used(fds)' = (Used(fds) \ {open_wd}) \cup {fd} /\ fd \notin Used(fds)
      <3>1. ASSUME NEW f \in Fds
            PROVE  fds'[f].used <=> f = fd \/ (f # open_wd /\ fds[f].used)
        <4>1. CASE f = fd
          BY <2>1, <4>1
        <4>2. CASE f # fd /\ f = open_wd
          <5>1. fds'[f] = Free
            BY <1>2, <4>2
          <5>2. ~Free.used
            BY DEF Free
          <5>3. QED
            BY <4>2, <5>1, <5>2
        <4>3. CASE f # fd /\ f # open_wd
          <5>1. Open(fd, path, TRUE)[f] = fds[f]
            BY <4>3, Zenon DEF Open, WdType
          <5>2. fds'[f] = fds[f]
            BY <1>2, <4>3, <5>1
          <5>3. QED
            BY <4>3, <5>2
        <4>4. QED
          BY <4>1, <4>2, <4>3
      <3>2. QED
        BY <3>1 DEF Used
    <2>5. CASE open_wd = 0
      <3>1. Used(fds)' = Used(fds) \cup {fd}
        BY <2>4, <2>5, PathsAssumption DEF Used
      <3>2. Owned(open_wd)' + refused' = Owned(open_wd) + refused + 1
        BY <1>1, <1>2, <2>5 DEF Owned, WdType
      <3>3. QED
        BY <1>2, <2>2, <2>3, <2>4, <3>1, <3>2, OneMoreCounted
    <2>6. CASE open_wd # 0
      <3>1. open_wd \in Used(fds)
        BY <2>6 DEF Used, WdType
      <3>2. Cardinality(Used(fds) \ {open_wd}) = Cardinality(Used(fds)) - 1
        BY <3>1, UsedFinite, FS_RemoveElement
      <3>3. Cardinality(Used(fds)') = Cardinality(Used(fds) \ {open_wd}) + 1
        <4>1. Used(fds)' = (Used(fds) \ {open_wd}) \cup {fd} /\ fd \notin Used(fds) \ {open_wd}
          BY <2>4
        <4>2. IsFiniteSet(Used(fds) \ {open_wd})
          BY UsedFinite, FS_RemoveElement
        <4>3. Cardinality((Used(fds) \ {open_wd}) \cup {fd}) = Cardinality(Used(fds) \ {open_wd}) + 1
          BY <4>1, <4>2, FS_AddElement
        <4>4. QED
          BY <4>1, <4>3
      <3>4. Cardinality(Used(fds)') = Cardinality(Used(fds))
        BY <3>2, <3>3, UsedFinite
      <3>5. DirectoriesCounted'
        BY <1>1, <1>2, <2>6, <3>4 DEF DirectoriesCounted, Used
      <3>6. QED
        BY <2>2, <2>3, <3>5
    <2>7. QED
      BY <2>5, <2>6
  <1>3. CASE open_wd # 0 /\ Refused /\ fds' = Open(fd, path, TRUE) /\ UNCHANGED own
    <2>1. refused' = refused + 1 /\ own' = own
      BY <1>3 DEF Refused
    <2>2. /\ DOMAIN fds' = Fds /\ fds' = [f \in Fds |-> fds'[f]]
          /\ \A f \in Fds : fds[f].used => fds'[f] = fds[f]
          /\ fds'[fd] = [path |-> path, dir |-> TRUE, used |-> TRUE]
      BY <1>3, OpenedTable
    <2>3. fds'[fd].used
      <3>1. [path |-> path, dir |-> TRUE, used |-> TRUE].used
        OBVIOUS
      <3>2. QED
        BY <2>2, <3>1
    <2>4. WdType'
      BY <1>1, <2>1, <2>2, <2>3 DEF WdType
    <2>5. CwdIsOpen'
      BY <2>1, <2>2, RefusalKeepsOpen
    <2>6. Used(fds)' = Used(fds) \cup {fd} /\ fd \notin Used(fds)
      BY <1>3, OpenedTable
    <2>7. Owned(open_wd)' + refused' = Owned(open_wd) + refused + 1
      BY <1>1, <1>3, <2>1 DEF WdType, Owned
    <2>8. QED
      BY <2>4, <2>5, <2>6, <2>7, OneMoreCounted
  <1>4. QED
    BY <1>2, <1>3 DEF IsDir

LEMMA SameDirectoryKeeps ==
  ASSUME WdInv, UNCHANGED wdVars
  PROVE  WdInv'
  BY DEF WdInv, wdVars, WdType, CwdIsOpen, DirectoriesCounted

LEMMA UpdateCwdKeeps ==
  ASSUME WdInv, NEW path, UpdateCwd(path)
  PROVE  WdInv'
  BY SameDirectoryKeeps, FstatFailsKeeps, IsFileKeeps, IsDirKeeps DEF UpdateCwd

(* Every step either calls update_cwd or leaves the directory alone.       *)
LEMMA StepKeepsWd ==
  ASSUME WdInv, [Next]_vars
  PROVE  WdInv'
  <1>1. CASE DefaultInit
    BY <1>1, UpdateCwdKeeps DEF DefaultInit
  <1>2. CASE RunCd
    <2>1. CASE UNCHANGED wdVars
      BY <2>1, SameDirectoryKeeps
    <2>2. ASSUME NEW path, UpdateCwd(path) PROVE WdInv'
      BY <2>2, UpdateCwdKeeps
    <2>3. QED
      BY <1>2, <2>1, <2>2 DEF RunCd
  <1>3. CASE BuildLine \/ RunProgram \/ EndLine \/ UNCHANGED vars
    <2>1. UNCHANGED wdVars
      BY <1>3 DEF BuildLine, RunProgram, EndLine, vars
    <2>2. QED
      BY <2>1, SameDirectoryKeeps
  <1>4. QED
    BY <1>1, <1>2, <1>3 DEF Next

----------------------------------------------------------------------------
(* The line.  A cd joins what it is given to the shell's CWD of the moment *)
(* the line was typed: env is that variable alone.                         *)
LEMMA PlainBase ==
  ASSUME LineKept, Plain, cmd # <<>>
  PROVE  CdBases = {typed["CWD"]}
  <1>1. 1 \in DOMAIN cmd /\ DOMAIN cmd[1].vars = {}
    <2>1. cmd \in Commands
      BY DEF LineKept
    <2>2. QED
      BY <2>1, PathsAssumption DEF Plain
  <1>2. DOMAIN typed = {"CWD"}
    BY DEF LineKept, Plain
  <1>3. env = [v \in {"CWD"} |-> typed["CWD"]]
    BY <1>1, <1>2 DEF LineKept, Joined
  <1>4. QED
    BY <1>3 DEF CdBases, Range

LEMMA StepKeepsLine ==
  ASSUME WdType, LineKept, OneBase, [Next]_vars
  PROVE  LineKept' /\ OneBase'
  <1>1. CASE DefaultInit
    BY <1>1 DEF DefaultInit, LineKept, OneBase, Plain, Here
  <1>2. CASE BuildLine
    <2>1. LineKept'
      BY <1>2 DEF BuildLine, LineKept, WdType
    <2>2. ASSUME Plain', NEW k \in DOMAIN cmd', cmd'[k].file # NoPath
          PROVE  files'[k] = Here(cmd[k].file)'
      <3>1. DOMAIN cmd'[k].vars = {} /\ "CWD" \in DOMAIN own /\ typed' = own
        BY <1>2, <2>2 DEF BuildLine, Plain
      <3>2. File(cmd'[k]) = Canonical(Join(own["CWD"], cmd'[k].file))
        BY <2>2, <3>1 DEF File, Get
      <3>3. files'[k] = File(cmd'[k])
        BY <1>2 DEF BuildLine
      <3>4. QED
        BY <3>1, <3>2, <3>3 DEF Here
    <2>3. at' = 1
      BY <1>2 DEF BuildLine
    <2>4. QED
      BY <2>1, <2>2, <2>3 DEF OneBase
  <1>3. CASE RunCd
    <2>1. UNCHANGED <<cmd, env, files, typed>> /\ at' = at + 1 /\ cmd # <<>>
      BY <1>3 DEF RunCd, InStage
    <2>2. LineKept'
      BY <2>1 DEF LineKept
    <2>3. at' - 1 = at
      BY <2>1 DEF LineKept
    <2>4. ASSUME Plain, cmd[at].arg # NoPath PROVE last' = Here(cmd[at].arg)
      <3>1. PICK base \in CdBases : last' = Canonical(Join(base, cmd[at].arg))
        BY <1>3, <2>4 DEF RunCd
      <3>2. QED
        BY <2>1, <2>4, <3>1, PlainBase DEF Here
    <2>5. QED
      BY <2>1, <2>2, <2>3, <2>4 DEF OneBase, Plain, Here
  <1>4. CASE RunProgram
    <2>1. UNCHANGED <<cmd, env, files, typed>> /\ at' = at + 1
      BY <1>4 DEF RunProgram
    <2>2. LineKept'
      BY <1>4, <2>1 DEF LineKept, RunProgram, InStage
    <2>3. cmd'[at' - 1].bin # CD
      BY <1>4, <2>1 DEF LineKept, RunProgram
    <2>4. QED
      BY <2>1, <2>2, <2>3 DEF OneBase, Plain, Here
  <1>5. CASE EndLine
    BY <1>5 DEF EndLine, LineKept, OneBase, Unset
  <1>6. CASE UNCHANGED vars
    BY <1>6 DEF vars, LineKept, OneBase, Plain, Here
  <1>7. QED
    BY <1>1, <1>2, <1>3, <1>4, <1>5, <1>6 DEF Next

----------------------------------------------------------------------------
LEMMA InitIInv == Init => IInv
  <1> SUFFICES ASSUME Init PROVE IInv
    OBVIOUS
  <1>1. WdType
    BY DEF Init, WdType, Unset
  <1>2. CwdIsOpen
    BY DEF Init, CwdIsOpen, Unset
  <1>3. DirectoriesCounted
    <2>1. {fd \in Fds : fds[fd].used} = {}
      <3>1. \A fd \in Fds : fds[fd] = Free
        BY DEF Init
      <3>2. ~Free.used
        BY DEF Free
      <3>3. QED
        BY <3>1, <3>2
    <2>2. QED
      BY <2>1, FS_EmptySet DEF Init, DirectoriesCounted
  <1>4. LineKept /\ OneBase
    BY DEF Init, LineKept, OneBase, Unset
  <1>5. QED
    BY <1>1, <1>2, <1>3, <1>4 DEF IInv, WdInv

LEMMA StepIInv == IInv /\ [Next]_vars => IInv'
  BY StepKeepsWd, StepKeepsLine DEF IInv, WdInv

(* The inductive invariant of update_cwd, cd and the lines that use them. *)
THEOREM AlwaysIInv == Spec => []IInv
  BY InitIInv, StepIInv, PTL DEF Spec

(* Whatever the kernel refuses, CWD names a directory that is open. *)
THEOREM DirectoryIsOpen == Spec => []CwdIsOpen
  <1>1. IInv => CwdIsOpen
    BY DEF IInv, WdInv
  <1>2. QED
    BY <1>1, AlwaysIInv, PTL

(* update_cwd leaves no descriptor behind but where a call was refused. *)
THEOREM NoDirectoryLeaks == Spec => []DirectoriesCounted
  <1>1. IInv => DirectoriesCounted
    BY DEF IInv, WdInv
  <1>2. QED
    BY <1>1, AlwaysIInv, PTL

(* All of a line is resolved against the directory it was typed in. *)
THEOREM LineHasOneBase == Spec => []OneBase
  <1>1. IInv => OneBase
    BY DEF IInv
  <1>2. QED
    BY <1>1, AlwaysIInv, PTL

----------------------------------------------------------------------------
(* Induction over a set of numbers, and what it says of recursion: both    *)
(* are stated of sets and functions, not of operators.                     *)
LEMMA SetInduction ==
  ASSUME NEW S, 0 \in S, \A n \in Nat : n \in S => n + 1 \in S
  PROVE  Nat \subseteq S
  <1> DEFINE T == Nat \ S
  <1>1. SUFFICES ASSUME T # {} PROVE FALSE
    OBVIOUS
  <1>2. PICK x \in T : \A y \in T : <<y, x>> \notin OpToRel(<, Nat)
    <2>1. T \subseteq Nat
      OBVIOUS
    <2> HIDE DEF T
    <2>2. QED
      BY <1>1, <2>1, NatLessThanWellFounded, WFMin, Zenon
  <1>3. x \in Nat \ {0} /\ x - 1 \in T
    OBVIOUS
  <1>4. <<x - 1, x>> \in OpToRel(<, Nat)
    BY <1>3 DEF OpToRel
  <1>5. QED
    BY <1>2, <1>3, <1>4

LEMMA UpTo ==
  ASSUME NEW n \in Nat, NEW S, 0 \in S, \A i \in 1 .. n : i - 1 \in S => i \in S
  PROVE  0 .. n \subseteq S
  <1> DEFINE T == {i \in Nat : i <= n => i \in S}
  <1>1. 0 \in T
    OBVIOUS
  <1>2. ASSUME NEW i \in Nat, i \in T PROVE i + 1 \in T
    <2>1. SUFFICES ASSUME i + 1 <= n PROVE i + 1 \in S
      OBVIOUS
    <2>2. i + 1 \in 1 .. n /\ (i + 1) - 1 = i /\ i \in S
      BY <1>2, <2>1
    <2>3. QED
      BY <2>2
  <1>3. Nat \subseteq T
    <2> HIDE DEF T
    <2>1. QED
      BY <1>1, <1>2, SetInduction
  <1>4. QED
    BY <1>3

(* The values t of a recursion over 1 .. n: step[i] makes the i-th of the   *)
(* one before.                                                             *)
Computes(t, n, S, start, step) ==
  /\ t \in [0 .. n -> S] /\ t[0] = start
  /\ \A i \in 1 .. n : t[i] = step[i][t[i - 1]]

LEMMA Recursion ==
  ASSUME NEW n \in Nat, NEW S, NEW start \in S, NEW step \in [1 .. n -> [S -> S]]
  PROVE  \E t : Computes(t, n, S, start, step)
  <1> DEFINE Run(t, m) == /\ t \in [0 .. m -> S] /\ t[0] = start
                          /\ \A i \in 1 .. m : t[i] = step[i][t[i - 1]]
             D == {m \in 0 .. n : \E t : Run(t, m)}
  <1>1. 0 \in D
    <2>1. Run([i \in 0 .. 0 |-> start], 0)
      OBVIOUS
    <2> HIDE DEF Run
    <2>2. QED
      BY <2>1
  <1>2. ASSUME NEW m \in 1 .. n, m - 1 \in D PROVE m \in D
    <2>1. PICK t : Run(t, m - 1)
      <3> HIDE DEF Run
      <3>1. QED
        BY <1>2
    <2> DEFINE u == [i \in 0 .. m |-> IF i = m THEN step[m][t[m - 1]] ELSE t[i]]
    <2>2. t[m - 1] \in S /\ step[m] \in [S -> S]
      BY <2>1
    <2>3. step[m][t[m - 1]] \in S
      BY <2>2
    <2>4. u \in [0 .. m -> S] /\ u[0] = start
      BY <2>1, <2>3
    <2>5. \A i \in 1 .. m : u[i] = step[i][u[i - 1]]
      BY <2>1
    <2>6. Run(u, m)
      BY <2>4, <2>5
    <2> HIDE DEF Run, u
    <2>7. QED
      BY <2>6
  <1>3. n \in D
    <2> HIDE DEF D
    <2>1. 0 .. n \subseteq D
      BY <1>1, <1>2, UpTo
    <2>2. QED
      BY <2>1
  <1>4. QED
    BY <1>3 DEF Computes

----------------------------------------------------------------------------
(* Where the kernel ends up: a path whose dots are gone. *)
Plains == Segments \ {".", ".."}

Homes == {[abs |-> TRUE, segs |-> s] : s \in Seq(Plains)}

(* A walk through segs from root, step by step. *)
Walks(t, A, root, segs) ==
  /\ t \in [0 .. Len(segs) -> Seq(A)] /\ t[0] = root
  /\ \A i \in 1 .. Len(segs) : t[i] = Step(t[i - 1], segs[i])
  /\ Walk(root, segs) = t[Len(segs)]

LEMMA StepType ==
  ASSUME NEW A, Plains \subseteq A, NEW s \in Seq(A), NEW seg \in Segments
  PROVE  Step(s, seg) \in Seq(A)
  <1>1. CASE seg = "."
    BY <1>1 DEF Step
  <1>2. CASE seg = ".." /\ s = <<>>
    BY <1>2, EmptySeq DEF Step
  <1>3. CASE seg = ".." /\ s # <<>>
    <2>1. Front(s) \in Seq(A)
      <3>1. Len(s) \in Nat
        BY LenProperties
      <3>2. \A i \in 1 .. Len(s) - 1 : s[i] \in A
        BY ElementOfSeq
      <3>3. QED
        BY <3>1, <3>2, SubSeqProperties DEF Front
    <2>2. QED
      BY <1>3, <2>1 DEF Step
  <1>4. CASE seg # "." /\ seg # ".."
    <2>1. seg \in A
      BY <1>4 DEF Plains
    <2>2. QED
      BY <1>4, <2>1, AppendProperties DEF Step
  <1>5. QED
    BY <1>1, <1>2, <1>3, <1>4

LEMMA WalkWalks ==
  ASSUME NEW A, Plains \subseteq A, NEW root \in Seq(A), NEW segs \in Seq(Segments)
  PROVE  \E t : Walks(t, A, root, segs)
  <1> DEFINE n == Len(segs)
             S == Seq(A)
             step == [i \in 1 .. n |-> [s \in S |-> Step(s, segs[i])]]
             rec(g) == [i \in 0 .. n |-> IF i = 0 THEN root ELSE Step(g[i - 1], segs[i])]
             f == CHOOSE g : g = rec(g)
  <1>1. n \in Nat /\ root \in S
    BY LenProperties
  <1>2. \A s \in S, i \in 1 .. n : Step(s, segs[i]) \in S
    <2>1. \A i \in 1 .. n : segs[i] \in Segments
      BY ElementOfSeq
    <2>2. QED
      BY <2>1, StepType
  <1> HIDE DEF S
  <1>3. step \in [1 .. n -> [S -> S]]
    BY <1>2
  <1>4. PICK t : Computes(t, n, S, root, step)
    <2> HIDE DEF step, n
    <2>1. QED
      BY <1>1, <1>3, Recursion
  <1>5. /\ t \in [0 .. n -> S] /\ t[0] = root
        /\ \A i \in 1 .. n : t[i] = Step(t[i - 1], segs[i])
    <2>1. /\ t \in [0 .. n -> S] /\ t[0] = root
          /\ \A i \in 1 .. n : t[i] = step[i][t[i - 1]]
      BY <1>4, Zenon DEF Computes
    <2>2. ASSUME NEW i \in 1 .. n PROVE step[i][t[i - 1]] = Step(t[i - 1], segs[i])
      <3>1. i - 1 \in 0 .. n
        <4>1. n \in Nat
          BY <1>1
        <4> HIDE DEF n
        <4>2. QED
          BY <4>1
      <3>2. t[i - 1] \in S
        BY <2>1, <3>1, Zenon
      <3>3. QED
        BY <3>2, Zenon
    <2>3. QED
      BY <2>1, <2>2, Zenon
  <1>6. t = rec(t)
    <2> HIDE DEF n
    <2>1. QED
      BY <1>1, <1>5
  <1>7. f = rec(f)
    <2> HIDE DEF rec
    <2>1. QED
      BY <1>6, Zenon
  <1>8. Walk(root, segs) = f[n]
    BY DEF Walk
  <1> HIDE DEF f, n
  <1>9. f[0] = root /\ \A i \in 1 .. n : f[i] = Step(f[i - 1], segs[i])
    <2>1. \A i \in 0 .. n : f[i] = IF i = 0 THEN root ELSE Step(f[i - 1], segs[i])
      BY <1>7, Zenon
    <2>2. 0 \in 0 .. n /\ \A i \in 1 .. n : i \in 0 .. n /\ i # 0
      BY <1>1
    <2>3. QED
      BY <2>1, <2>2, Zenon
  <1> DEFINE E == {i \in 0 .. n : f[i] = t[i]}
  <1>10. 0 \in E /\ \A i \in 1 .. n : i - 1 \in E => i \in E
    <2>1. 0 \in 0 .. n /\ \A i \in 1 .. n : i \in 0 .. n
      BY <1>1
    <2>2. QED
      BY <1>5, <1>9, <2>1, Zenon
  <1>11. 0 .. n \subseteq E
    <2> HIDE DEF E
    <2>1. QED
      BY <1>1, <1>10, UpTo
  <1>12. Walk(root, segs) = t[n]
    BY <1>1, <1>8, <1>11
  <1>13. Walks(t, A, root, segs)
    BY <1>5, <1>12, Zenon DEF Walks, n, S
  <1>14. QED
    BY <1>13, Zenon

LEMMA WalkType ==
  ASSUME NEW A, Plains \subseteq A, NEW root \in Seq(A), NEW segs \in Seq(Segments)
  PROVE  Walk(root, segs) \in Seq(A)
  <1>1. PICK t : Walks(t, A, root, segs)
    BY WalkWalks, Zenon
  <1>2. Len(segs) \in Nat
    BY LenProperties
  <1>3. QED
    BY <1>1, <1>2 DEF Walks

(* Segment by segment, it makes no difference where a path was split. *)
LEMMA WalkTwice ==
  ASSUME NEW root \in Seq(Segments), NEW a \in Seq(Segments), NEW b \in Seq(Segments)
  PROVE  Walk(root, a \o b) = Walk(Walk(root, a), b)
  <1> DEFINE c == a \o b
             m == Len(a)
             n == Len(b)
  <1>1. /\ m \in Nat /\ n \in Nat /\ c \in Seq(Segments) /\ Len(c) = m + n
        /\ \A i \in 1 .. m : c[i] = a[i]
        /\ \A i \in 1 .. n : c[m + i] = b[i]
    BY LenProperties, ConcatProperties
  <1>2. Plains \subseteq Segments
    BY DEF Plains
  <1>3. Walk(root, a) \in Seq(Segments)
    BY <1>2, WalkType
  <1> HIDE DEF c
  <1>4. PICK t : Walks(t, Segments, root, a)
    BY <1>2, WalkWalks, Zenon
  <1>5. PICK u : Walks(u, Segments, Walk(root, a), b)
    BY <1>2, <1>3, WalkWalks, Zenon
  <1>6. PICK w : Walks(w, Segments, root, c)
    BY <1>1, <1>2, WalkWalks, Zenon
  <1>7. /\ t[0] = root /\ \A i \in 1 .. m : t[i] = Step(t[i - 1], a[i])
        /\ Walk(root, a) = t[m]
    BY <1>4, Zenon DEF Walks
  <1>8. /\ u[0] = Walk(root, a) /\ \A i \in 1 .. n : u[i] = Step(u[i - 1], b[i])
        /\ Walk(Walk(root, a), b) = u[n]
    BY <1>5, Zenon DEF Walks
  <1>9. /\ w[0] = root /\ \A i \in 1 .. m + n : w[i] = Step(w[i - 1], c[i])
        /\ Walk(root, c) = w[m + n]
    BY <1>1, <1>6 DEF Walks
  <1> HIDE DEF m, n
  <1> DEFINE E == {i \in 0 .. m : w[i] = t[i]}
             F == {i \in 0 .. n : w[m + i] = u[i]}
  <1>10. 0 .. m \subseteq E
    <2>1. 0 \in E
      BY <1>1, <1>7, <1>9
    <2>2. ASSUME NEW i \in 1 .. m, i - 1 \in E PROVE i \in E
      <3>1. i \in 1 .. m + n /\ i \in 0 .. m
        BY <1>1
      <3>2. w[i - 1] = t[i - 1] /\ c[i] = a[i]
        BY <1>1, <2>2
      <3>3. w[i] = t[i]
        BY <1>7, <1>9, <3>1, <3>2, Zenon
      <3>4. QED
        BY <3>1, <3>3
    <2> HIDE DEF E
    <2>3. QED
      BY <1>1, <2>1, <2>2, UpTo
  <1>11. 0 .. n \subseteq F
    <2>1. 0 \in F
      BY <1>1, <1>7, <1>8, <1>10
    <2>2. ASSUME NEW i \in 1 .. n, i - 1 \in F PROVE i \in F
      <3>1. m + i \in 1 .. m + n /\ i \in 0 .. n /\ (m + i) - 1 = m + (i - 1)
        BY <1>1
      <3>2. w[m + (i - 1)] = u[i - 1] /\ c[m + i] = b[i]
        BY <1>1, <2>2
      <3>3. w[m + i] = Step(w[m + (i - 1)], c[m + i])
        BY <1>9, <3>1
      <3>4. w[m + i] = u[i]
        BY <1>8, <3>2, <3>3, Zenon
      <3>5. QED
        BY <3>1, <3>4
    <2> HIDE DEF F
    <2>3. QED
      BY <1>1, <2>1, <2>2, UpTo
  <1>12. w[m + n] = u[n]
    BY <1>1, <1>11
  <1>13. QED
    BY <1>8, <1>9, <1>12, Zenon DEF c

(* A path without dots is where it leads. *)
LEMMA WalkPlain ==
  ASSUME NEW a \in Seq(Plains)
  PROVE  Walk(<<>>, a) = a
  <1> DEFINE n == Len(a)
  <1>1. /\ n \in Nat /\ <<>> \in Seq(Segments) /\ a \in Seq(Segments)
        /\ \A i \in 1 .. n : a[i] \in Plains
    <2>1. Plains \subseteq Segments
      BY DEF Plains
    <2>2. \A i \in 1 .. n : a[i] \in Plains
      BY ElementOfSeq
    <2>3. a \in Seq(Segments)
      BY <2>1, SeqMonotonic
    <2>4. QED
      BY <2>2, <2>3, LenProperties, EmptySeq
  <1>2. PICK t : Walks(t, Segments, <<>>, a)
    BY <1>1, WalkWalks, Zenon DEF Plains
  <1>3. /\ t[0] = <<>> /\ \A i \in 1 .. n : t[i] = Step(t[i - 1], a[i])
        /\ Walk(<<>>, a) = t[n]
    BY <1>2, Zenon DEF Walks
  <1> HIDE DEF n
  <1> DEFINE E == {i \in 0 .. n : t[i] = SubSeq(a, 1, i)}
  <1>4. 0 \in E
    <2>1. SubSeq(a, 1, 0) = <<>>
      BY <1>1, SubSeqEmpty
    <2>2. 0 \in 0 .. n /\ t[0] = SubSeq(a, 1, 0)
      BY <1>1, <1>3, <2>1
    <2>3. QED
      BY <2>2, Zenon
  <1>5. ASSUME NEW i \in 1 .. n, i - 1 \in E PROVE i \in E
    <2>1. t[i] = Append(SubSeq(a, 1, i - 1), a[i])
      <3>1. a[i] # "." /\ a[i] # ".."
        BY <1>1 DEF Plains
      <3>2. t[i] = Step(t[i - 1], a[i]) /\ t[i - 1] = SubSeq(a, 1, i - 1)
        BY <1>3, <1>5
      <3>3. QED
        BY <3>1, <3>2 DEF Step
    <2>2. Append(SubSeq(a, 1, i - 1), a[i]) = SubSeq(a, 1, i)
      BY <1>1 DEF n
    <2>3. QED
      BY <1>1, <2>1, <2>2
  <1>6. 0 .. n \subseteq E
    <2> HIDE DEF E
    <2>1. QED
      BY <1>1, <1>4, <1>5, UpTo
  <1>7. t[n] = SubSeq(a, 1, n)
    BY <1>1, <1>6
  <1>8. SubSeq(a, 1, n) = a
    BY <1>1 DEF n
  <1>9. QED
    BY <1>3, <1>7, <1>8

----------------------------------------------------------------------------
(* The paths the shell makes of what is typed. *)
LEMMA HomeIsPath ==
  ASSUME NEW p \in Homes
  PROVE  p \in Paths /\ p.abs = TRUE /\ p.segs \in Seq(Plains)
  <1>1. PICK s \in Seq(Plains) : p = [abs |-> TRUE, segs |-> s]
    BY DEF Homes
  <1>2. Plains \subseteq Segments
    BY DEF Plains
  <1>3. s \in Seq(Segments)
    BY <1>2, SeqMonotonic
  <1>4. QED
    BY <1>1, <1>3 DEF Paths

LEMMA JoinType ==
  ASSUME NEW p \in Paths, NEW q \in Paths
  PROVE  Join(p, q) \in Paths /\ (p.abs => Join(p, q).abs)
  <1>1. p.segs \o q.segs \in Seq(Segments)
    BY ConcatProperties DEF Paths
  <1>2. QED
    BY <1>1 DEF Join, Paths

LEMMA CanonicalIs ==
  ASSUME NEW p \in Paths
  PROVE  Canonical(p) = [abs |-> p.abs, segs |-> Walk(<<>>, p.segs)]
  BY DEF Canonical, Paths

LEMMA CanonicalType ==
  ASSUME NEW p \in Paths
  PROVE  Canonical(p) \in Paths /\ (p.abs => Canonical(p) \in Homes)
  <1>1. Walk(<<>>, p.segs) \in Seq(Plains)
    BY EmptySeq, WalkType DEF Paths
  <1>2. Plains \subseteq Segments
    BY DEF Plains
  <1>3. Walk(<<>>, p.segs) \in Seq(Segments)
    BY <1>1, <1>2, SeqMonotonic
  <1>4. Canonical(p) = [abs |-> p.abs, segs |-> Walk(<<>>, p.segs)] /\ p.abs \in BOOLEAN
    BY CanonicalIs DEF Paths
  <1>5. Canonical(p) \in Paths
    BY <1>3, <1>4 DEF Paths
  <1>6. p.abs => Canonical(p) \in Homes
    <2>1. SUFFICES ASSUME p.abs PROVE Canonical(p) \in Homes
      OBVIOUS
    <2>2. p.abs = TRUE
      BY <1>4, <2>1
    <2>3. QED
      BY <1>1, <1>4, <2>2, Zenon DEF Homes
  <1>7. QED
    BY <1>5, <1>6

LEMMA NoPathType == NoPath \in Paths
  BY EmptySeq DEF NoPath, Rel, Paths

(* The root is where a path without segments leads. *)
LEMMA RootType == Abs(<<>>) \in Homes
  BY EmptySeq DEF Abs, Homes

IsHome(s) == DOMAIN s \subseteq {"CWD"} /\ \A v \in DOMAIN s : s[v] \in Homes

LEMMA HomeIsStack ==
  ASSUME NEW s, IsHome(s)
  PROVE  IsStack(s) /\ \A v \in DOMAIN s : s[v].abs
  BY HomeIsPath DEF IsHome, IsStack, WdVars

LEMMA JoinedType ==
  ASSUME NEW one, NEW two, IsStack(one), IsStack(two),
         \A v \in DOMAIN one : one[v].abs, \A v \in DOMAIN two : two[v].abs
  PROVE  IsStack(Joined(one, two)) /\ \A v \in DOMAIN Joined(one, two) : Joined(one, two)[v].abs
  BY DEF IsStack, Joined

LEMMA StageType ==
  ASSUME NEW c \in Commands, NEW k \in DOMAIN c
  PROVE  /\ IsStack(c[k].vars) /\ \A v \in DOMAIN c[k].vars : c[k].vars[v].abs
         /\ c[k].bin \in Paths /\ c[k].arg \in Paths /\ c[k].file \in Paths
         /\ c[k].bin.segs # <<>>
  BY PathsAssumption

LEMMA FileType ==
  ASSUME IsHome(own), NEW stage, IsStack(stage.vars), stage.file \in Paths
  PROVE  File(stage) \in Paths
  <1>1. CASE stage.file = NoPath
    BY <1>1, NoPathType DEF File
  <1>2. CASE stage.file # NoPath
    <2> DEFINE base == Get(stage.vars, "CWD", Get(own, "CWD", NoPath))
    <2>1. base \in Paths
      BY NoPathType, HomeIsStack DEF Get, IsStack
    <2> HIDE DEF base
    <2>2. Canonical(Join(base, stage.file)) \in Paths
      BY <2>1, JoinType, CanonicalType
    <2>3. QED
      BY <1>2, <2>2 DEF File, base
  <1>3. QED
    BY <1>1, <1>2

(* A program that starts with a dot is run from where its segments lead. *)
LEMMA ResolvedType ==
  ASSUME IsStack(env), NEW bin \in Paths
  PROVE  Resolved(bin) \in Paths
  <1>1. CASE ~Dotted(bin)
    BY <1>1 DEF Resolved
  <1>2. CASE Dotted(bin)
    <2> DEFINE base == Get(env, "CWD", NoPath)
               segs == Walk(base.segs, bin.segs)
    <2>1. base \in Paths
      BY NoPathType DEF Get, IsStack
    <2> HIDE DEF base
    <2>2. Plains \subseteq Segments
      BY DEF Plains
    <2>3. segs \in Seq(Segments)
      BY <2>1, <2>2, WalkType DEF Paths
    <2>4. Resolved(bin) = [abs |-> segs # <<>>, segs |-> segs]
      BY <1>2 DEF Resolved, ResolveRelative, base
    <2> HIDE DEF segs
    <2>5. [abs |-> segs # <<>>, segs |-> segs] \in Paths
      BY <2>3 DEF Paths
    <2>6. QED
      BY <2>4, <2>5
  <1>3. QED
    BY <1>1, <1>2

LEMMA CandidatesType ==
  ASSUME NEW bin \in Paths
  PROVE  Candidates(bin) \subseteq Paths
  <1>1. \A dir \in Range(SearchPath) : dir \in Paths
    BY PathsAssumption, RangeOfSeq
  <1>2. \A dir \in Range(SearchPath) : Join(dir, bin) \in Paths
    BY <1>1, JoinType
  <1>3. QED
    BY <1>2 DEF Candidates

----------------------------------------------------------------------------
(* The types, and that the shell's own CWD is always a path whose dots are *)
(* gone: update_cwd is only ever given one.                                *)
Row == [path : Paths, dir : BOOLEAN, used : BOOLEAN]

DirType == IsHome(own) /\ fds \in [Fds -> Row] /\ refused \in 0 .. MaxRefusals

PathsOK ==
  /\ DirType
  /\ IsHome(typed) /\ IsStack(env) /\ \A v \in DOMAIN env : env[v].abs
  /\ cmd \in Commands \cup {<<>>}
  /\ files \in Seq(Paths) /\ last \in Paths

FullInv == IInv /\ PathsOK /\ DottedRunsHere

LEMMA UpdateCwdType ==
  ASSUME DirType, NEW path \in Homes, UpdateCwd(path)
  PROVE  DirType'
  <1>1. CASE UNCHANGED wdVars
    BY <1>1 DEF wdVars, DirType, IsHome
  <1>2. ASSUME NEW fd \in Fds, FstatFails(fd, path) \/ IsFile(fd, path) \/ IsDir(fd, path)
        PROVE  DirType'
    <2>1. IsHome([v \in {"CWD"} |-> path])
      BY DEF IsHome
    <2>2. IsHome(own')
      <3>1. own' = own \/ own' = [v \in {"CWD"} |-> path]
        BY <1>2 DEF FstatFails, IsFile, IsDir
      <3>2. QED
        BY <2>1, <3>1 DEF DirType
    <2>3. \A isDir \in BOOLEAN : Open(fd, path, isDir) \in [Fds -> Row]
      <3>1. \A isDir \in BOOLEAN : [path |-> path, dir |-> isDir, used |-> TRUE] \in Row
        BY HomeIsPath DEF Row
      <3> HIDE DEF Row
      <3>2. QED
        BY <3>1 DEF Open, DirType
    <2>4. Free \in Row
      BY NoPathType DEF Free, Row
    <2>5. fds' \in [Fds -> Row]
      <3>1. CASE \E isDir \in BOOLEAN : fds' = Open(fd, path, isDir)
        BY <2>3, <3>1
      <3>2. CASE fds' = fds
        BY <3>2 DEF DirType
      <3>3. CASE fds' = [f \in Fds |-> IF f = open_wd THEN Free ELSE Open(fd, path, TRUE)[f]]
        <4>1. \A f \in Fds : Open(fd, path, TRUE)[f] \in Row
          BY <2>3
        <4> HIDE DEF Row
        <4>2. QED
          BY <2>4, <3>3, <4>1
      <3>4. QED
        BY <1>2, <3>1, <3>2, <3>3 DEF FstatFails, IsFile, IsDir
    <2>6. refused' \in 0 .. MaxRefusals
      <3>1. refused' = refused \/ (refused < MaxRefusals /\ refused' = refused + 1)
        BY <1>2 DEF FstatFails, IsFile, IsDir, Refused
      <3>2. QED
        BY <3>1, PathsAssumption DEF DirType
    <2>7. QED
      BY <2>2, <2>5, <2>6 DEF DirType
  <1>3. QED
    BY <1>1, <1>2 DEF UpdateCwd

(* What cd starts from is absolute, so that update_cwd gets a home. *)
LEMMA BaseType ==
  ASSUME PathsOK, NEW base \in CdBases
  PROVE  base \in Paths /\ base.abs
  <1>1. CASE DOMAIN env = {}
    <2>1. base \in Homes
      BY <1>1, RootType DEF CdBases, Get, PathsOK, DirType, IsHome
    <2>2. QED
      BY <2>1, HomeIsPath
  <1>2. CASE DOMAIN env # {}
    <2>1. PICK v \in DOMAIN env : base = env[v]
      BY <1>2 DEF CdBases, Range
    <2>2. QED
      BY <2>1 DEF PathsOK, IsStack
  <1>3. QED
    BY <1>1, <1>2

LEMMA StageAt ==
  ASSUME IInv, PathsOK, InStage, at # 0
  PROVE  cmd \in Commands /\ at \in DOMAIN cmd
  <1>1. cmd \in Commands
    BY DEF InStage, PathsOK
  <1>2. cmd \in Seq(Range(cmd))
    BY <1>1, PathsAssumption
  <1>3. DOMAIN cmd = 1 .. Len(cmd)
    BY <1>2, LenProperties
  <1>4. QED
    BY <1>1, <1>2, <1>3, LenProperties DEF IInv, LineKept, InStage

LEMMA StepPathsOK ==
  ASSUME IInv, PathsOK, [Next]_vars
  PROVE  PathsOK'
  <1>1. CASE DefaultInit
    <2>1. DirType'
      BY <1>1, RootType, UpdateCwdType DEF DefaultInit, PathsOK
    <2>2. UNCHANGED <<cmd, env, files, last, typed>>
      BY <1>1 DEF DefaultInit
    <2>3. QED
      BY <2>1, <2>2 DEF PathsOK, IsHome, IsStack
  <1>2. CASE BuildLine
    <2>1. /\ UNCHANGED <<own, fds, refused, last>> /\ typed' = own /\ cmd' \in Commands
          /\ files' = [k \in DOMAIN cmd' |-> File(cmd'[k])]
          /\ env' = Joined(own, cmd'[1].vars)
      BY <1>2 DEF BuildLine, wdVars
    <2>2. DirType'
      BY <2>1 DEF PathsOK, DirType, IsHome
    <2>3. IsHome(typed')
      BY <2>1 DEF PathsOK, DirType
    <2>4. 1 \in DOMAIN cmd'
      BY <2>1, PathsAssumption
    <2>5. IsStack(env') /\ \A v \in DOMAIN env' : env'[v].abs
      <3>1. IsStack(own) /\ \A v \in DOMAIN own : own[v].abs
        BY HomeIsStack DEF PathsOK, DirType
      <3>2. IsStack(cmd'[1].vars) /\ \A v \in DOMAIN cmd'[1].vars : cmd'[1].vars[v].abs
        BY <2>1, <2>4, StageType
      <3>3. QED
        BY <2>1, <3>1, <3>2, JoinedType
    <2>6. files' \in Seq(Paths)
      <3>1. cmd' \in Seq(Range(cmd'))
        BY <2>1, PathsAssumption
      <3>2. DOMAIN cmd' = 1 .. Len(cmd') /\ Len(cmd') \in Nat
        BY <3>1, LenProperties
      <3>3. \A k \in DOMAIN cmd' : File(cmd'[k]) \in Paths
        BY <2>1, StageType, FileType DEF PathsOK, DirType
      <3>4. files' = [k \in 1 .. Len(cmd') |-> File(cmd'[k])]
        BY <2>1, <3>2
      <3>5. QED
        BY <3>2, <3>3, <3>4, IsASeq
    <2>7. cmd' \in Commands \cup {<<>>} /\ last' \in Paths
      BY <2>1 DEF PathsOK
    <2>8. QED
      BY <2>2, <2>3, <2>5, <2>6, <2>7 DEF PathsOK, IsHome, IsStack
  <1>3. CASE RunCd
    <2>1. cmd \in Commands /\ at \in DOMAIN cmd
      BY <1>3, StageAt DEF RunCd, InStage, IInv, LineKept
    <2>2. cmd[at].arg \in Paths
      BY <2>1, StageType
    <2>3. UNCHANGED <<cmd, env, files, typed>>
      BY <1>3 DEF RunCd
    <2>4. DirType' /\ last' \in Paths
      <3>1. CASE UNCHANGED <<wdVars, last>>
        BY <3>1 DEF wdVars, PathsOK, DirType, IsHome
      <3>2. ASSUME NEW base \in CdBases, UpdateCwd(Canonical(Join(base, cmd[at].arg))),
                   last' = Canonical(Join(base, cmd[at].arg))
            PROVE  DirType' /\ last' \in Paths
        <4>1. base \in Paths /\ base.abs
          BY BaseType
        <4>2. Join(base, cmd[at].arg) \in Paths /\ Join(base, cmd[at].arg).abs
          BY <2>2, <4>1, JoinType
        <4>3. last' \in Homes
          BY <3>2, <4>2, CanonicalType
        <4>4. QED
          BY <3>2, <4>3, HomeIsPath, UpdateCwdType DEF PathsOK
      <3>3. QED
        BY <1>3, <3>1, <3>2, Zenon DEF RunCd
    <2>5. QED
      BY <2>3, <2>4 DEF PathsOK, IsHome, IsStack
  <1>4. CASE RunProgram
    <2>1. cmd \in Commands /\ at \in DOMAIN cmd
      BY <1>4, StageAt DEF RunProgram, InStage, IInv, LineKept
    <2>2. cmd[at].bin \in Paths
      BY <2>1, StageType
    <2>3. last' \in Paths
      BY <1>4, <2>2, ResolvedType, CandidatesType DEF RunProgram, PathsOK
    <2>4. UNCHANGED <<own, fds, refused, cmd, env, files, typed>>
      BY <1>4 DEF RunProgram, wdVars
    <2>5. QED
      BY <2>3, <2>4 DEF PathsOK, DirType, IsHome, IsStack
  <1>5. CASE EndLine
    <2>1. /\ UNCHANGED <<own, fds, refused>> /\ cmd' = <<>> /\ env' = Unset
          /\ files' = <<>> /\ last' = NoPath /\ typed' = Unset
      BY <1>5 DEF EndLine, wdVars
    <2>2. IsHome(Unset) /\ IsStack(Unset) /\ DOMAIN Unset = {}
      BY DEF Unset, IsHome, IsStack
    <2>3. DirType'
      BY <2>1 DEF PathsOK, DirType, IsHome
    <2>4. QED
      BY <2>1, <2>2, <2>3, NoPathType, EmptySeq DEF PathsOK, IsHome, IsStack
  <1>6. CASE UNCHANGED vars
    BY <1>6 DEF vars, wdVars, PathsOK, DirType, IsHome, IsStack
  <1>7. QED
    BY <1>1, <1>2, <1>3, <1>4, <1>5, <1>6 DEF Next

----------------------------------------------------------------------------
(* resolve_relative walks from the directory what canonicalize walks from  *)
(* the root.                                                               *)
LEMMA DottedIsHere ==
  ASSUME IInv, PathsOK, Plain, cmd # <<>>,
         NEW bin \in Paths, Dotted(bin), NEW path \in Candidates(Resolved(bin))
  PROVE  path = Here(bin) \/ Here(bin) = Abs(<<>>)
  <1> DEFINE home == typed["CWD"]
             segs == Walk(home.segs, bin.segs)
  <1>1. home \in Homes /\ "CWD" \in DOMAIN typed
    BY DEF Plain, PathsOK, IsHome
  <1>2. home \in Paths /\ home.abs = TRUE /\ home.segs \in Seq(Plains)
    BY <1>1, HomeIsPath
  <1>3. Get(env, "CWD", NoPath) = home
    BY <1>1 DEF IInv, LineKept, Joined, Get
  <1>4. Resolved(bin) = [abs |-> segs # <<>>, segs |-> segs]
    BY <1>3 DEF Resolved, ResolveRelative
  <1>5. Here(bin) = [abs |-> TRUE, segs |-> segs]
    <2>1. bin.abs = FALSE
      BY DEF Dotted, Paths
    <2>2. PICK root \in Seq(Plains) : home = [abs |-> TRUE, segs |-> root]
      BY <1>1 DEF Homes
    <2>3. /\ root \in Seq(Segments) /\ bin.segs \in Seq(Segments) /\ <<>> \in Seq(Segments)
          /\ home.segs = root
      BY <1>2, <2>2, EmptySeq, HomeIsPath DEF Paths
    <2>4. Join(home, bin) = [abs |-> TRUE, segs |-> root \o bin.segs]
      <3>1. Join([abs |-> TRUE, segs |-> root], bin) = [abs |-> TRUE, segs |-> root \o bin.segs]
        BY <2>1 DEF Join
      <3> HIDE DEF home
      <3>2. QED
        BY <2>2, <3>1, Zenon
    <2>5. Canonical([abs |-> TRUE, segs |-> root \o bin.segs])
            = [abs |-> TRUE, segs |-> Walk(<<>>, root \o bin.segs)]
      <3>1. PICK both \in Seq(Segments) : both = root \o bin.segs
        BY <2>3, ConcatProperties
      <3>2. [abs |-> TRUE, segs |-> both] \in Paths
        BY DEF Paths
      <3>3. Canonical([abs |-> TRUE, segs |-> both]) = [abs |-> TRUE, segs |-> Walk(<<>>, both)]
        BY <3>2, CanonicalIs
      <3>4. QED
        BY <3>1, <3>3
    <2>6. Walk(<<>>, root \o bin.segs) = Walk(Walk(<<>>, root), bin.segs)
      BY <2>3, WalkTwice
    <2>7. Walk(<<>>, root) = root
      BY <2>2, WalkPlain
    <2>8. QED
      <3>1. Here(bin) = Canonical(Join(home, bin))
        BY DEF Here
      <3> HIDE DEF home
      <3>2. QED
        BY <2>3, <2>4, <2>5, <2>6, <2>7, <3>1, Zenon
  <1> HIDE DEF segs
  <1>6. CASE segs = <<>>
    BY <1>5, <1>6 DEF Abs
  <1>7. CASE segs # <<>>
    <2>1. Resolved(bin) = Here(bin) /\ Here(bin).abs
      <3>1. (segs # <<>>) = TRUE
        BY <1>7
      <3>2. Resolved(bin) = [abs |-> TRUE, segs |-> segs]
        BY <1>4, <3>1, Zenon
      <3>3. [abs |-> TRUE, segs |-> segs].abs
        OBVIOUS
      <3>4. QED
        BY <1>5, <3>2, <3>3, Zenon
    <2>2. Candidates(Here(bin)) = {Here(bin)}
      BY <2>1, Zenon DEF Candidates
    <2>3. QED
      BY <2>1, <2>2
  <1>8. QED
    BY <1>6, <1>7

LEMMA CdNotDotted == ~Dotted(CD)
  BY PathsAssumption DEF Dotted, CD, Rel

LEMMA StepDotted ==
  ASSUME FullInv, [Next]_vars
  PROVE  DottedRunsHere'
  <1>1. CASE DefaultInit
    BY <1>1 DEF DefaultInit, FullInv, IInv, LineKept, DottedRunsHere
  <1>2. CASE BuildLine
    BY <1>2 DEF BuildLine, DottedRunsHere
  <1>3. CASE RunCd
    <2>1. cmd' = cmd /\ at' - 1 = at /\ cmd[at].bin = CD
      BY <1>3 DEF RunCd, FullInv, IInv, LineKept
    <2>2. QED
      BY <2>1, CdNotDotted DEF DottedRunsHere
  <1>4. CASE RunProgram
    <2>1. UNCHANGED <<cmd, typed>> /\ at' - 1 = at /\ cmd # <<>>
      BY <1>4 DEF RunProgram, InStage, FullInv, IInv, LineKept
    <2>2. cmd \in Commands /\ at \in DOMAIN cmd
      BY <1>4, StageAt DEF RunProgram, InStage, FullInv, IInv, LineKept
    <2>3. cmd[at].bin \in Paths
      BY <2>2, StageType
    <2>4. last' \in Candidates(Resolved(cmd[at].bin))
      BY <1>4 DEF RunProgram
    <2>5. ASSUME Plain, Dotted(cmd[at].bin)
          PROVE  last' = Here(cmd[at].bin) \/ Here(cmd[at].bin) = Abs(<<>>)
      BY <2>1, <2>3, <2>4, <2>5, DottedIsHere DEF FullInv
    <2>6. QED
      BY <2>1, <2>5 DEF DottedRunsHere, Plain, Here
  <1>5. CASE EndLine
    BY <1>5 DEF EndLine, DottedRunsHere
  <1>6. CASE UNCHANGED vars
    BY <1>6 DEF vars, FullInv, DottedRunsHere, Plain, Here
  <1>7. QED
    BY <1>1, <1>2, <1>3, <1>4, <1>5, <1>6 DEF Next

(* The types go with where each path came from: what update_cwd is given   *)
(* has no dots left, and that is what DottedRunsHere rests on.             *)
THEOREM AlwaysFullInv == Spec => []FullInv
  <1>1. Init => FullInv
    <2> SUFFICES ASSUME Init PROVE FullInv
      OBVIOUS
    <2>1. DirType
      <3>1. IsHome(own)
        BY DEF Init, Unset, IsHome
      <3>2. Free \in Row
        BY NoPathType DEF Free, Row
      <3>3. fds \in [Fds -> Row] /\ refused \in 0 .. MaxRefusals
        BY <3>2, PathsAssumption DEF Init
      <3>4. QED
        BY <3>1, <3>3 DEF DirType
    <2>2. PathsOK
      BY <2>1, NoPathType, EmptySeq DEF Init, PathsOK, Unset, IsHome, IsStack
    <2>3. DottedRunsHere
      BY DEF Init, DottedRunsHere
    <2>4. QED
      BY <2>2, <2>3, InitIInv DEF FullInv
  <1>2. FullInv /\ [Next]_vars => FullInv'
    BY StepIInv, StepPathsOK, StepDotted DEF FullInv
  <1>3. QED
    BY <1>1, <1>2, PTL DEF Spec

(* The shell's variables, the kernel's table and the line keep their types; *)
(* a descriptor in open_wd is in use.                                       *)
THEOREM DirectoryType == Spec => []TypeOK
  <1>1. FullInv => TypeOK
    BY HomeIsStack DEF FullInv, IInv, WdInv, WdType, LineKept, PathsOK, DirType, Row, TypeOK
  <1>2. QED
    BY <1>1, AlwaysFullInv, PTL

(* A program named with a leading dot is the one there, for every PATH,    *)
(* every directory and every line that does not assign CWD.                *)
THEOREM DottedStaysHere == Spec => []DottedRunsHere
  <1>1. FullInv => DottedRunsHere
    BY DEF FullInv
  <1>2. QED
    BY <1>1, AlwaysFullInv, PTL
=============================================================================
