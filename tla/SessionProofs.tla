--------------------------- MODULE SessionProofs ---------------------------
(* Session's safety properties, for any keys, line feeds and length of     *)
(* queue.                                                                  *)
EXTENDS Session, SequenceTheorems, TLAPS

Bytes == Keys \cup Range(FdBytes)

(* Until the terminal has sent the four bytes, it has started no thread    *)
(* that could send anything else, and the shell waits for them.            *)
QuietBoot ==
  /\ tpc = "threads" => threads \in {{}, {"input"}, {"input", "stderr"}}
  /\ tpc \in {"threads", "loop"} => sent
  /\ ~sent => threads = {} /\ stdin = <<>> /\ got = <<>>
  /\ tpc \in {"spawn", "keyboard", "hello"} => ~sent /\ spc \in {"none", "init", "exited"}
  /\ tpc = "spawn" <=> spc = "none" /\ tpc # "dead"

(* From then on what the shell has read, and what is still in the pipe,    *)
(* are the four bytes and then keys.                                       *)
FourBytesFirst ==
  /\ Len(got) <= 4 /\ Len(got) + Len(stdin) >= 4
  /\ \A i \in 1 .. 4 : (IF i <= Len(got) THEN got[i] ELSE stdin[i - Len(got)]) = FdBytes[i]
  /\ \A j \in 1 .. Len(stdin) : j > 4 - Len(got) => stdin[j] \in Keys

SentFirst == sent => spc # "none" /\ (spc = "init" => FourBytesFirst)

(* The main loop, drain_stdin and the jobs meet nothing but keys. *)
OnlyKeys == spc \in {"new", "drain", "loop", "job", "redrain"} => stdin \in Seq(Keys)

IInv == TypeOK /\ QuietBoot /\ SentFirst /\ OnlyKeys /\ HandshakeIntact

----------------------------------------------------------------------------
LEMMA FdBytesType ==
  /\ FdBytes \in Seq(Bytes) /\ Len(FdBytes) = 4
  /\ \A i \in 1 .. 4 : FdBytes[i] \in Bytes
  <1>1. Len(FdBytes) = 4 /\ FdBytes \in Seq({"fd1", "fd2", "fd3", "fd4"})
    BY DEF FdBytes
  <1>2. Range(FdBytes) = {"fd1", "fd2", "fd3", "fd4"}
    BY DEF FdBytes, Range
  <1>3. QED
    BY <1>1, <1>2 DEF Bytes, FdBytes

LEMMA InitIInv == Init => IInv
  <1> SUFFICES ASSUME Init PROVE IInv
    OBVIOUS
  <1>1. TypeOK
    <2>1. /\ <<>> \in Seq(Answers) /\ <<>> \in Seq(Seq(Answers))
          /\ <<>> \in Seq(Keys \cup Range(FdBytes)) /\ <<>> \in Seq(Keys)
      OBVIOUS
    <2>2. Len(got) <= 4
      BY DEF Init
    <2>3. QED
      BY <2>1, <2>2 DEF Init, TypeOK
  <1>2. QED
    BY <1>1 DEF IInv, Init, QuietBoot, SentFirst, OnlyKeys, HandshakeIntact

(* Taking some of a sequence leaves the rest. *)
LEMMA CutSeq ==
  ASSUME NEW S, NEW s \in Seq(S), NEW n \in 1 .. Len(s)
  PROVE  /\ SubSeq(s, 1, n) \in Seq(S) /\ Len(SubSeq(s, 1, n)) = n
         /\ \A i \in 1 .. n : SubSeq(s, 1, n)[i] = s[i]
         /\ SubSeq(s, n + 1, Len(s)) \in Seq(S) /\ Len(SubSeq(s, n + 1, Len(s))) = Len(s) - n
         /\ \A i \in 1 .. Len(s) - n : SubSeq(s, n + 1, Len(s))[i] = s[i + n]
  OBVIOUS

----------------------------------------------------------------------------
(* The boot of the terminal. *)
LEMMA BootKeeps ==
  ASSUME IInv, SpawnShell \/ HookKeyboard \/ SendFd \/ StartThread \/ BootFails
  PROVE  IInv'
  <1> USE DEF IInv
  <1>1. CASE SpawnShell
    <2>1. TypeOK'
      BY <1>1 DEF SpawnShell, TypeOK, screenVars, userVars
    <2>2. QED
      BY <1>1, <2>1 DEF SpawnShell, screenVars, userVars, QuietBoot, SentFirst, OnlyKeys,
                        HandshakeIntact
  <1>2. CASE HookKeyboard
    <2>1. TypeOK'
      BY <1>2 DEF HookKeyboard, TypeOK, screenVars, shellVars, userVars
    <2>2. QED
      BY <1>2, <2>1 DEF HookKeyboard, screenVars, shellVars, userVars, QuietBoot, SentFirst,
                        OnlyKeys, HandshakeIntact
  <1>3. CASE SendFd
    <2>1. stdin = <<>> /\ got = <<>> /\ spc \in {"init", "exited"} /\ got' = <<>>
      BY <1>3 DEF SendFd, QuietBoot, shellVars
    <2>2. stdin' = FdBytes
      BY <1>3, <2>1 DEF SendFd, FdBytes
    <2>3. TypeOK'
      BY <1>3, <2>2, FdBytesType DEF SendFd, TypeOK, screenVars, shellVars, userVars, Bytes
    <2>4. FourBytesFirst'
      <3>1. Len(got)' = 0 /\ Len(stdin)' = 4
        BY <2>1, <2>2, FdBytesType
      <3>2. QED
        BY <2>1, <2>2, <3>1 DEF FourBytesFirst
    <2>5. QED
      BY <1>3, <2>1, <2>3, <2>4 DEF SendFd, screenVars, shellVars, userVars, QuietBoot, SentFirst,
                                    OnlyKeys, HandshakeIntact
  <1>4. CASE StartThread
    <2>1. /\ tpc' \in {"threads", "loop"}
          /\ UNCHANGED <<sent, screenVars, shellVars, userVars, stdin, out, queue>>
      BY <1>4 DEF StartThread
    <2>2. /\ threads' \subseteq {"input", "stderr", "stdout"}
          /\ tpc' = "threads" => threads' \in {{"input"}, {"input", "stderr"}}
      <3>1. CASE threads = {}
        BY <1>4, <3>1 DEF StartThread, NextThread
      <3>2. CASE threads = {"input"}
        <4>1. NextThread = "stderr"
          BY <3>2 DEF NextThread
        <4>2. QED
          BY <1>4, <3>2, <4>1 DEF StartThread
      <3>3. CASE threads = {"input", "stderr"}
        <4>1. NextThread = "stdout"
          BY <3>3 DEF NextThread
        <4>2. QED
          BY <1>4, <3>3, <4>1 DEF StartThread
      <3>4. QED
        BY <1>4, <3>1, <3>2, <3>3 DEF StartThread, QuietBoot
    <2>3. TypeOK'
      BY <2>1, <2>2 DEF TypeOK, screenVars, shellVars, userVars
    <2>4. QED
      BY <1>4, <2>1, <2>2, <2>3 DEF StartThread, screenVars, shellVars, userVars, QuietBoot,
                                    SentFirst, FourBytesFirst, OnlyKeys, HandshakeIntact
  <1>5. CASE BootFails
    <2>1. TypeOK'
      BY <1>5 DEF BootFails, TypeOK, screenVars, shellVars, userVars
    <2>2. QED
      BY <1>5, <2>1 DEF BootFails, screenVars, shellVars, userVars, QuietBoot, SentFirst,
                        FourBytesFirst, OnlyKeys, HandshakeIntact
  <1>6. QED
    BY <1>1, <1>2, <1>3, <1>4, <1>5

----------------------------------------------------------------------------
(* The user and the shell. *)
LEMMA RelayKeyKeeps ==
  ASSUME IInv, NEW key \in Keys, RelayKey(key)
  PROVE  IInv'
  <1> USE DEF IInv
  <1>1. /\ sent /\ stdin' = stdin \o <<key>>
        /\ UNCHANGED <<bootVars, screenVars, shellVars, out, queue>>
    BY DEF RelayKey, Relayed, Runs, QuietBoot
  <1>2. <<key>> \in Seq(Bytes) /\ <<key>> \in Seq(Keys) /\ stdin \in Seq(Bytes)
    BY DEF Bytes, TypeOK
  <1>3. /\ stdin' \in Seq(Bytes) /\ Len(stdin') = Len(stdin) + 1
        /\ \A i \in 1 .. Len(stdin) : stdin'[i] = stdin[i]
        /\ stdin'[Len(stdin) + 1] = key
    BY <1>1, <1>2, ConcatProperties
  <1>4. TypeOK'
    BY <1>1, <1>3 DEF RelayKey, Relayed, TypeOK, bootVars, screenVars, shellVars, Bytes, Answers
  <1>5. FourBytesFirst => FourBytesFirst'
    <2>1. SUFFICES ASSUME FourBytesFirst PROVE FourBytesFirst'
      OBVIOUS
    <2>2. got' = got /\ Len(got) \in Nat /\ Len(stdin) \in Nat
      BY <1>1, <1>2 DEF shellVars, TypeOK
    <2>3. \A i \in 1 .. 4 : i <= Len(got) \/ i - Len(got) \in 1 .. Len(stdin)
      BY <2>1, <2>2 DEF FourBytesFirst
    <2>4. \A i \in 1 .. 4 : (IF i <= Len(got) THEN got[i] ELSE stdin'[i - Len(got)]) = FdBytes[i]
      BY <1>3, <2>1, <2>3 DEF FourBytesFirst
    <2>5. \A j \in 1 .. Len(stdin) + 1 : j > 4 - Len(got) => stdin'[j] \in Keys
      BY <1>3, <2>1, <2>2 DEF FourBytesFirst
    <2>6. QED
      BY <1>3, <2>1, <2>2, <2>4, <2>5 DEF FourBytesFirst
  <1>6. OnlyKeys'
    BY <1>1, <1>2 DEF OnlyKeys, shellVars
  <1>7. QED
    BY <1>1, <1>4, <1>5, <1>6 DEF bootVars, shellVars, QuietBoot, SentFirst, HandshakeIntact

LEMMA AllFour ==
  ASSUME NEW m \in Nat, NEW n \in Nat, m = 4 \/ n = 0, m <= 4 /\ m + n >= 4
  PROVE  m = 4
  OBVIOUS

LEMMA ReadFdKeeps ==
  ASSUME IInv, ReadFd
  PROVE  IInv'
  <1> USE DEF IInv
  <1>1. /\ spc = "init" /\ UNCHANGED <<bootVars, screenVars, keys, userVars, out, queue>>
    BY DEF ReadFd
  <1>2. got \in Seq(Bytes) /\ stdin \in Seq(Bytes) /\ Len(got) \in Nat /\ Len(stdin) \in Nat
    BY DEF TypeOK, Bytes
  <1>3. CASE /\ Len(got) = 4 \/ (stdin = <<>> /\ tpc = "dead")
             /\ spc' = "new" /\ UNCHANGED <<got, stdin>>
    <2>1. TypeOK'
      BY <1>1, <1>3 DEF TypeOK, bootVars, screenVars, userVars
    <2>2. CASE sent
      <3>1. FourBytesFirst
        BY <1>1, <2>2 DEF SentFirst
      <3>2. Len(got) = 4
        <4>1. Len(got) = 4 \/ Len(stdin) = 0
          <5>1. stdin = <<>> => Len(stdin) = 0
            OBVIOUS
          <5>2. Len(got) = 4 \/ stdin = <<>>
            BY <1>3
          <5>3. QED
            BY <5>1, <5>2, Zenon
        <4>2. Len(got) <= 4 /\ Len(got) + Len(stdin) >= 4
          BY <3>1 DEF FourBytesFirst
        <4>3. QED
          BY <1>2, <4>1, <4>2, AllFour, Zenon
      <3>3. got = FdBytes
        <4>1. \A i \in 1 .. Len(got) : got[i] = FdBytes[i]
          BY <3>1, <3>2 DEF FourBytesFirst
        <4>2. QED
          BY <1>2, <3>2, <4>1, FdBytesType, SeqEqual
      <3>4. stdin \in Seq(Keys)
        <4>1. \A j \in 1 .. Len(stdin) : stdin[j] \in Keys
          BY <3>1, <3>2 DEF FourBytesFirst
        <4>2. QED
          BY <1>2, <4>1
      <3>5. OnlyKeys' /\ HandshakeIntact'
        BY <1>3, <3>3, <3>4 DEF OnlyKeys, HandshakeIntact
      <3>6. QED
        BY <1>1, <1>3, <2>1, <2>2, <3>5 DEF bootVars, QuietBoot, SentFirst
    <2>3. CASE ~sent
      <3>1. got = <<>> /\ stdin = <<>> /\ threads = {}
        BY <2>3 DEF QuietBoot
      <3>2. tpc = "dead"
        BY <1>3, <3>1, EmptySeq
      <3>3. OnlyKeys' /\ HandshakeIntact'
        BY <1>1, <1>3, <2>3, <3>1, <3>2 DEF OnlyKeys, HandshakeIntact, bootVars
      <3>4. QED
        BY <1>1, <1>3, <2>1, <2>3, <3>1, <3>2, <3>3 DEF bootVars, QuietBoot, SentFirst
    <2>4. QED
      BY <2>2, <2>3
  <1>4. CASE /\ stdin # <<>> /\ Len(got) < 4 /\ UNCHANGED spc
             /\ \E n \in 1 .. Least(4 - Len(got), Len(stdin)) :
                  /\ got' = got \o SubSeq(stdin, 1, n)
                  /\ stdin' = SubSeq(stdin, n + 1, Len(stdin))
    <2>1. PICK n \in 1 .. Least(4 - Len(got), Len(stdin)) :
            got' = got \o SubSeq(stdin, 1, n) /\ stdin' = SubSeq(stdin, n + 1, Len(stdin))
      BY <1>4
    <2>2. n \in 1 .. Len(stdin) /\ n <= 4 - Len(got)
      BY <1>2 DEF Least
    <2>3. /\ SubSeq(stdin, 1, n) \in Seq(Bytes) /\ Len(SubSeq(stdin, 1, n)) = n
          /\ \A i \in 1 .. n : SubSeq(stdin, 1, n)[i] = stdin[i]
          /\ stdin' \in Seq(Bytes) /\ Len(stdin') = Len(stdin) - n
          /\ \A i \in 1 .. Len(stdin) - n : stdin'[i] = stdin[i + n]
      <3>1. stdin \in Seq(Bytes) /\ n \in 1 .. Len(stdin)
        BY <1>2, <2>2
      <3>2. /\ SubSeq(stdin, n + 1, Len(stdin)) \in Seq(Bytes)
            /\ Len(SubSeq(stdin, n + 1, Len(stdin))) = Len(stdin) - n
            /\ \A i \in 1 .. Len(stdin) - n : SubSeq(stdin, n + 1, Len(stdin))[i] = stdin[i + n]
        BY <3>1, CutSeq, Zenon
      <3>3. /\ SubSeq(stdin, 1, n) \in Seq(Bytes) /\ Len(SubSeq(stdin, 1, n)) = n
            /\ \A i \in 1 .. n : SubSeq(stdin, 1, n)[i] = stdin[i]
        BY <3>1, CutSeq, ZenonT(60)
      <3>4. QED
        BY <2>1, <3>2, <3>3, Zenon
    <2>4. /\ got' \in Seq(Bytes) /\ Len(got') = Len(got) + n
          /\ \A i \in 1 .. Len(got) + n :
               got'[i] = IF i <= Len(got) THEN got[i] ELSE stdin[i - Len(got)]
      <3>1. \A i \in 1 .. Len(got) + n :
               got'[i] = IF i <= Len(got) THEN got[i] ELSE SubSeq(stdin, 1, n)[i - Len(got)]
        BY <1>2, <2>1, <2>3, ConcatProperties
      <3>2. got' \in Seq(Bytes) /\ Len(got') = Len(got) + n
        BY <1>2, <2>1, <2>3, ConcatProperties
      <3>3. \A i \in 1 .. Len(got) + n : i <= Len(got) \/ i - Len(got) \in 1 .. n
        BY <1>2, <2>2
      <3>4. ASSUME NEW i \in 1 .. Len(got) + n
            PROVE  got'[i] = IF i <= Len(got) THEN got[i] ELSE stdin[i - Len(got)]
        <4>1. CASE i <= Len(got)
          BY <3>1, <4>1
        <4>2. CASE ~(i <= Len(got))
          <5>1. SubSeq(stdin, 1, n)[i - Len(got)] = stdin[i - Len(got)]
            BY <2>3, <3>3, <4>2
          <5>2. QED
            BY <3>1, <4>2, <5>1
        <4>3. QED
          BY <4>1, <4>2
      <3>5. QED
        BY <3>2, <3>4
    <2>5. TypeOK'
      <3>1. stdin' \in Seq(Keys \cup Range(FdBytes)) /\ got' \in Seq(Keys \cup Range(FdBytes))
        BY <2>3, <2>4 DEF Bytes
      <3>2. Len(got') <= 4
        BY <1>2, <2>2, <2>4
      <3>3. spc' = spc
        BY <1>4
      <3>4. QED
        BY <1>1, <3>1, <3>2, <3>3 DEF TypeOK, bootVars, screenVars, userVars
    <2>6. FourBytesFirst => FourBytesFirst'
      <3>1. SUFFICES ASSUME FourBytesFirst PROVE FourBytesFirst'
        OBVIOUS
      <3>2. Len(got)' <= 4 /\ Len(got)' + Len(stdin)' >= 4
        BY <1>2, <2>2, <2>3, <2>4, <3>1 DEF FourBytesFirst
      <3>3. ASSUME NEW i \in 1 .. 4
            PROVE  (IF i <= Len(got') THEN got'[i] ELSE stdin'[i - Len(got')]) = FdBytes[i]
        <4>1. (IF i <= Len(got) THEN got[i] ELSE stdin[i - Len(got)]) = FdBytes[i]
          BY <3>1 DEF FourBytesFirst
        <4>2. CASE i <= Len(got) + n
          BY <1>2, <2>2, <2>4, <4>1, <4>2
        <4>3. CASE i > Len(got) + n
          <5>1. i - (Len(got) + n) \in 1 .. Len(stdin) - n
            BY <1>2, <2>2, <3>1, <4>3 DEF FourBytesFirst
          <5>2. stdin'[i - (Len(got) + n)] = stdin[i - Len(got)]
            <6>1. Len(got) \in Nat /\ n \in Nat /\ i \in Nat
              BY <1>2, <2>2
            <6>2. (i - (Len(got) + n)) + n = i - Len(got)
              BY <6>1
            <6>3. stdin'[i - (Len(got) + n)] = stdin[(i - (Len(got) + n)) + n]
              BY <2>3, <5>1
            <6>4. QED
              BY <6>2, <6>3
          <5>3. QED
            BY <1>2, <2>2, <2>4, <4>1, <4>3, <5>2
        <4>4. QED
          BY <1>2, <2>2, <4>2, <4>3
      <3>4. ASSUME NEW j \in 1 .. Len(stdin'), j > 4 - Len(got') PROVE stdin'[j] \in Keys
        <4>1. j + n \in 1 .. Len(stdin) /\ j + n > 4 - Len(got)
          BY <1>2, <2>2, <2>3, <2>4, <3>4
        <4>2. stdin'[j] = stdin[j + n]
          BY <2>3, <3>4
        <4>3. QED
          BY <3>1, <4>1, <4>2 DEF FourBytesFirst
      <3>5. QED
        BY <3>2, <3>3, <3>4 DEF FourBytesFirst
    <2>7. sent
      BY <1>4 DEF QuietBoot
    <2>8. QED
      BY <1>1, <1>4, <2>5, <2>6, <2>7 DEF QuietBoot, SentFirst, OnlyKeys, HandshakeIntact, bootVars
  <1>5. QED
    BY <1>3, <1>4 DEF ReadFd

(* A step of the shell's main thread from the prompt on, of a job or of    *)
(* the screen: it leaves the handshake alone and puts nothing into the     *)
(* shell's input.                                                          *)
LEMMA LaterStepKeeps ==
  ASSUME IInv, TypeOK', UNCHANGED <<bootVars, got>>,
         \/ UNCHANGED <<spc, stdin>>
         \/ /\ spc \in {"new", "drain", "loop", "job", "redrain"}
            /\ spc' \in {"drain", "loop", "job", "redrain"}
            /\ stdin' \in Seq(Keys) /\ (stdin = <<>> => stdin' = <<>>)
         \/ spc # "none" /\ spc' = "exited" /\ UNCHANGED stdin
  PROVE  IInv'
  <1> USE DEF IInv, bootVars
  <1>1. CASE UNCHANGED <<spc, stdin>>
    BY <1>1 DEF QuietBoot, SentFirst, FourBytesFirst, OnlyKeys, HandshakeIntact
  <1>2. CASE spc # "none" /\ spc' = "exited" /\ UNCHANGED stdin
    BY <1>2 DEF QuietBoot, SentFirst, FourBytesFirst, OnlyKeys, HandshakeIntact
  <1>3. CASE /\ spc \in {"new", "drain", "loop", "job", "redrain"}
             /\ spc' \in {"drain", "loop", "job", "redrain"}
             /\ stdin' \in Seq(Keys) /\ (stdin = <<>> => stdin' = <<>>)
    <2>1. tpc \notin {"spawn", "keyboard", "hello"}
      BY <1>3 DEF QuietBoot
    <2>2. QED
      BY <1>3, <2>1 DEF QuietBoot, SentFirst, OnlyKeys, HandshakeIntact
  <1>4. QED
    BY <1>1, <1>2, <1>3

(* Some of the input is read: the rest is still keys. *)
LEMMA RestOfKeys ==
  ASSUME NEW s \in Seq(Keys), NEW n \in 1 .. Len(s)
  PROVE  /\ SubSeq(s, 1, n) \in Seq(Keys) /\ SubSeq(s, n + 1, Len(s)) \in Seq(Keys)
         /\ s # <<>>
  BY CutSeq, EmptySeq

LEMMA KeysAreBytes == Seq(Keys) \subseteq Seq(Keys \cup Range(FdBytes))
  BY SeqMonotonic

LEMMA ShellKeeps ==
  ASSUME IInv,
         Prompt \/ DrainStdin \/ DrainEnds \/ ReadKeys \/ AnswerKey \/ Linefeed \/ ShellPanics
  PROVE  IInv'
  <1>1. TypeOK /\ OnlyKeys
    BY DEF IInv
  <1>2. CASE Prompt
    <2>1. /\ spc = "new" /\ spc' = "drain"
          /\ UNCHANGED <<bootVars, screenVars, got, keys, typed, stdin, queue>>
      BY <1>2 DEF Prompt
    <2>2. out' \in Seq(Answers) /\ owed' \subseteq Answers
      BY <1>1, <1>2 DEF Prompt, Shows, TypeOK, Answers
    <2>3. TypeOK'
      BY <1>1, <2>1, <2>2 DEF TypeOK, bootVars, screenVars
    <2>4. QED
      BY <1>1, <2>1, <2>3, LaterStepKeeps DEF OnlyKeys
  <1>3. CASE DrainStdin
    <2>1. PICK n \in 1 .. Len(stdin) : stdin' = SubSeq(stdin, n + 1, Len(stdin))
      BY <1>3 DEF DrainStdin
    <2>2. /\ spc \in {"drain", "redrain"}
          /\ UNCHANGED <<bootVars, screenVars, shellVars, userVars, out, queue>>
      BY <1>3 DEF DrainStdin
    <2>3. stdin' \in Seq(Keys) /\ stdin # <<>>
      BY <1>1, <2>1, <2>2, RestOfKeys DEF OnlyKeys
    <2>4. TypeOK'
      BY <1>1, <2>2, <2>3, KeysAreBytes DEF TypeOK, bootVars, screenVars, shellVars, userVars
    <2>5. QED
      BY <2>2, <2>3, <2>4, LaterStepKeeps DEF shellVars
  <1>4. CASE DrainEnds
    <2>1. /\ spc \in {"drain", "redrain"} /\ spc' = "loop"
          /\ UNCHANGED <<bootVars, screenVars, got, keys, typed, stdin, queue>>
      BY <1>4 DEF DrainEnds
    <2>2. out' \in Seq(Answers) /\ owed' \subseteq Answers
      <3>1. CASE UNCHANGED <<out, owed>>
        BY <1>1, <3>1 DEF TypeOK
      <3>2. CASE Shows("again")
        BY <1>1, <3>2 DEF Shows, TypeOK, Answers
      <3>3. QED
        BY <1>4, <3>1, <3>2 DEF DrainEnds
    <2>3. TypeOK'
      BY <1>1, <2>1, <2>2 DEF TypeOK, bootVars, screenVars
    <2>4. QED
      BY <1>1, <2>1, <2>3, LaterStepKeeps DEF OnlyKeys
  <1>5. CASE ReadKeys
    <2>1. PICK n \in 1 .. Len(stdin) : /\ keys' = SubSeq(stdin, 1, n)
                                       /\ stdin' = SubSeq(stdin, n + 1, Len(stdin))
      BY <1>5 DEF ReadKeys
    <2>2. spc = "loop" /\ UNCHANGED <<bootVars, screenVars, spc, got, userVars, out, queue>>
      BY <1>5 DEF ReadKeys
    <2>3. keys' \in Seq(Keys) /\ stdin' \in Seq(Keys) /\ stdin # <<>>
      BY <1>1, <2>1, <2>2, RestOfKeys DEF OnlyKeys
    <2>4. TypeOK'
      BY <1>1, <2>2, <2>3, KeysAreBytes DEF TypeOK, bootVars, screenVars, userVars
    <2>5. QED
      BY <2>2, <2>3, <2>4, LaterStepKeeps
  <1>6. CASE AnswerKey \/ Linefeed
    <2>1. /\ spc = "loop" /\ spc' \in {"loop", "job"} /\ keys # <<>> /\ keys' = Tail(keys)
          /\ UNCHANGED <<bootVars, screenVars, got, typed, stdin, queue>>
      BY <1>6 DEF AnswerKey, Linefeed, userVars
    <2>2. Head(keys) \in Keys /\ keys' \in Seq(Keys)
      BY <1>1, <2>1, HeadTailProperties DEF TypeOK
    <2>3. out' \in Seq(Answers) /\ owed' \subseteq Answers
      <3>1. /\ out \in Seq(Answers) /\ <<Head(keys), "again">> \in Seq(Answers)
            /\ Head(keys) \in Answers
        BY <1>1, <2>2 DEF TypeOK, Answers
      <3>2. /\ Append(out, Head(keys)) \in Seq(Answers)
            /\ out \o <<Head(keys), "again">> \in Seq(Answers)
        BY <3>1, AppendProperties, ConcatProperties
      <3>3. out' = Append(out, Head(keys)) \/ out' = out \o <<Head(keys), "again">>
        BY <1>6 DEF AnswerKey, Linefeed
      <3>4. owed' \subseteq owed \cup {"again"}
        BY <1>6 DEF AnswerKey, Linefeed, userVars
      <3>5. QED
        BY <1>1, <3>2, <3>3, <3>4 DEF TypeOK, Answers
    <2>4. TypeOK'
      BY <1>1, <2>1, <2>2, <2>3 DEF TypeOK, bootVars, screenVars
    <2>5. QED
      BY <1>1, <2>1, <2>4, LaterStepKeeps DEF OnlyKeys
  <1>7. CASE ShellPanics
    <2>1. /\ spc' = "exited" /\ spc \in {"init", "loop"}
          /\ UNCHANGED <<bootVars, screenVars, got, keys, userVars, stdin, out, queue>>
      BY <1>7 DEF ShellPanics
    <2>2. TypeOK'
      BY <1>1, <2>1 DEF TypeOK, bootVars, screenVars, userVars
    <2>3. QED
      BY <2>1, <2>2, LaterStepKeeps
  <1>8. QED
    BY <1>2, <1>3, <1>4, <1>5, <1>6, <1>7

LEMMA JobKeeps ==
  ASSUME IInv, Job
  PROVE  IInv'
  <1>1. TypeOK /\ OnlyKeys /\ spc = "job"
    BY DEF IInv, Job, JobWrites, JobReads, JobEnds
  <1>2. CASE JobWrites
    <2>1. UNCHANGED <<bootVars, screenVars, shellVars, typed, stdin, queue>>
      BY <1>2 DEF JobWrites
    <2>2. out' \in Seq(Answers) /\ owed' \subseteq Answers
      BY <1>1, <1>2 DEF JobWrites, Shows, TypeOK, Answers
    <2>3. TypeOK'
      BY <1>1, <2>1, <2>2 DEF TypeOK, bootVars, screenVars, shellVars
    <2>4. QED
      BY <2>1, <2>3, LaterStepKeeps DEF shellVars
  <1>3. CASE JobReads
    <2>1. PICK n \in 1 .. Len(stdin) : stdin' = SubSeq(stdin, n + 1, Len(stdin))
      BY <1>3 DEF JobReads
    <2>2. UNCHANGED <<bootVars, screenVars, shellVars, userVars, out, queue>>
      BY <1>3 DEF JobReads
    <2>3. stdin' \in Seq(Keys) /\ stdin # <<>>
      BY <1>1, <2>1, RestOfKeys DEF OnlyKeys
    <2>4. TypeOK'
      BY <1>1, <2>2, <2>3, KeysAreBytes DEF TypeOK, bootVars, screenVars, shellVars, userVars
    <2>5. QED
      BY <1>1, <2>2, <2>3, <2>4, LaterStepKeeps DEF shellVars
  <1>4. CASE JobEnds
    <2>1. /\ spc' = "redrain"
          /\ UNCHANGED <<bootVars, screenVars, got, keys, userVars, stdin, out, queue>>
      BY <1>4 DEF JobEnds
    <2>2. TypeOK'
      BY <1>1, <2>1 DEF TypeOK, bootVars, screenVars, userVars
    <2>3. QED
      BY <1>1, <2>1, <2>2, LaterStepKeeps DEF OnlyKeys
  <1>5. QED
    BY <1>2, <1>3, <1>4 DEF Job

----------------------------------------------------------------------------
(* The output reader and the event loop. *)
LEMMA ScreenKeeps ==
  ASSUME IInv, ReadStdout \/ ProcessEvents \/ Flush
  PROVE  IInv'
  <1>1. TypeOK
    BY DEF IInv
  <1>2. CASE ReadStdout
    <2>1. UNCHANGED <<bootVars, screenVars, shellVars, userVars, stdin>>
      BY <1>2 DEF ReadStdout
    <2>2. queue' \in Seq(Seq(Answers)) /\ out' \in Seq(Answers)
      <3>1. CASE out = <<>> /\ queue' = Append(queue, <<>>) /\ UNCHANGED out
        BY <1>1, <3>1 DEF TypeOK
      <3>2. ASSUME NEW n \in 1 .. Len(out), queue' = Append(queue, SubSeq(out, 1, n)),
                   out' = SubSeq(out, n + 1, Len(out))
            PROVE  queue' \in Seq(Seq(Answers)) /\ out' \in Seq(Answers)
        <4>1. out \in Seq(Answers) /\ queue \in Seq(Seq(Answers))
          BY <1>1 DEF TypeOK
        <4>2. SubSeq(out, 1, n) \in Seq(Answers) /\ SubSeq(out, n + 1, Len(out)) \in Seq(Answers)
          BY <4>1, CutSeq
        <4>3. QED
          BY <3>2, <4>1, <4>2
      <3>3. QED
        BY <1>2, <3>1, <3>2 DEF ReadStdout
    <2>3. TypeOK'
      BY <1>1, <2>1, <2>2 DEF TypeOK, bootVars, screenVars, shellVars, userVars
    <2>4. QED
      BY <2>1, <2>3, LaterStepKeeps DEF shellVars
  <1>3. CASE ProcessEvents
    <2>1. UNCHANGED <<bootVars, frame, shellVars, userVars, stdin, out>>
      BY <1>3 DEF ProcessEvents
    <2>2. queue' \in Seq(Seq(Answers)) /\ rows' \subseteq Answers
      <3>1. Head(queue) \in Seq(Answers) /\ Tail(queue) \in Seq(Seq(Answers))
        BY <1>1, <1>3, HeadTailProperties DEF ProcessEvents, TypeOK
      <3>2. Range(Head(queue)) \subseteq Answers
        BY <3>1, RangeOfSeq
      <3>3. QED
        BY <1>1, <1>3, <3>1, <3>2 DEF ProcessEvents, TypeOK
    <2>3. dirty' \in BOOLEAN
      BY <1>3 DEF ProcessEvents
    <2>4. TypeOK'
      BY <1>1, <2>1, <2>2, <2>3 DEF TypeOK, bootVars, shellVars, userVars
    <2>5. QED
      BY <2>1, <2>4, LaterStepKeeps DEF shellVars
  <1>4. CASE Flush
    <2>1. UNCHANGED <<bootVars, rows, shellVars, userVars, stdin, out, queue>>
      BY <1>4 DEF Flush
    <2>2. TypeOK'
      BY <1>1, <1>4, <2>1 DEF Flush, TypeOK, bootVars, shellVars, userVars
    <2>3. QED
      BY <2>1, <2>2, LaterStepKeeps DEF shellVars
  <1>5. QED
    BY <1>2, <1>3, <1>4

----------------------------------------------------------------------------
LEMMA StutterKeeps == IInv /\ UNCHANGED vars => IInv'
  <1> SUFFICES ASSUME IInv, UNCHANGED vars PROVE IInv'
    OBVIOUS
  <1>1. TypeOK'
    BY DEF IInv, TypeOK, vars, bootVars, screenVars, shellVars, userVars
  <1>2. QED
    BY <1>1, LaterStepKeeps DEF vars, shellVars

LEMMA StepIInv == IInv /\ [Next]_vars => IInv'
  BY BootKeeps, RelayKeyKeeps, ReadFdKeeps, ShellKeeps, JobKeeps, ScreenKeeps, StutterKeeps
     DEF Next, TermMain, ShellMain

(* The inductive invariant of a session, boot included. *)
THEOREM AlwaysIInv == Spec => []IInv
  BY InitIInv, StepIInv, PTL DEF Spec

(* The shell's signals come from the descriptor the terminal sent: the     *)
(* input thread, and so every key, comes after the four bytes.             *)
THEOREM HandshakeHolds == Spec => []HandshakeIntact
  <1>1. IInv => HandshakeIntact
    BY DEF IInv
  <1>2. QED
    BY <1>1, AlwaysIInv, PTL

(* The state keeps its type; in particular nothing but keys reaches the    *)
(* main loop.                                                              *)
THEOREM SessionType == Spec => []TypeOK
  <1>1. IInv => TypeOK
    BY DEF IInv
  <1>2. QED
    BY <1>1, AlwaysIInv, PTL

----------------------------------------------------------------------------
(* The safety half of EveryAnswerIsDrawn: no step drops an answer that the *)
(* user may expect.                                                        *)
InSome(q) == UNION {Range(q[i]) : i \in 1 .. Len(q)}
Passed == Range(out) \cup InSome(queue) \cup rows

(* A key that no line feed precedes. *)
InFront(line, a) ==
  \E i \in 1 .. Len(line) : line[i] = a /\ \A j \in 1 .. Len(line) : j < i => line[j] \notin Enters

(* An answer that is owed is on its way to the screen or parsed, or is a   *)
(* key of the line being typed, which the main loop has yet to answer, so  *)
(* that no drain_stdin and no job takes it; and what is parsed and not in  *)
(* the frame will be drawn.                                                *)
NothingLost ==
  /\ \A a \in owed : a \in Passed \/ (spc \in {"loop", "exited"} /\ InFront(keys \o stdin, a))
  /\ rows # frame => dirty

LEMMA RangeOfAppend ==
  ASSUME NEW S, NEW s \in Seq(S), NEW e \in S
  PROVE  Range(s) \cup {e} \subseteq Range(Append(s, e))
  <1> DEFINE a == Append(s, e)
  <1>1. /\ a \in Seq(S) /\ Len(a) = Len(s) + 1 /\ a[Len(s) + 1] = e
        /\ \A i \in 1 .. Len(s) : a[i] = s[i]
    BY AppendProperties
  <1> HIDE DEF a
  <1>2. Range(s) = {s[i] : i \in 1 .. Len(s)}
    BY RangeEquality
  <1>3. Range(a) = {a[i] : i \in 1 .. Len(a)}
    BY <1>1, RangeEquality
  <1>4. Len(s) + 1 \in 1 .. Len(a) /\ \A i \in 1 .. Len(s) : i \in 1 .. Len(a)
    BY <1>1, LenProperties
  <1>5. QED
    BY <1>1, <1>2, <1>3, <1>4, Zenon DEF a

LEMMA RangeOfCut ==
  ASSUME NEW S, NEW s \in Seq(S), NEW n \in 1 .. Len(s)
  PROVE  Range(s) \subseteq Range(SubSeq(s, 1, n)) \cup Range(SubSeq(s, n + 1, Len(s)))
  <1> DEFINE a == SubSeq(s, 1, n)
             b == SubSeq(s, n + 1, Len(s))
  <1>1. /\ a \in Seq(S) /\ Len(a) = n /\ \A i \in 1 .. n : a[i] = s[i]
        /\ b \in Seq(S) /\ Len(b) = Len(s) - n /\ \A i \in 1 .. Len(s) - n : b[i] = s[i + n]
    BY CutSeq
  <1> HIDE DEF a, b
  <1>2. Range(s) = {s[i] : i \in 1 .. Len(s)} /\ Len(s) \in Nat
    BY RangeEquality, LenProperties
  <1>3. Range(a) = {a[i] : i \in 1 .. n} /\ Range(b) = {b[i] : i \in 1 .. Len(s) - n}
    <2>1. a \in Seq(S) /\ b \in Seq(S)
      BY <1>1
    <2>2. Range(a) = {a[i] : i \in 1 .. Len(a)} /\ Range(b) = {b[i] : i \in 1 .. Len(b)}
      BY <2>1, RangeEquality
    <2>3. QED
      BY <1>1, <2>2, Zenon
  <1>4. ASSUME NEW i \in 1 .. Len(s) PROVE s[i] \in Range(a) \cup Range(b)
    <2>1. CASE i <= n
      <3>1. i \in 1 .. n
        BY <1>2, <2>1
      <3>2. QED
        BY <1>1, <1>3, <3>1
    <2>2. CASE ~(i <= n)
      <3>1. i - n \in 1 .. Len(s) - n /\ (i - n) + n = i
        BY <1>2, <2>2
      <3>2. b[i - n] = s[i]
        BY <1>1, <3>1
      <3>3. QED
        BY <1>3, <3>1, <3>2
    <2>3. QED
      BY <2>1, <2>2
  <1>5. QED
    BY <1>2, <1>4 DEF a, b

LEMMA QueuePushed ==
  ASSUME NEW S, NEW q \in Seq(Seq(S)), NEW p \in Seq(S)
  PROVE  InSome(q) \cup Range(p) \subseteq InSome(Append(q, p))
  <1> DEFINE r == Append(q, p)
  <1>1. /\ Len(r) = Len(q) + 1 /\ Len(q) \in Nat /\ r[Len(q) + 1] = p
        /\ \A i \in 1 .. Len(q) : r[i] = q[i]
    BY AppendProperties, LenProperties
  <1> HIDE DEF r
  <1>2. Len(q) + 1 \in 1 .. Len(r) /\ \A i \in 1 .. Len(q) : i \in 1 .. Len(r)
    BY <1>1
  <1>3. QED
    BY <1>1, <1>2, Zenon DEF InSome, r

LEMMA QueuePopped ==
  ASSUME NEW S, NEW q \in Seq(Seq(S)), q # <<>>
  PROVE  /\ Head(q) \in Seq(S) /\ Tail(q) \in Seq(Seq(S))
         /\ InSome(q) \subseteq Range(Head(q)) \cup InSome(Tail(q))
  <1>1. /\ Head(q) \in Seq(S) /\ Tail(q) \in Seq(Seq(S)) /\ Len(Tail(q)) = Len(q) - 1
        /\ \A i \in 1 .. Len(Tail(q)) : Tail(q)[i] = q[i + 1]
    BY HeadTailProperties
  <1>2. q[1] = Head(q) /\ Len(q) \in Nat
    BY LenProperties
  <1>3. ASSUME NEW i \in 1 .. Len(q)
        PROVE  q[i] = Head(q) \/ \E j \in 1 .. Len(Tail(q)) : q[i] = Tail(q)[j]
    <2>1. CASE i = 1
      BY <1>2, <2>1
    <2>2. CASE i # 1
      <3>1. i - 1 \in 1 .. Len(Tail(q)) /\ (i - 1) + 1 = i
        BY <1>1, <1>2, <2>2
      <3>2. Tail(q)[i - 1] = q[i]
        BY <1>1, <3>1
      <3>3. QED
        BY <3>1, <3>2
    <2>3. QED
      BY <2>1, <2>2
  <1>4. InSome(q) \subseteq Range(Head(q)) \cup InSome(Tail(q))
    BY <1>3, Zenon DEF InSome
  <1>5. QED
    BY <1>1, <1>4

LEMMA RangeOfNone == Range(<<>>) = {}
  BY DEF Range

LEMMA FrontStays ==
  ASSUME NEW S, NEW s \in Seq(S), NEW t \in Seq(S), NEW a, InFront(s, a)
  PROVE  InFront(s \o t, a)
  <1> DEFINE u == s \o t
  <1>1. /\ Len(u) = Len(s) + Len(t) /\ Len(s) \in Nat /\ Len(t) \in Nat
        /\ \A i \in 1 .. Len(s) + Len(t) : u[i] = IF i <= Len(s) THEN s[i] ELSE t[i - Len(s)]
    BY ConcatProperties, LenProperties
  <1> HIDE DEF u
  <1>2. \A i \in 1 .. Len(s) : i \in 1 .. Len(u) /\ u[i] = s[i]
    BY <1>1
  <1>3. PICK i \in 1 .. Len(s) : s[i] = a /\ \A j \in 1 .. Len(s) : j < i => s[j] \notin Enters
    BY DEF InFront
  <1>4. ASSUME NEW j \in 1 .. Len(u), j < i PROVE u[j] \notin Enters
    <2>1. j \in 1 .. Len(s)
      BY <1>1, <1>4
    <2>2. QED
      BY <1>2, <1>3, <1>4, <2>1
  <1>5. InFront(u, a)
    BY <1>2, <1>3, <1>4 DEF InFront
  <1>6. QED
    BY <1>5 DEF u

LEMMA FrontOfEnd ==
  ASSUME NEW S, NEW s \in Seq(S), NEW k \in S, Range(s) \cap Enters = {}
  PROVE  InFront(Append(s, k), k)
  <1> DEFINE t == Append(s, k)
  <1>1. /\ Len(t) = Len(s) + 1 /\ Len(s) \in Nat /\ t[Len(s) + 1] = k
        /\ \A i \in 1 .. Len(s) : t[i] = s[i]
    BY AppendProperties, LenProperties
  <1> HIDE DEF t
  <1>2. \A j \in 1 .. Len(s) : s[j] \in Range(s)
    BY RangeEquality
  <1>3. ASSUME NEW j \in 1 .. Len(t), j < Len(s) + 1 PROVE t[j] \notin Enters
    <2>1. j \in 1 .. Len(s)
      BY <1>1, <1>3
    <2>2. QED
      BY <1>1, <1>2, <2>1
  <1>4. Len(s) + 1 \in 1 .. Len(t)
    BY <1>1
  <1>5. InFront(t, k)
    BY <1>1, <1>3, <1>4 DEF InFront
  <1>6. QED
    BY <1>5 DEF t

LEMMA RangeOfPair ==
  ASSUME NEW s \in Seq(Answers), NEW k \in Keys
  PROVE  Range(s \o <<k, "again">>) = Range(s) \cup {k, "again"}
  <1>1. k \in Answers /\ "again" \in Answers
    BY DEF Answers
  <1>2. <<k, "again">> \in Seq(Answers)
    BY <1>1
  <1>3. Range(<<k, "again">>) = {k, "again"}
    <2>1. Range(<<k, "again">>) = {<<k, "again">>[i] : i \in 1 .. Len(<<k, "again">>)}
      BY <1>2, RangeEquality
    <2>2. Len(<<k, "again">>) = 2 /\ 1 .. 2 = {1, 2}
      OBVIOUS
    <2>3. Range(<<k, "again">>) = {<<k, "again">>[i] : i \in {1, 2}}
      BY <2>1, <2>2, Zenon
    <2>4. QED
      BY <2>3
  <1>4. Range(s \o <<k, "again">>) = Range(s) \cup Range(<<k, "again">>)
    BY <1>2, RangeConcatenation, ZenonT(40)
  <1>5. QED
    BY <1>3, <1>4, Zenon

LEMMA Associates ==
  ASSUME NEW S, NEW s \in Seq(S), NEW t \in Seq(S), NEW u \in Seq(S)
  PROVE  (s \o t) \o u = s \o (t \o u)
  BY ConcatAssociative

LEMMA LineGrows ==
  ASSUME NEW S, NEW s \in Seq(S), NEW t \in Seq(S), NEW k \in S
  PROVE  s \o Append(t, k) = Append(s \o t, k) /\ s \o t \in Seq(S)
  <1>1. s \o t \in Seq(S) /\ <<k>> \in Seq(S)
    BY ConcatProperties
  <1>2. Append(t, k) = t \o <<k>> /\ Append(s \o t, k) = (s \o t) \o <<k>>
    BY <1>1, AppendIsConcat
  <1>3. QED
    BY <1>1, <1>2, Associates

LEMMA FrontOfRest ==
  ASSUME NEW S, NEW s \in Seq(S), s # <<>>, NEW a, InFront(s, a)
  PROVE  a = Head(s) \/ (Head(s) \notin Enters /\ InFront(Tail(s), a))
  <1>1. /\ Len(Tail(s)) = Len(s) - 1 /\ Len(s) \in Nat
        /\ \A i \in 1 .. Len(Tail(s)) : Tail(s)[i] = s[i + 1]
    BY HeadTailProperties, LenProperties
  <1>2. PICK i \in 1 .. Len(s) : s[i] = a /\ \A j \in 1 .. Len(s) : j < i => s[j] \notin Enters
    BY DEF InFront
  <1>3. Head(s) = s[1]
    OBVIOUS
  <1>4. CASE i = 1
    BY <1>2, <1>3, <1>4
  <1>5. CASE i # 1
    <2>1. 1 \in 1 .. Len(s) /\ 1 < i
      BY <1>1, <1>5
    <2>2. Head(s) \notin Enters
      BY <1>2, <1>3, <2>1
    <2>3. i - 1 \in 1 .. Len(Tail(s)) /\ (i - 1) + 1 = i
      BY <1>1, <1>5
    <2>4. Tail(s)[i - 1] = a
      BY <1>1, <1>2, <2>3
    <2>5. ASSUME NEW j \in 1 .. Len(Tail(s)), j < i - 1 PROVE Tail(s)[j] \notin Enters
      <3>1. j + 1 \in 1 .. Len(s) /\ j + 1 < i
        BY <1>1, <1>5, <2>5
      <3>2. s[j + 1] \notin Enters
        BY <1>2, <3>1
      <3>3. QED
        BY <1>1, <3>2
    <2>6. InFront(Tail(s), a)
      BY <2>3, <2>4, <2>5 DEF InFront
    <2>7. QED
      BY <2>2, <2>6
  <1>6. QED
    BY <1>4, <1>5

(* Head and tail of a line are those of the part already read. *)
LEMMA LineAnswered ==
  ASSUME NEW S, NEW s \in Seq(S), s # <<>>, NEW t \in Seq(S)
  PROVE  /\ s \o t \in Seq(S) /\ s \o t # <<>>
         /\ Head(s \o t) = Head(s) /\ Tail(s \o t) = Tail(s) \o t
  <1> DEFINE u == s \o t
             v == Tail(s) \o t
  <1>1. /\ Len(s) \in Nat /\ Len(s) > 0 /\ Len(t) \in Nat /\ Head(s) = s[1]
        /\ Tail(s) \in Seq(S) /\ Len(Tail(s)) = Len(s) - 1
        /\ \A i \in 1 .. Len(s) - 1 : Tail(s)[i] = s[i + 1]
    BY HeadTailProperties, LenProperties, EmptySeq
  <1>2. /\ u \in Seq(S) /\ Len(u) = Len(s) + Len(t)
        /\ \A i \in 1 .. Len(s) + Len(t) : u[i] = IF i <= Len(s) THEN s[i] ELSE t[i - Len(s)]
    BY ConcatProperties
  <1>3. /\ v \in Seq(S) /\ Len(v) = (Len(s) - 1) + Len(t)
        /\ \A i \in 1 .. (Len(s) - 1) + Len(t) :
             v[i] = IF i <= Len(s) - 1 THEN Tail(s)[i] ELSE t[i - (Len(s) - 1)]
    BY <1>1, ConcatProperties
  <1> HIDE DEF u, v
  <1>4. u # <<>>
    BY <1>1, <1>2, EmptySeq
  <1>5. u[1] = s[1] /\ Head(u) = u[1]
    BY <1>1, <1>2, <1>4
  <1>6. /\ Tail(u) \in Seq(S) /\ Len(Tail(u)) = Len(u) - 1
        /\ \A i \in 1 .. Len(Tail(u)) : Tail(u)[i] = u[i + 1]
    BY <1>2, <1>4, HeadTailProperties
  <1>7. Len(Tail(u)) = Len(v)
    BY <1>1, <1>2, <1>3, <1>6
  <1>8. ASSUME NEW i \in 1 .. Len(Tail(u)) PROVE Tail(u)[i] = v[i]
    <2>1. i \in Nat /\ i + 1 \in 1 .. Len(s) + Len(t) /\ i \in 1 .. (Len(s) - 1) + Len(t)
      BY <1>1, <1>2, <1>6
    <2>2. CASE i <= Len(s) - 1
      <3>1. u[i + 1] = s[i + 1] /\ v[i] = Tail(s)[i] /\ i \in 1 .. Len(s) - 1
        BY <1>1, <1>2, <1>3, <2>1, <2>2
      <3>2. QED
        BY <1>1, <1>6, <3>1
    <2>3. CASE ~(i <= Len(s) - 1)
      <3>1. ~(i + 1 <= Len(s)) /\ (i + 1) - Len(s) = i - (Len(s) - 1)
        BY <1>1, <2>1, <2>3
      <3>2. u[i + 1] = t[(i + 1) - Len(s)] /\ v[i] = t[i - (Len(s) - 1)]
        BY <1>2, <1>3, <2>1, <2>3, <3>1
      <3>3. QED
        BY <1>6, <3>1, <3>2
    <2>4. QED
      BY <2>2, <2>3
  <1>9. Tail(u) = v
    BY <1>3, <1>6, <1>7, <1>8, SeqEqual
  <1>10. QED
    BY <1>1, <1>2, <1>4, <1>5, <1>9 DEF u, v

(* Reading part of the line leaves it the same line. *)
LEMMA LineRead ==
  ASSUME NEW S, NEW s \in Seq(S), NEW n \in 1 .. Len(s)
  PROVE  SubSeq(s, 1, n) \o SubSeq(s, n + 1, Len(s)) = <<>> \o s
  <1>1. Len(s) \in Nat /\ 1 \in 1 .. Len(s) + 1 /\ n \in 0 .. Len(s) /\ Len(s) \in n .. Len(s)
    BY LenProperties
  <1>2. SubSeq(s, 1, n) \o SubSeq(s, n + 1, Len(s)) = SubSeq(s, 1, Len(s))
    <2>1. n \in 1 - 1 .. Len(s)
      BY <1>1
    <2>2. QED
      BY <1>1, <2>1, ConcatAdjacentSubSeq
  <1>3. QED
    BY <1>2, SubSeqFull, ConcatEmptySeq

(* A step that leaves the screen, the queue and the answers owed alone, and *)
(* what the main loop has yet to answer too.                                *)
LEMMA QuietStepLosesNothing ==
  ASSUME NothingLost, UNCHANGED <<screenVars, owed, out, queue>>,
         \/ UNCHANGED <<keys, stdin>> /\ (spc' = spc \/ spc' = "exited")
         \/ spc \notin {"loop", "exited"}
  PROVE  NothingLost'
  <1>1. Passed' = Passed
    BY DEF Passed, InSome, screenVars
  <1>2. owed' = owed /\ (rows # frame => dirty)'
    BY DEF NothingLost, screenVars
  <1>3. CASE spc \notin {"loop", "exited"}
    BY <1>1, <1>2, <1>3 DEF NothingLost
  <1>4. CASE UNCHANGED <<keys, stdin>> /\ (spc' = spc \/ spc' = "exited")
    <2>1. ASSUME NEW a \in owed, a \notin Passed
          PROVE  spc' \in {"loop", "exited"} /\ InFront(keys' \o stdin', a)
      BY <1>4, <2>1 DEF NothingLost
    <2>2. QED
      BY <1>1, <1>2, <2>1 DEF NothingLost
  <1>5. QED
    BY <1>3, <1>4

(* A step that shows one more answer, and may owe it. *)
LEMMA ShownIsPassed ==
  ASSUME IInv, NothingLost, spc \notin {"loop", "exited"}, NEW answer \in Answers,
         Shows(answer), UNCHANGED <<screenVars, queue>>
  PROVE  NothingLost'
  <1>1. owed \subseteq Passed /\ (rows # frame => dirty)'
    BY DEF NothingLost, screenVars
  <1>2. Range(out) \cup {answer} \subseteq Range(out')
    <2>1. out \in Seq(Answers)
      BY DEF IInv, TypeOK
    <2>2. QED
      BY <2>1, RangeOfAppend DEF Shows
  <1>3. owed' \subseteq Passed'
    BY <1>1, <1>2 DEF Shows, Passed, InSome, screenVars
  <1>4. QED
    BY <1>1, <1>3 DEF NothingLost

LEMMA ShellLosesNothing ==
  ASSUME IInv, NothingLost, ShellMain \/ ShellPanics
  PROVE  NothingLost'
  <1>1. TypeOK /\ OnlyKeys
    BY DEF IInv
  <1>2. CASE ReadFd \/ DrainStdin
    <2>1. spc \in {"init", "drain", "redrain"} /\ UNCHANGED <<screenVars, owed, out, queue>>
      BY <1>2 DEF ReadFd, DrainStdin, userVars
    <2>2. QED
      BY <2>1, QuietStepLosesNothing
  <1>3. CASE Prompt
    BY <1>3, ShownIsPassed DEF Prompt, Answers
  <1>4. CASE DrainEnds
    <2>1. CASE spc = "redrain" /\ Shows("again")
      BY <1>4, <2>1, ShownIsPassed DEF DrainEnds, Answers
    <2>2. CASE spc = "drain" /\ UNCHANGED <<out, owed>>
      BY <1>4, <2>2, QuietStepLosesNothing DEF DrainEnds
    <2>3. QED
      BY <1>4, <2>1, <2>2 DEF DrainEnds
  <1>5. CASE ReadKeys
    <2>1. /\ spc = "loop" /\ keys = <<>>
          /\ UNCHANGED <<screenVars, spc, owed, out, queue>>
      BY <1>5 DEF ReadKeys, userVars
    <2>2. stdin \in Seq(Keys)
      BY <1>1, <2>1 DEF OnlyKeys
    <2>3. keys' \o stdin' = keys \o stdin
      BY <1>5, <2>1, <2>2, LineRead DEF ReadKeys
    <2>4. Passed' = Passed
      BY <2>1 DEF Passed, InSome, screenVars
    <2>5. ASSUME NEW a \in owed, a \notin Passed
          PROVE  spc' \in {"loop", "exited"} /\ InFront(keys' \o stdin', a)
      BY <2>1, <2>3, <2>5 DEF NothingLost
    <2>6. QED
      BY <2>1, <2>4, <2>5 DEF NothingLost, screenVars
  <1>6. CASE AnswerKey \/ Linefeed
    <2>1. /\ spc = "loop" /\ keys # <<>> /\ keys' = Tail(keys)
          /\ UNCHANGED <<screenVars, stdin, queue>>
      BY <1>6 DEF AnswerKey, Linefeed
    <2>2. keys \in Seq(Keys) /\ stdin \in Seq(Keys) /\ Head(keys) \in Keys /\ out \in Seq(Answers)
      BY <1>1, <2>1, HeadTailProperties DEF TypeOK, OnlyKeys
    <2>3. /\ keys \o stdin \in Seq(Keys) /\ keys \o stdin # <<>>
          /\ Head(keys \o stdin) = Head(keys) /\ Tail(keys \o stdin) = keys' \o stdin'
      BY <2>1, <2>2, LineAnswered
    <2>4. Range(out) \cup {Head(keys)} \subseteq Range(out')
      <3>1. Head(keys) \in Answers /\ <<Head(keys), "again">> \in Seq(Answers)
        BY <2>2 DEF Answers
      <3>2. CASE out' = Append(out, Head(keys))
        BY <2>2, <3>1, <3>2, RangeOfAppend
      <3>3. CASE out' = out \o <<Head(keys), "again">>
        BY <2>2, <3>3, RangeOfPair
      <3>4. QED
        BY <1>6, <3>2, <3>3 DEF AnswerKey, Linefeed
    <2>5. Passed \cup {Head(keys)} \subseteq Passed'
      BY <2>1, <2>4 DEF Passed, InSome, screenVars
    <2>6. ASSUME NEW a \in owed, a \notin Passed'
          PROVE  Head(keys) \notin Enters /\ InFront(keys' \o stdin', a)
      <3>1. a # Head(keys) /\ InFront(keys \o stdin, a)
        BY <2>1, <2>5, <2>6 DEF NothingLost
      <3>2. QED
        BY <2>3, <3>1, FrontOfRest
    <2>7. CASE AnswerKey
      BY <2>1, <2>6, <2>7 DEF AnswerKey, NothingLost, userVars, screenVars
    <2>8. CASE Linefeed
      <3>1. owed \subseteq Passed'
        BY <2>6, <2>8 DEF Linefeed
      <3>2. owed' \subseteq Passed'
        <4>1. CASE UNCHANGED owed
          BY <3>1, <4>1
        <4>2. CASE out' = out \o <<Head(keys), "again">> /\ owed' = owed \cup {"again"}
          <5>1. "again" \in Range(out')
            BY <2>2, <4>2, RangeOfPair
          <5>2. QED
            BY <3>1, <4>2, <5>1 DEF Passed
        <4>3. QED
          BY <2>8, <4>1, <4>2 DEF Linefeed
      <3>3. QED
        BY <2>1, <3>2 DEF NothingLost, screenVars
    <2>9. QED
      BY <1>6, <2>7, <2>8
  <1>7. CASE ShellPanics
    <2>1. /\ spc' = "exited" /\ UNCHANGED <<keys, stdin, screenVars, owed, out, queue>>
      BY <1>7 DEF ShellPanics, userVars
    <2>2. QED
      BY <2>1, QuietStepLosesNothing
  <1>8. QED
    BY <1>2, <1>3, <1>4, <1>5, <1>6, <1>7 DEF ShellMain

LEMMA JobLosesNothing ==
  ASSUME IInv, NothingLost, Job
  PROVE  NothingLost'
  <1>1. spc = "job"
    BY DEF Job, JobWrites, JobReads, JobEnds
  <1>2. CASE JobWrites
    BY <1>1, <1>2, ShownIsPassed DEF JobWrites, Answers
  <1>3. CASE JobReads \/ JobEnds
    <2>1. UNCHANGED <<screenVars, owed, out, queue>>
      BY <1>3 DEF JobReads, JobEnds, userVars
    <2>2. QED
      BY <1>1, <2>1, QuietStepLosesNothing
  <1>4. QED
    BY <1>2, <1>3 DEF Job

(* A step that at most moves answers on towards the screen. *)
LEMMA PassingStepLosesNothing ==
  ASSUME NothingLost, UNCHANGED <<spc, keys, stdin, owed>>, Passed \subseteq Passed',
         (rows # frame => dirty)'
  PROVE  NothingLost'
  <1>1. ASSUME NEW a \in owed, a \notin Passed'
        PROVE  spc' \in {"loop", "exited"} /\ InFront(keys' \o stdin', a)
    BY <1>1 DEF NothingLost
  <1>2. QED
    BY <1>1 DEF NothingLost

LEMMA ScreenLosesNothing ==
  ASSUME IInv, NothingLost, ReadStdout \/ ProcessEvents \/ Flush
  PROVE  NothingLost'
  <1>1. /\ out \in Seq(Answers) /\ queue \in Seq(Seq(Answers)) /\ (rows # frame => dirty)
    BY DEF IInv, TypeOK, NothingLost
  <1>2. CASE ReadStdout
    <2>1. UNCHANGED <<owed, keys, stdin, spc, rows, dirty, frame>>
      BY <1>2 DEF ReadStdout, screenVars, shellVars, userVars
    <2>2. Range(out) \cup InSome(queue) \subseteq Range(out') \cup InSome(queue')
      <3>1. CASE out' = out /\ queue' = Append(queue, <<>>)
        <4>1. <<>> \in Seq(Answers)
          OBVIOUS
        <4>2. InSome(queue) \subseteq InSome(queue')
          BY <1>1, <3>1, <4>1, QueuePushed
        <4>3. QED
          BY <3>1, <4>2
      <3>2. CASE \E n \in 1 .. Len(out) : /\ queue' = Append(queue, SubSeq(out, 1, n))
                                          /\ out' = SubSeq(out, n + 1, Len(out))
        <4>1. PICK n \in 1 .. Len(out) : /\ queue' = Append(queue, SubSeq(out, 1, n))
                                         /\ out' = SubSeq(out, n + 1, Len(out))
          BY <3>2
        <4>2. Range(out) \subseteq Range(SubSeq(out, 1, n)) \cup Range(out')
          BY <1>1, <4>1, RangeOfCut
        <4>3. SubSeq(out, 1, n) \in Seq(Answers)
          BY <1>1, CutSeq
        <4>4. InSome(queue) \cup Range(SubSeq(out, 1, n)) \subseteq InSome(queue')
          BY <1>1, <4>1, <4>3, QueuePushed
        <4>5. QED
          BY <4>2, <4>4
      <3>3. QED
        BY <1>2, <3>1, <3>2 DEF ReadStdout
    <2>3. Passed \subseteq Passed'
      BY <2>1, <2>2 DEF Passed
    <2>4. QED
      BY <1>1, <2>1, <2>3, PassingStepLosesNothing
  <1>3. CASE ProcessEvents
    <2>1. /\ UNCHANGED <<owed, keys, stdin, spc, out, frame>> /\ queue # <<>>
          /\ queue' = Tail(queue) /\ rows' = rows \cup Range(Head(queue))
          /\ dirty' = (dirty \/ Head(queue) # <<>>)
      BY <1>3 DEF ProcessEvents, shellVars, userVars
    <2>2. /\ Head(queue) \in Seq(Answers)
          /\ InSome(queue) \subseteq Range(Head(queue)) \cup InSome(queue')
      BY <1>1, <2>1, QueuePopped
    <2>3. Passed \subseteq Passed'
      BY <2>1, <2>2 DEF Passed
    <2>4. rows' # frame' => dirty'
      <3>1. CASE Head(queue) = <<>>
        BY <1>1, <2>1, <3>1, RangeOfNone
      <3>2. CASE Head(queue) # <<>>
        BY <2>1, <3>2
      <3>3. QED
        BY <3>1, <3>2
    <2>5. QED
      BY <2>1, <2>3, <2>4, PassingStepLosesNothing
  <1>4. CASE Flush
    <2>1. UNCHANGED <<rows, spc, keys, owed, stdin, out, queue>> /\ frame' = rows
      BY <1>4 DEF Flush, shellVars, userVars
    <2>2. Passed' = Passed
      BY <2>1 DEF Passed, InSome
    <2>3. QED
      BY <2>1, <2>2, PassingStepLosesNothing
  <1>5. QED
    BY <1>2, <1>3, <1>4

LEMMA InputLosesNothing ==
  ASSUME IInv, NothingLost,
         \/ SpawnShell \/ HookKeyboard \/ SendFd \/ StartThread \/ BootFails
         \/ \E key \in Keys : RelayKey(key)
  PROVE  NothingLost'
  <1>1. stdin \in Seq(Bytes) /\ keys \in Seq(Bytes)
    <2>1. Seq(Keys) \subseteq Seq(Bytes)
      BY KeysAreBytes DEF Bytes
    <2>2. QED
      BY <2>1 DEF IInv, TypeOK, Bytes
  <1>2. CASE SpawnShell
    <2>1. spc = "none" /\ UNCHANGED <<screenVars, owed, out, queue>>
      BY <1>2 DEF SpawnShell, userVars, IInv, QuietBoot
    <2>2. QED
      BY <2>1, QuietStepLosesNothing
  <1>3. CASE HookKeyboard \/ StartThread \/ BootFails
    <2>1. UNCHANGED <<spc, keys, stdin, screenVars, owed, out, queue>>
      BY <1>3 DEF HookKeyboard, StartThread, BootFails, userVars, shellVars
    <2>2. QED
      BY <2>1, QuietStepLosesNothing
  <1>4. CASE SendFd
    <2>1. UNCHANGED <<spc, keys, screenVars, owed, out, queue>> /\ stdin' = stdin \o FdBytes
      BY <1>4 DEF SendFd, userVars, shellVars
    <2>2. keys' \o stdin' = (keys \o stdin) \o FdBytes /\ keys \o stdin \in Seq(Bytes)
      <3>1. keys \in Seq(Bytes) /\ stdin \in Seq(Bytes) /\ FdBytes \in Seq(Bytes)
        BY <1>1, FdBytesType
      <3>2. (keys \o stdin) \o FdBytes = keys \o (stdin \o FdBytes)
        <4>1. PICK S : S = Bytes
          OBVIOUS
        <4>2. keys \in Seq(S) /\ stdin \in Seq(S) /\ FdBytes \in Seq(S)
          BY <3>1, <4>1
        <4>3. \A s, t, u \in Seq(S) : (s \o t) \o u = s \o (t \o u)
          BY Associates
        <4>4. QED
          BY <4>2, <4>3
      <3>3. keys \o stdin \in Seq(Bytes)
        BY <3>1, ConcatProperties, Zenon
      <3>4. keys' = keys /\ stdin' = stdin \o FdBytes
        BY <2>1
      <3>5. keys' \o stdin' = keys \o (stdin \o FdBytes)
        BY <3>4
      <3>6. QED
        BY <3>2, <3>3, <3>5
    <2>3. ASSUME NEW a \in owed, a \notin Passed
          PROVE  spc' \in {"loop", "exited"} /\ InFront(keys' \o stdin', a)
      <3>1. spc \in {"loop", "exited"} /\ InFront(keys \o stdin, a)
        BY <2>3 DEF NothingLost
      <3>2. QED
        BY <2>1, <2>2, <3>1, FdBytesType, FrontStays
    <2>4. Passed' = Passed
      BY <2>1 DEF Passed, InSome, screenVars
    <2>5. QED
      BY <2>1, <2>3, <2>4 DEF NothingLost, screenVars
  <1>5. ASSUME NEW key \in Keys, RelayKey(key) PROVE NothingLost'
    <2>1. /\ stdin' = Append(stdin, key) /\ UNCHANGED <<spc, keys, out, queue, screenVars>>
          /\ owed' = IF IntoLine THEN owed \cup {key} ELSE owed
      BY <1>5 DEF RelayKey, Relayed, shellVars
    <2>2. Passed' = Passed
      BY <2>1 DEF Passed, InSome, screenVars
    <2>3. keys' \o stdin' = Append(keys \o stdin, key) /\ keys \o stdin \in Seq(Bytes)
      BY <1>1, <2>1, LineGrows DEF Bytes
    <2>4. ASSUME NEW a \in owed', a \notin Passed'
          PROVE  spc' \in {"loop", "exited"} /\ InFront(keys' \o stdin', a)
      <3>1. CASE a \in owed
        <4>1. spc \in {"loop", "exited"} /\ InFront(keys \o stdin, a)
          BY <2>2, <2>4, <3>1 DEF NothingLost
        <4>2. QED
          <5>1. key \in Bytes /\ <<key>> \in Seq(Bytes)
            BY DEF Bytes
          <5>2. Append(keys \o stdin, key) = (keys \o stdin) \o <<key>>
            BY <2>3, <5>1, AppendIsConcat
          <5>3. InFront((keys \o stdin) \o <<key>>, a)
            BY <2>3, <4>1, <5>1, FrontStays
          <5>4. QED
            BY <2>1, <2>3, <4>1, <5>2, <5>3
      <3>2. CASE a \notin owed
        <4>1. IntoLine /\ a = key
          BY <2>1, <2>4, <3>2
        <4>2. QED
          BY <2>1, <2>3, <4>1, FrontOfEnd DEF IntoLine, Bytes
      <3>3. QED
        BY <3>1, <3>2
    <2>5. QED
      BY <2>1, <2>2, <2>4 DEF NothingLost, screenVars
  <1>6. QED
    BY <1>2, <1>3, <1>4, <1>5

(* No pipe, queue or flush, no drain_stdin and no job drops an answer that *)
(* is owed: however reads cut the streams, however many lines are run and  *)
(* whatever fails, it is still a key of the line being typed, on its way   *)
(* or drawn.                                                               *)
THEOREM NoAnswerIsLost == Spec => []NothingLost
  <1>1. Init => NothingLost
    <2> SUFFICES ASSUME Init PROVE NothingLost
      OBVIOUS
    <2>1. owed = {} /\ dirty
      BY DEF Init
    <2>2. QED
      BY <2>1 DEF NothingLost
  <1>2. IInv /\ NothingLost /\ [Next]_vars => NothingLost'
    <2> SUFFICES ASSUME IInv, NothingLost, [Next]_vars PROVE NothingLost'
      OBVIOUS
    <2>1. CASE UNCHANGED vars
      <3>1. UNCHANGED <<screenVars, spc, keys, owed, stdin, out, queue>>
        BY <2>1 DEF vars, shellVars, userVars
      <3>2. QED
        BY <3>1, QuietStepLosesNothing
    <2>2. QED
      BY <2>1, ShellLosesNothing, JobLosesNothing, ScreenLosesNothing, InputLosesNothing
         DEF Next, TermMain, ShellMain
  <1>3. QED
    BY <1>1, <1>2, AlwaysIInv, PTL DEF Spec
=============================================================================
