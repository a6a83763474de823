-------------------------- MODULE JobControlProofs --------------------------
(* JobControl's invariants, for any number of processes, stages and keys   *)
(* and any set of system calls the kernel may refuse.                      *)
EXTENDS JobControl, SequenceTheorems, WellFoundedInduction, TLAPS

InWait == mpc \in {"set_bg", "wait", "clear"}

(* The mutex over active_exec_ctx and the threads' program counters.       *)
LockHeld ==
  /\ lock = "signal" <=> spc = "kill"
  /\ lock = "main" <=> mpc = "kill"
  /\ lock = "free" => victims = <<>>
  /\ lock # "free" => ctx = None
  /\ lock = "signal" => InWait
  /\ Range(victims) \subseteq Range(job)

(* Every running process belongs to the job main works on, was left by one  *)
(* that failed to start, or was passed over twice.                         *)
LeftBehind == orphans \cup (spared \cap unwaited)

Accounted ==
  /\ mpc = "spawn" => stages # 0
  /\ Running \subseteq LeftBehind \cup Range(job)
  /\ PromptMeansJobDone

(* What main has waited for has exited, but for what a refused wait made    *)
(* it pass over.                                                           *)
Waited ==
  /\ mpc \in {"clear", "kill"} => waiting = <<>>
  /\ mpc \in {"wait", "clear", "kill"}
       => Running \cap Range(job) \subseteq Range(waiting) \cup unwaited

(* What is left of a job whose context was taken is about to be killed, but *)
(* for what a refused kill made kill_all pass over.                        *)
Taken ==
  (InWait \/ mpc = "kill") /\ ctx = None
    => Running \cap Range(job) \subseteq Range(victims) \cup spared

IInv ==
  /\ ThreadTypeOK /\ CtxIsCurrentJob /\ LockHeld
  /\ Accounted /\ Waited /\ Taken

----------------------------------------------------------------------------
(* Sequences of processes as sets. *)
LEMMA RangeOfTail ==
  ASSUME NEW S, NEW s \in Seq(S), s # <<>>
  PROVE  /\ Head(s) \in S /\ Tail(s) \in Seq(S)
         /\ Range(s) = {Head(s)} \cup Range(Tail(s))
  <1>1. Head(s) \in S /\ Tail(s) \in Seq(S)
    BY HeadTailProperties
  <1>2. Len(s) \in Nat \ {0} /\ Len(Tail(s)) = Len(s) - 1
    BY EmptySeq, HeadTailProperties
  <1>3. s[1] = Head(s) /\ \A i \in 1 .. Len(Tail(s)) : Tail(s)[i] = s[i + 1]
    BY HeadTailProperties
  <1>4. /\ Range(s) = {s[i] : i \in 1 .. Len(s)}
        /\ Range(Tail(s)) = {Tail(s)[i] : i \in 1 .. Len(Tail(s))}
    BY <1>1, RangeEquality
  <1>5. ASSUME NEW i \in 1 .. Len(s) PROVE s[i] \in {Head(s)} \cup Range(Tail(s))
    <2>1. CASE i = 1
      BY <1>3, <2>1
    <2>2. CASE i # 1
      <3>1. i - 1 \in 1 .. Len(Tail(s)) /\ (i - 1) + 1 = i
        BY <1>2, <2>2
      <3>2. QED
        BY <1>3, <1>4, <3>1
    <2>3. QED
      BY <2>1, <2>2
  <1>6. ASSUME NEW i \in 1 .. Len(Tail(s)) PROVE Tail(s)[i] \in Range(s)
    <2>1. i + 1 \in 1 .. Len(s)
      BY <1>2
    <2>2. QED
      BY <1>3, <1>4, <2>1
  <1>7. Head(s) \in Range(s)
    BY <1>2, <1>3, <1>4
  <1>8. QED
    BY <1>1, <1>4, <1>5, <1>6, <1>7

LEMMA RangeOfEmpty == Range(<<>>) = {}
  BY DEF Range

LEMMA RangeOfPush ==
  ASSUME NEW S, NEW s \in Seq(S), NEW e \in S
  PROVE  /\ s \o <<e>> \in Seq(S) /\ Range(s \o <<e>>) = Range(s) \cup {e}
         /\ s \o <<>> = s
  <1>1. <<e>> \in Seq(S) /\ Len(<<e>>) = 1 /\ <<e>>[1] = e
    OBVIOUS
  <1>2. Range(<<e>>) = {<<e>>[i] : i \in 1 .. 1}
    BY <1>1, RangeEquality
  <1>3. Range(<<e>>) = {e}
    BY <1>1, <1>2
  <1>4. s \o <<e>> \in Seq(S)
    BY <1>1, ConcatProperties
  <1>5. Range(s \o <<e>>) = Range(s) \cup Range(<<e>>)
    BY <1>1, RangeConcatenation
  <1>6. s \o <<>> = s
    BY ConcatEmptySeq
  <1>7. QED
    BY <1>3, <1>4, <1>5, <1>6

----------------------------------------------------------------------------
LEMMA InitIInv == Init => IInv
  <1> SUFFICES ASSUME Init PROVE IInv
    OBVIOUS
  <1>1. <<>> \in Seq(Pids) /\ <<>> \in Seq(Keys) /\ 0 \in 0 .. MaxKeys /\ 0 \in 0 .. MaxStages
    BY ConstantsAssumption, EmptySeq
  <1>2. proc \in [Pids -> Lives]
    BY DEF Init, Lives
  <1>3. ThreadTypeOK
    BY <1>1, <1>2 DEF Init, ThreadTypeOK, MainPCs, SignalPCs
  <1>4. Range(<<>>) = {} /\ Running = {}
    BY RangeOfEmpty DEF Init, Running
  <1>5. CtxIsCurrentJob /\ Waited /\ Taken
    BY <1>4 DEF Init, CtxIsCurrentJob, Waited, Taken, InWait
  <1>6. LockHeld
    BY <1>4 DEF Init, LockHeld
  <1>7. Accounted
    BY <1>4 DEF Init, Accounted, PromptMeansJobDone, LeftBehind
  <1>8. QED
    BY <1>3, <1>5, <1>6, <1>7 DEF IInv

----------------------------------------------------------------------------
(* The types of the input thread's variables. *)
LEMMA InputTypes ==
  ASSUME ThreadTypeOK, Input
  PROVE  ThreadTypeOK'
  <1>1. CASE ReadKeyboard
    <2>1. PICK chunk \in Chunks :
            /\ typed + Len(chunk) <= MaxKeys /\ typed' = typed + Len(chunk)
            /\ inbuf' = chunk
      BY <1>1 DEF ReadKeyboard
    <2>2. chunk \in Seq(Keys)
      <3>1. ASSUME NEW k \in Keys, NEW l \in Keys
            PROVE  <<k>> \in Seq(Keys) /\ <<k, l>> \in Seq(Keys)
        OBVIOUS
      <3>2. (\E k \in Keys : chunk = <<k>>) \/ (\E k \in Keys, l \in Keys : chunk = <<k, l>>)
        BY DEF Chunks
      <3>3. QED
        BY <3>1, <3>2, Zenon
    <2>3. Len(chunk) \in Nat
      BY <2>2, LenProperties
    <2>4. typed' \in 0 .. MaxKeys
      BY <2>1, <2>3, ConstantsAssumption DEF ThreadTypeOK
    <2>5. QED
      BY <1>1, <2>1, <2>2, <2>4 DEF ReadKeyboard, ThreadTypeOK, mainVars, sharedVars, passedVars
  <1>2. CASE RelaySignals
    BY <1>2 DEF RelaySignals, ThreadTypeOK, mainVars, sharedVars, passedVars
  <1>3. CASE RelayBytes
    <2>1. stdin \o inbuf \in Seq(Keys) /\ <<>> \in Seq(Keys)
      BY ConcatProperties, EmptySeq DEF ThreadTypeOK
    <2>2. QED
      BY <1>3, <2>1 DEF RelayBytes, ThreadTypeOK, mainVars, sharedVars, passedVars
  <1>4. QED
    BY <1>1, <1>2, <1>3 DEF Input

(* The input thread touches nothing the other parts of IInv read. *)
LEMMA InputStep ==
  ASSUME IInv, Input
  PROVE  IInv'
  <1>1. ThreadTypeOK'
    BY InputTypes DEF IInv
  <1>2. UNCHANGED <<mainVars, spc, sharedVars, passedVars>>
    BY DEF Input, ReadKeyboard, RelaySignals, RelayBytes
  <1>3. QED
    BY <1>1, <1>2
    DEF IInv, mainVars, sharedVars, passedVars, CtxIsCurrentJob, LockHeld, Accounted,
        PromptMeansJobDone, LeftBehind, Waited, Taken, InWait, Running

(* What a kill does to the set of running processes: whoever is no longer   *)
(* to be killed does not run, or was passed over.                          *)
LEMMA KillOneStep ==
  ASSUME IInv, KillOne
  PROVE  /\ proc' \in [Pids -> Lives] /\ victims' \in Seq(Pids)
         /\ Range(victims') \subseteq Range(victims)
         /\ Running' \subseteq Running
         /\ Running' \cap Range(victims) \subseteq Range(victims') \cup spared'
         /\ spared \subseteq spared' /\ spared' \subseteq Pids
         /\ UNCHANGED unwaited
  <1>1. /\ victims \in Seq(Pids) /\ victims # <<>> /\ proc \in [Pids -> Lives]
        /\ spared \subseteq Pids /\ UNCHANGED unwaited
    BY DEF IInv, ThreadTypeOK, KillOne
  <1>2. /\ Head(victims) \in Pids /\ Tail(victims) \in Seq(Pids)
        /\ Range(victims) = {Head(victims)} \cup Range(Tail(victims))
    BY <1>1, RangeOfTail
  <1>3. CASE proc' = Dying(Head(victims)) /\ victims' = Tail(victims) /\ UNCHANGED spared
    <2>1. proc' = [proc EXCEPT ![Head(victims)] = IF @ = "running" THEN "killed" ELSE @]
      BY <1>3 DEF Dying
    <2>2. proc' \in [Pids -> Lives]
      BY <1>1, <1>2, <2>1 DEF Lives
    <2>3. Running' = Running \ {Head(victims)}
      BY <1>1, <1>2, <2>1 DEF Running
    <2>4. QED
      BY <1>1, <1>2, <1>3, <2>2, <2>3
  <1>4. CASE /\ MayRefuseKill(Head(victims)) /\ victims' = <<>> /\ UNCHANGED proc
             /\ spared' = spared \cup Range(Tail(victims))
    <2>1. Running' = Running /\ Head(victims) \notin Running
      BY <1>4 DEF Running, MayRefuseKill
    <2>2. Range(Tail(victims)) \subseteq Pids
      BY <1>2, RangeOfSeq
    <2>3. Range(victims') = {} /\ victims' \in Seq(Pids)
      BY <1>4, RangeOfEmpty, EmptySeq
    <2>4. QED
      BY <1>1, <1>2, <1>4, <2>1, <2>2, <2>3
  <1>5. QED
    BY <1>3, <1>4 DEF KillOne

----------------------------------------------------------------------------
(* The signal thread and the kernel. *)
LEMMA SignalStep ==
  ASSUME IInv, Signal
  PROVE  IInv'
  <1>0. /\ ThreadTypeOK /\ CtxIsCurrentJob /\ LockHeld /\ Accounted /\ Waited /\ Taken
        /\ UNCHANGED <<mainVars, typed, inbuf, relayed, stdin>>
    BY DEF IInv, Signal, ReadSignal, SignalIsFg, SignalGetCtx, SignalClears, SignalKills,
           SignalSetFg, inputVars
  <1>1. CASE ReadSignal \/ SignalIsFg \/ SignalGetCtx \/ SignalSetFg
    <2>1. /\ UNCHANGED <<ctx, lock, victims, proc, spared, unwaited>>
          /\ spc # "kill" /\ spc' # "kill" /\ spc' \in SignalPCs /\ fg' \in BOOLEAN
      BY <1>0, <1>1
      DEF passedVars, ReadSignal, SignalIsFg, SignalGetCtx, SignalSetFg, sharedVars, SignalPCs, ThreadTypeOK
    <2>2. ThreadTypeOK'
      BY <1>0, <2>1 DEF ThreadTypeOK, mainVars
    <2>3. LockHeld'
      BY <1>0, <2>1 DEF LockHeld, InWait, mainVars
    <2>4. CtxIsCurrentJob' /\ Accounted' /\ Waited' /\ Taken'
      BY <1>0, <2>1
      DEF mainVars, CtxIsCurrentJob, Accounted, PromptMeansJobDone, LeftBehind, Waited, Taken, InWait, Running
    <2>5. QED
      BY <2>2, <2>3, <2>4 DEF IInv
  <1>2. CASE SignalClears
    <2>1. CASE NothingToTake /\ spc' = "set_fg"
      <3>1. /\ UNCHANGED <<ctx, lock, victims, proc, fg, spared, unwaited>>
            /\ spc = "clear" /\ spc' = "set_fg"
        BY <1>2, <2>1 DEF SignalClears, NothingToTake, passedVars
      <3>2. ThreadTypeOK'
        BY <1>0, <3>1 DEF ThreadTypeOK, mainVars, SignalPCs
      <3>3. LockHeld'
        BY <1>0, <3>1 DEF LockHeld, InWait, mainVars
      <3>4. CtxIsCurrentJob' /\ Accounted' /\ Waited' /\ Taken'
        BY <1>0, <3>1
        DEF mainVars, CtxIsCurrentJob, Accounted, PromptMeansJobDone, LeftBehind, Waited, Taken, InWait, Running
      <3>5. QED
        BY <3>2, <3>3, <3>4 DEF IInv
    <2>2. CASE TakeCtx("signal") /\ spc' = "kill"
      <3>1. /\ lock = "free" /\ ctx = job /\ InWait /\ ctx' = None /\ lock' = "signal"
            /\ victims' = job /\ UNCHANGED <<proc, fg, spared, unwaited>> /\ spc' = "kill"
        BY <1>0, <1>2, <2>2 DEF SignalClears, TakeCtx, CtxIsCurrentJob, InWait, passedVars
      <3>2. ThreadTypeOK'
        BY <1>0, <3>1 DEF ThreadTypeOK, mainVars, SignalPCs
      <3>3. LockHeld'
        BY <1>0, <3>1 DEF LockHeld, InWait, mainVars
      <3>4. CtxIsCurrentJob' /\ Accounted' /\ Waited' /\ Taken'
        BY <1>0, <3>1
        DEF mainVars, CtxIsCurrentJob, Accounted, PromptMeansJobDone, LeftBehind, Waited, Taken, InWait, Running
      <3>5. QED
        BY <3>2, <3>3, <3>4 DEF IInv
    <2>3. QED
      BY <1>2, <2>1, <2>2 DEF SignalClears
  <1>3. CASE SignalKills
    <2>1. CASE KillOne /\ UNCHANGED <<lock, spc>>
      <3>1. UNCHANGED <<lock, spc, ctx, fg>>
        BY <1>3, <2>1 DEF SignalKills
      <3>2. ThreadTypeOK'
        BY <1>0, <2>1, <3>1, KillOneStep DEF ThreadTypeOK, mainVars
      <3>3. LockHeld'
        <4>1. spc = "kill" /\ lock = "signal"
          BY <1>0, <1>3 DEF SignalKills, LockHeld
        <4>2. QED
          BY <1>0, <2>1, <3>1, <4>1, KillOneStep DEF LockHeld, InWait, mainVars
      <3>4. CtxIsCurrentJob'
        BY <1>0, <3>1 DEF CtxIsCurrentJob, mainVars
      <3>5. Accounted' /\ Waited'
        BY <1>0, <2>1, KillOneStep DEF mainVars, Accounted, PromptMeansJobDone, LeftBehind, Waited
      <3>6. Taken'
        BY <1>0, <2>1, <3>1, KillOneStep DEF mainVars, Taken, InWait
      <3>7. QED
        BY <3>2, <3>3, <3>4, <3>5, <3>6 DEF IInv
    <2>2. CASE Unlock /\ spc' = "set_fg"
      <3>1. /\ lock' = "free" /\ victims = <<>> /\ spc = "kill" /\ spc' = "set_fg"
            /\ UNCHANGED <<ctx, fg, victims, proc, spared, unwaited>>
        BY <1>3, <2>2 DEF SignalKills, Unlock, passedVars
      <3>2. ThreadTypeOK'
        BY <1>0, <3>1 DEF ThreadTypeOK, mainVars, SignalPCs
      <3>3. LockHeld'
        BY <1>0, <3>1 DEF LockHeld, InWait, mainVars
      <3>4. CtxIsCurrentJob' /\ Accounted' /\ Waited' /\ Taken'
        BY <1>0, <3>1
        DEF mainVars, CtxIsCurrentJob, Accounted, PromptMeansJobDone, LeftBehind, Waited, Taken, InWait, Running
      <3>5. QED
        BY <3>2, <3>3, <3>4 DEF IInv
    <2>3. QED
      BY <1>3, <2>1, <2>2 DEF SignalKills
  <1>4. QED
    BY <1>1, <1>2, <1>3 DEF Signal

LEMMA ExitStep ==
  ASSUME IInv, NEW p \in Pids, Exit(p)
  PROVE  IInv'
  <1>0. /\ ThreadTypeOK /\ CtxIsCurrentJob /\ LockHeld /\ Accounted /\ Waited /\ Taken
        /\ UNCHANGED <<inputVars, mainVars, spc, fg, ctx, lock, victims, spared, unwaited>>
    BY DEF IInv, Exit, passedVars
  <1>1. proc' = [proc EXCEPT ![p] = "exited"] /\ proc \in [Pids -> Lives]
    BY <1>0 DEF Exit, ThreadTypeOK
  <1>2. proc' \in [Pids -> Lives]
    BY <1>1 DEF Lives
  <1>3. Running' \subseteq Running
    BY <1>1 DEF Running
  <1>4. ThreadTypeOK'
    BY <1>0, <1>2 DEF ThreadTypeOK, inputVars, mainVars
  <1>5. CtxIsCurrentJob' /\ LockHeld'
    BY <1>0 DEF CtxIsCurrentJob, LockHeld, InWait, mainVars
  <1>6. Accounted' /\ Waited' /\ Taken'
    BY <1>0, <1>3 DEF Accounted, PromptMeansJobDone, LeftBehind, Waited, Taken, InWait, mainVars
  <1>7. QED
    BY <1>4, <1>5, <1>6 DEF IInv

----------------------------------------------------------------------------
(* The main thread: reading, parsing and starting a job. *)
LEMMA ReadStep ==
  ASSUME IInv, ReadStdin \/ ParseKey \/ EndOfChunk \/ DrainStdin
  PROVE  IInv'
  <1>0. /\ ThreadTypeOK /\ CtxIsCurrentJob /\ LockHeld /\ Accounted /\ Waited /\ Taken
        /\ UNCHANGED <<typed, inbuf, relayed, waiting, orphans, spc, sharedVars, spared, unwaited>>
    BY DEF IInv, ReadStdin, ParseKey, EndOfChunk, DrainStdin, inputVars, passedVars
  <1>1. CASE ReadStdin \/ ParseKey \/ EndOfChunk
    <2>1. /\ mpc \in {"read", "parse"} /\ mpc' \in {"read", "parse", "spawn"} /\ UNCHANGED job
          /\ stages' \in 0 .. MaxStages /\ (mpc' = "spawn" => stages' # 0)
      BY <1>0, <1>1, ConstantsAssumption DEF ReadStdin, ParseKey, EndOfChunk, ThreadTypeOK
    <2>2. mbuf' \in Seq(Keys) /\ stdin' \in Seq(Keys)
      <3>1. CASE ReadStdin
        BY <1>0, <3>1, EmptySeq DEF ReadStdin, ThreadTypeOK
      <3>2. CASE ParseKey
        BY <1>0, <3>2, HeadTailProperties DEF ParseKey, ThreadTypeOK, inputVars
      <3>3. CASE EndOfChunk
        BY <1>0, <3>3 DEF EndOfChunk, ThreadTypeOK, inputVars
      <3>4. QED
        BY <1>1, <3>1, <3>2, <3>3
    <2>3. ThreadTypeOK'
      BY <1>0, <2>1, <2>2 DEF ThreadTypeOK, sharedVars, MainPCs
    <2>4. LockHeld'
      BY <1>0, <2>1 DEF LockHeld, InWait, sharedVars
    <2>5. CtxIsCurrentJob' /\ Waited' /\ Taken'
      BY <1>0, <2>1 DEF CtxIsCurrentJob, Waited, Taken, InWait, sharedVars
    <2>6. Accounted'
      BY <1>0, <2>1 DEF Accounted, PromptMeansJobDone, LeftBehind, Running, sharedVars
    <2>7. QED
      BY <2>3, <2>4, <2>5, <2>6 DEF IInv
  <1>2. CASE DrainStdin
    <2>1. /\ mpc = "drain" /\ mpc' = "parse" /\ job' = <<>> /\ stdin' = <<>>
          /\ UNCHANGED <<mbuf, stages>>
      BY <1>2 DEF DrainStdin
    <2>2. lock = "free" /\ victims = <<>> /\ ctx = None
      BY <1>0, <2>1 DEF LockHeld, InWait, CtxIsCurrentJob, ThreadTypeOK
    <2>3. ThreadTypeOK'
      BY <1>0, <2>1, EmptySeq DEF ThreadTypeOK, sharedVars, MainPCs
    <2>4. LockHeld'
      BY <1>0, <2>1, <2>2, RangeOfEmpty DEF LockHeld, InWait, sharedVars
    <2>5. CtxIsCurrentJob' /\ Waited' /\ Taken'
      BY <1>0, <2>1, <2>2 DEF CtxIsCurrentJob, Waited, Taken, InWait, sharedVars
    <2>6. Accounted'
      BY <1>0, <2>1 DEF Accounted, PromptMeansJobDone, LeftBehind, Running, sharedVars
    <2>7. QED
      BY <2>3, <2>4, <2>5, <2>6 DEF IInv
  <1>3. QED
    BY <1>1, <1>2

LEMMA ExecuteStep ==
  ASSUME IInv, Execute
  PROVE  IInv'
  <1>0. /\ ThreadTypeOK /\ CtxIsCurrentJob /\ LockHeld /\ Accounted /\ Waited /\ Taken
        /\ UNCHANGED <<inputVars, mbuf, waiting, spc, fg, ctx, lock, victims, spared, unwaited>>
        /\ mpc = "spawn"
    BY DEF IInv, Execute, SpawnProcess, RunBuiltin, SpawnFails, sharedVars, passedVars
  <1>1. lock = "free" /\ victims = <<>> /\ ctx = None /\ stages # 0
    BY <1>0 DEF LockHeld, InWait, CtxIsCurrentJob, ThreadTypeOK, Accounted
  <1>2. ASSUME mpc' \in {"spawn", "set_ctx", "parse"}, job' \in Seq(Pids),
               stages' \in 0 .. MaxStages, mpc' = "spawn" => stages' # 0,
               proc' \in [Pids -> Lives], orphans' \subseteq Pids,
               Running' \subseteq LeftBehind' \cup Range(job'),
               mpc' = "parse" => Running' \subseteq LeftBehind'
        PROVE  IInv'
    <2>1. ThreadTypeOK'
      BY <1>0, <1>2 DEF ThreadTypeOK, inputVars, MainPCs
    <2>2. LockHeld'
      BY <1>0, <1>1, <1>2, RangeOfEmpty DEF LockHeld, InWait
    <2>3. CtxIsCurrentJob' /\ Waited' /\ Taken'
      BY <1>0, <1>1, <1>2 DEF CtxIsCurrentJob, Waited, Taken, InWait
    <2>4. Accounted'
      BY <1>2 DEF Accounted, PromptMeansJobDone, LeftBehind
    <2>5. QED
      BY <2>1, <2>2, <2>3, <2>4 DEF IInv
  <1>3. ASSUME NEW started, NextStage(started)
        PROVE  /\ job' = job \o started /\ mpc' \in {"spawn", "set_ctx", "parse"}
               /\ stages' \in 0 .. MaxStages /\ (mpc' = "spawn" => stages' # 0)
               /\ mpc' # "parse"
    BY <1>0, <1>1, <1>3, ConstantsAssumption DEF NextStage, ThreadTypeOK
  <1>4. CASE SpawnProcess
    <2>1. PICK p \in Pids : proc' = [proc EXCEPT ![p] = "running"] /\ NextStage(<<p>>)
      BY <1>4 DEF SpawnProcess
    <2>2. job' \in Seq(Pids) /\ Range(job') = Range(job) \cup {p}
      <3>1. job' = job \o <<p>> /\ job \in Seq(Pids)
        BY <1>0, <1>3, <2>1 DEF ThreadTypeOK
      <3>2. QED
        BY <3>1, RangeOfPush
    <2>3. proc' \in [Pids -> Lives] /\ Running' \subseteq Running \cup {p}
      BY <1>0, <2>1 DEF ThreadTypeOK, Running, Lives
    <2>4. orphans' = orphans /\ Running' \subseteq LeftBehind' \cup Range(job')
      BY <1>0, <1>4, <2>2, <2>3 DEF SpawnProcess, Accounted, LeftBehind
    <2>5. QED
      BY <1>0, <1>2, <1>3, <2>1, <2>2, <2>3, <2>4 DEF ThreadTypeOK
  <1>5. CASE RunBuiltin
    <2>1. NextStage(<<>>) /\ UNCHANGED <<orphans, proc>>
      BY <1>5 DEF RunBuiltin, sharedVars
    <2>2. job' = job
      BY <1>0, <1>3, <2>1, ConcatEmptySeq DEF ThreadTypeOK
    <2>3. Running' = Running
      BY <2>1 DEF Running
    <2>4. QED
      BY <1>0, <1>2, <1>3, <2>1, <2>2, <2>3 DEF ThreadTypeOK, Accounted, LeftBehind
  <1>6. CASE SpawnFails
    <2>1. /\ orphans' = orphans \cup Range(job) /\ job' = <<>> /\ stages' = 0 /\ mpc' = "parse"
          /\ UNCHANGED proc
      BY <1>6 DEF SpawnFails, sharedVars
    <2>2. Range(job) \subseteq Pids
      BY <1>0, RangeOfSeq DEF ThreadTypeOK
    <2>3. Running' = Running
      BY <2>1 DEF Running
    <2>4. 0 \in 0 .. MaxStages /\ job' \in Seq(Pids)
      BY <2>1, ConstantsAssumption, EmptySeq
    <2>5. orphans' \subseteq Pids /\ proc' \in [Pids -> Lives] /\ Running' \subseteq LeftBehind'
      BY <1>0, <2>1, <2>2, <2>3 DEF ThreadTypeOK, Accounted, LeftBehind
    <2>6. QED
      BY <1>2, <2>1, <2>4, <2>5
  <1>7. QED
    BY <1>4, <1>5, <1>6 DEF Execute

(* wait_: waiting for the job, and clearing its context. *)
LEMMA WaitStep ==
  ASSUME IInv, Wait
  PROVE  IInv'
  <1>0. /\ ThreadTypeOK /\ CtxIsCurrentJob /\ LockHeld /\ Accounted /\ Waited /\ Taken
        /\ UNCHANGED <<inputVars, mbuf, stages, job, orphans, spc>>
    BY DEF IInv, Wait, SetCtx, SetBg, WaitNext, WaitDone, MainClears, MainKills
  <1>1. CASE SetCtx
    <2>1. /\ mpc = "set_ctx" /\ mpc' = "set_bg" /\ lock = "free" /\ ctx = None /\ ctx' = job
          /\ job # None /\ UNCHANGED <<waiting, fg, lock, victims, proc, spared, unwaited>>
      BY <1>0, <1>1, ConstantsAssumption DEF SetCtx, CtxIsCurrentJob, ThreadTypeOK, passedVars
    <2>2. ThreadTypeOK'
      BY <1>0, <2>1 DEF ThreadTypeOK, inputVars, MainPCs
    <2>3. LockHeld'
      BY <1>0, <2>1 DEF LockHeld, InWait
    <2>4. CtxIsCurrentJob' /\ Accounted' /\ Waited' /\ Taken'
      BY <1>0, <2>1
      DEF CtxIsCurrentJob, Accounted, PromptMeansJobDone, LeftBehind, Waited, Taken, InWait, Running
    <2>5. QED
      BY <2>2, <2>3, <2>4 DEF IInv
  <1>2. CASE SetBg
    <2>1. /\ mpc = "set_bg" /\ mpc' = "wait" /\ fg' = FALSE /\ waiting' = job
          /\ UNCHANGED <<ctx, lock, victims, proc, spared, unwaited>>
      BY <1>2 DEF SetBg, passedVars
    <2>2. ThreadTypeOK'
      BY <1>0, <2>1 DEF ThreadTypeOK, inputVars, MainPCs
    <2>3. LockHeld'
      BY <1>0, <2>1 DEF LockHeld, InWait
    <2>4. CtxIsCurrentJob' /\ Accounted' /\ Waited' /\ Taken'
      BY <1>0, <2>1
      DEF CtxIsCurrentJob, Accounted, PromptMeansJobDone, LeftBehind, Waited, Taken, InWait, Running
    <2>5. QED
      BY <2>2, <2>3, <2>4 DEF IInv
  <1>3. CASE WaitNext
    <2>1. /\ mpc = "wait" /\ UNCHANGED <<mpc, sharedVars, spared, unwaited>>
          /\ waiting # <<>> /\ waiting' = Tail(waiting) /\ proc[Head(waiting)] = "exited"
      BY <1>3 DEF WaitNext, passedVars
    <2>2. /\ Tail(waiting) \in Seq(Pids) /\ Range(waiting) = {Head(waiting)} \cup Range(Tail(waiting))
      BY <1>0, <2>1, RangeOfTail DEF ThreadTypeOK
    <2>3. Head(waiting) \notin Running /\ Running' = Running
      BY <2>1 DEF Running, sharedVars
    <2>4. ThreadTypeOK'
      BY <1>0, <2>1, <2>2 DEF ThreadTypeOK, inputVars, sharedVars
    <2>5. LockHeld' /\ CtxIsCurrentJob'
      BY <1>0, <2>1 DEF LockHeld, CtxIsCurrentJob, InWait, sharedVars
    <2>6. Accounted' /\ Waited' /\ Taken'
      BY <1>0, <2>1, <2>2, <2>3
      DEF Accounted, PromptMeansJobDone, LeftBehind, Waited, Taken, InWait, sharedVars
    <2>7. QED
      BY <2>4, <2>5, <2>6 DEF IInv
  <1>4. CASE WaitDone
    <2>1. /\ mpc = "wait" /\ mpc' = "clear" /\ waiting' = <<>> /\ UNCHANGED <<sharedVars, spared>>
          /\ unwaited' = unwaited \cup Range(waiting)
      BY <1>4 DEF WaitDone
    <2>2. Running' = Running /\ Range(waiting) \subseteq Pids
      BY <1>0, <2>1, RangeOfSeq DEF Running, sharedVars, ThreadTypeOK
    <2>3. ThreadTypeOK'
      BY <1>0, <2>1, <2>2, EmptySeq DEF ThreadTypeOK, inputVars, sharedVars, MainPCs
    <2>4. LockHeld' /\ CtxIsCurrentJob'
      BY <1>0, <2>1 DEF LockHeld, CtxIsCurrentJob, InWait, sharedVars
    <2>5. Accounted' /\ Waited' /\ Taken'
      BY <1>0, <2>1, <2>2
      DEF Accounted, PromptMeansJobDone, LeftBehind, Waited, Taken, InWait, sharedVars
    <2>6. QED
      BY <2>3, <2>4, <2>5 DEF IInv
  <1>5. ASSUME mpc \in {"clear", "kill"}, ctx = None, victims = <<>>
        PROVE  Running \subseteq LeftBehind
    <2>1. Running \cap Range(job) \subseteq spared
      BY <1>0, <1>5, RangeOfEmpty DEF Taken, InWait
    <2>2. Running \cap Range(job) \subseteq unwaited
      BY <1>0, <1>5, RangeOfEmpty DEF Waited
    <2>3. Running \subseteq LeftBehind \cup Range(job)
      BY <1>0 DEF Accounted
    <2>4. QED
      BY <2>1, <2>2, <2>3 DEF LeftBehind
  <1>6. CASE MainClears
    <2>1. CASE NothingToTake /\ mpc' = "drain"
      <3>1. /\ mpc = "clear" /\ lock = "free" /\ ctx = None /\ victims = <<>>
            /\ UNCHANGED <<waiting, fg, ctx, lock, victims, proc, spared, unwaited>>
        BY <1>0, <1>6, <2>1 DEF MainClears, NothingToTake, LockHeld, passedVars
      <3>2. Running \subseteq LeftBehind /\ Running' = Running
        BY <1>5, <3>1 DEF Running
      <3>3. ThreadTypeOK'
        BY <1>0, <2>1, <3>1 DEF ThreadTypeOK, inputVars, MainPCs
      <3>4. LockHeld' /\ CtxIsCurrentJob'
        BY <1>0, <2>1, <3>1 DEF LockHeld, CtxIsCurrentJob, InWait
      <3>5. Accounted' /\ Waited' /\ Taken'
        BY <1>0, <2>1, <3>1, <3>2 DEF Accounted, PromptMeansJobDone, LeftBehind, Waited, Taken, InWait
      <3>6. QED
        BY <3>3, <3>4, <3>5 DEF IInv
    <2>2. CASE TakeCtx("main") /\ mpc' = "kill"
      <3>1. /\ mpc = "clear" /\ lock = "free" /\ ctx = job /\ ctx' = None /\ lock' = "main"
            /\ victims' = job /\ UNCHANGED <<waiting, fg, proc, spared, unwaited>>
        BY <1>0, <1>6, <2>2 DEF MainClears, TakeCtx, CtxIsCurrentJob, passedVars
      <3>2. Running' = Running
        BY <3>1 DEF Running
      <3>3. ThreadTypeOK'
        BY <1>0, <2>2, <3>1 DEF ThreadTypeOK, inputVars, MainPCs
      <3>4. LockHeld' /\ CtxIsCurrentJob'
        BY <1>0, <2>2, <3>1 DEF LockHeld, CtxIsCurrentJob, InWait
      <3>5. Accounted' /\ Waited' /\ Taken'
        BY <1>0, <2>2, <3>1, <3>2 DEF Accounted, PromptMeansJobDone, LeftBehind, Waited, Taken, InWait
      <3>6. QED
        BY <3>3, <3>4, <3>5 DEF IInv
    <2>3. QED
      BY <1>6, <2>1, <2>2 DEF MainClears
  <1>7. CASE MainKills
    <2>1. mpc = "kill" /\ lock = "main" /\ ctx = None /\ UNCHANGED <<waiting, fg, ctx>>
      BY <1>0, <1>7 DEF MainKills, LockHeld
    <2>2. CASE KillOne /\ UNCHANGED <<lock, mpc>>
      <3>1. ThreadTypeOK'
        BY <1>0, <2>1, <2>2, KillOneStep DEF ThreadTypeOK, inputVars
      <3>2. LockHeld' /\ CtxIsCurrentJob'
        BY <1>0, <2>1, <2>2, KillOneStep DEF LockHeld, CtxIsCurrentJob, InWait
      <3>3. Accounted' /\ Waited'
        BY <1>0, <2>1, <2>2, KillOneStep DEF Accounted, PromptMeansJobDone, LeftBehind, Waited
      <3>4. Taken'
        BY <1>0, <2>1, <2>2, KillOneStep DEF Taken, InWait
      <3>5. QED
        BY <3>1, <3>2, <3>3, <3>4 DEF IInv
    <2>3. CASE Unlock /\ mpc' = "drain"
      <3>1. victims = <<>> /\ lock' = "free" /\ UNCHANGED <<victims, proc, spared, unwaited>>
        BY <2>3 DEF Unlock, passedVars
      <3>2. Running \subseteq LeftBehind /\ Running' = Running
        BY <1>5, <2>1, <3>1 DEF Running
      <3>3. ThreadTypeOK'
        BY <1>0, <2>1, <2>3, <3>1 DEF ThreadTypeOK, inputVars, MainPCs
      <3>4. LockHeld' /\ CtxIsCurrentJob'
        BY <1>0, <2>1, <2>3, <3>1 DEF LockHeld, CtxIsCurrentJob, InWait
      <3>5. Accounted' /\ Waited' /\ Taken'
        BY <1>0, <2>1, <2>3, <3>1, <3>2 DEF Accounted, PromptMeansJobDone, LeftBehind, Waited, Taken, InWait
      <3>6. QED
        BY <3>3, <3>4, <3>5 DEF IInv
    <2>4. QED
      BY <1>7, <2>2, <2>3 DEF MainKills
  <1>8. QED
    BY <1>1, <1>2, <1>3, <1>4, <1>6, <1>7 DEF Wait

----------------------------------------------------------------------------
LEMMA StepIInv == IInv /\ [Next]_vars => IInv'
  <1> SUFFICES ASSUME IInv, [Next]_vars PROVE IInv'
    OBVIOUS
  <1>1. CASE UNCHANGED vars
    BY <1>1
    DEF vars, inputVars, mainVars, sharedVars, passedVars, IInv, ThreadTypeOK, CtxIsCurrentJob, LockHeld,
        Accounted, PromptMeansJobDone, LeftBehind, Waited, Taken, InWait, Running
  <1>2. CASE Main
    BY <1>2, ReadStep, ExecuteStep, WaitStep DEF Main
  <1>3. QED
    BY <1>1, <1>2, InputStep, SignalStep, ExitStep DEF Next

(* The inductive invariant: which thread may hold what, and where a        *)
(* running process can be, in every interleaving of shell/src/logic/jobs.rs' *)
(* wait_ and signal_handler.                                               *)
THEOREM AlwaysIInv == Spec => []IInv
  BY InitIInv, StepIInv, PTL DEF Spec

(* The context that an abort takes holds processes of the job main waits    *)
(* for, in every interleaving of the three threads.                         *)
THEOREM CtxStaysCurrent == Spec => []CtxIsCurrentJob
  <1>1. IInv => CtxIsCurrentJob
    BY DEF IInv
  <1>2. QED
    BY <1>1, AlwaysIInv, PTL

(* Whatever is being killed belongs to the job main works on.               *)
THEOREM KillStaysCurrent == Spec => []KillHitsCurrentJob
  <1>1. IInv => KillHitsCurrentJob
    BY DEF IInv, LockHeld, InWait, KillHitsCurrentJob
  <1>2. QED
    BY <1>1, AlwaysIInv, PTL

(* A prompt means that the job is over, but for the processes that both a   *)
(* refused kill and a refused wait made the shell pass over.               *)
THEOREM PromptAfterJob == Spec => []PromptMeansJobDone
  <1>1. IInv => PromptMeansJobDone
    BY DEF IInv, Accounted
  <1>2. QED
    BY <1>1, AlwaysIInv, PTL

----------------------------------------------------------------------------
(* Induction over a set of numbers, and what it says of recursion: both    *)
(* are stated of sets and functions, not of operators.                     *)
LEMMA SetInduction ==
  ASSUME NEW S, 0 \in S, \A n \in Nat : n \in S => n + 1 \in S
  PROVE  Nat \subseteq S
  <1> DEFINE T == Nat \ S
  <1>1. SUFFICES ASSUME T # {} PROVE FALSE
    OBVIOUS
  <1>2. PICK x \in T : \A y \in T : <<y, x>> \notin OpToRel(<, Nat)
    <2>1. T \subseteq Nat
      OBVIOUS
    <2> HIDE DEF T
    <2>2. QED
      BY <1>1, <2>1, NatLessThanWellFounded, WFMin, Zenon
  <1>3. x \in Nat \ {0} /\ x - 1 \in T
    OBVIOUS
  <1>4. <<x - 1, x>> \in OpToRel(<, Nat)
    BY <1>3 DEF OpToRel
  <1>5. QED
    BY <1>2, <1>3, <1>4

LEMMA UpTo ==
  ASSUME NEW n \in Nat, NEW S, 0 \in S, \A i \in 1 .. n : i - 1 \in S => i \in S
  PROVE  0 .. n \subseteq S
  <1> DEFINE T == {i \in Nat : i <= n => i \in S}
  <1>1. 0 \in T
    OBVIOUS
  <1>2. ASSUME NEW i \in Nat, i \in T PROVE i + 1 \in T
    <2>1. SUFFICES ASSUME i + 1 <= n PROVE i + 1 \in S
      OBVIOUS
    <2>2. i + 1 \in 1 .. n /\ (i + 1) - 1 = i /\ i \in S
      BY <1>2, <2>1
    <2>3. QED
      BY <2>2
  <1>3. Nat \subseteq T
    <2> HIDE DEF T
    <2>1. QED
      BY <1>1, <1>2, SetInduction
  <1>4. QED
    BY <1>3

(* The values t of a recursion over 1 .. n: step[i] makes the i-th of the   *)
(* one before.                                                             *)
Computes(t, n, S, start, step) ==
  /\ t \in [0 .. n -> S] /\ t[0] = start
  /\ \A i \in 1 .. n : t[i] = step[i][t[i - 1]]

LEMMA Recursion ==
  ASSUME NEW n \in Nat, NEW S, NEW start \in S, NEW step \in [1 .. n -> [S -> S]]
  PROVE  \E t : Computes(t, n, S, start, step)
  <1> DEFINE Run(t, m) == /\ t \in [0 .. m -> S] /\ t[0] = start
                          /\ \A i \in 1 .. m : t[i] = step[i][t[i - 1]]
             D == {m \in 0 .. n : \E t : Run(t, m)}
  <1>1. 0 \in D
    <2>1. Run([i \in 0 .. 0 |-> start], 0)
      OBVIOUS
    <2> HIDE DEF Run
    <2>2. QED
      BY <2>1
  <1>2. ASSUME NEW m \in 1 .. n, m - 1 \in D PROVE m \in D
    <2>1. PICK t : Run(t, m - 1)
      <3> HIDE DEF Run
      <3>1. QED
        BY <1>2
    <2> DEFINE u == [i \in 0 .. m |-> IF i = m THEN step[m][t[m - 1]] ELSE t[i]]
    <2>2. t[m - 1] \in S /\ step[m] \in [S -> S]
      BY <2>1
    <2>3. step[m][t[m - 1]] \in S
      BY <2>2
    <2>4. u \in [0 .. m -> S] /\ u[0] = start
      BY <2>1, <2>3
    <2>5. \A i \in 1 .. m : u[i] = step[i][u[i - 1]]
      BY <2>1
    <2>6. Run(u, m)
      BY <2>4, <2>5
    <2> HIDE DEF Run, u
    <2>7. QED
      BY <2>6
  <1>3. n \in D
    <2> HIDE DEF D
    <2>1. 0 .. n \subseteq D
      BY <1>1, <1>2, UpTo
    <2>2. QED
      BY <2>1
  <1>4. QED
    BY <1>3 DEF Computes

----------------------------------------------------------------------------
(* The signal pipe: input_loop filters a chunk's signals out of it. *)
LEMMA SignalsType ==
  ASSUME NEW keys \in Seq(Keys)
  PROVE  SignalsOf(keys) \in Seq(Signals)
  <1> DEFINE n == Len(keys)
             S == Seq(Signals)
             Passed(s, i) == IF IsSignal(keys[i]) THEN Append(s, keys[i]) ELSE s
             step == [i \in 1 .. n |-> [s \in S |-> Passed(s, i)]]
             rec(g) == [i \in 0 .. n |->
                          IF i = 0 THEN <<>>
                          ELSE IF IsSignal(keys[i]) THEN Append(g[i - 1], keys[i]) ELSE g[i - 1]]
             f == CHOOSE g : g = rec(g)
  <1>1. n \in Nat /\ <<>> \in S
    BY LenProperties, EmptySeq
  <1>2. \A s \in S, i \in 1 .. n : Passed(s, i) \in S
    BY AppendProperties DEF IsSignal
  <1> HIDE DEF S
  <1>3. step \in [1 .. n -> [S -> S]]
    <2> HIDE DEF Passed
    <2>1. QED
      BY <1>2
  <1>4. PICK t : Computes(t, n, S, <<>>, step)
    <2> HIDE DEF step, n
    <2>1. QED
      BY <1>1, <1>3, Recursion
  <1>5. /\ t \in [0 .. n -> S] /\ t[0] = <<>>
        /\ \A i \in 1 .. n : t[i] = Passed(t[i - 1], i)
    <2> HIDE DEF Passed
    <2>1. /\ t \in [0 .. n -> S] /\ t[0] = <<>>
          /\ \A i \in 1 .. n : t[i] = step[i][t[i - 1]]
      BY <1>4, Zenon DEF Computes
    <2>2. ASSUME NEW i \in 1 .. n PROVE step[i][t[i - 1]] = Passed(t[i - 1], i)
      <3>1. t[i - 1] \in S
        BY <1>1, <2>1
      <3>2. QED
        BY <3>1, Zenon
    <2>3. QED
      BY <2>1, <2>2, Zenon
  <1>6. rec(t) = [i \in 0 .. n |-> IF i = 0 THEN <<>> ELSE Passed(t[i - 1], i)]
    BY Zenon
  <1>7. t = rec(t)
    <2> HIDE DEF Passed, rec
    <2>1. QED
      BY <1>1, <1>5, <1>6
  <1>8. f = rec(f)
    <2> HIDE DEF rec, Passed
    <2>1. QED
      BY <1>7, Zenon
  <1>9. SignalsOf(keys) = f[n]
    BY DEF SignalsOf
  <1> HIDE DEF f, n
  <1>10. f[0] = <<>> /\ \A i \in 1 .. n : f[i] = Passed(f[i - 1], i)
    <2>1. \A i \in 0 .. n : f[i] = IF i = 0 THEN <<>> ELSE Passed(f[i - 1], i)
      BY <1>8, Zenon
    <2>2. 0 \in 0 .. n /\ \A i \in 1 .. n : i \in 0 .. n /\ i # 0
      BY <1>1
    <2> HIDE DEF Passed
    <2>3. QED
      BY <2>1, <2>2, Zenon
  <1> HIDE DEF Passed
  <1> DEFINE E == {i \in 0 .. n : f[i] \in S}
  <1>11. 0 \in E /\ \A i \in 1 .. n : i - 1 \in E => i \in E
    <2>1. 0 \in 0 .. n /\ \A i \in 1 .. n : i \in 0 .. n
      BY <1>1
    <2>2. QED
      BY <1>1, <1>2, <1>10, <2>1, Zenon
  <1>12. 0 .. n \subseteq E
    <2> HIDE DEF E
    <2>1. QED
      BY <1>1, <1>11, UpTo
  <1>13. QED
    BY <1>1, <1>9, <1>12 DEF S

SignalsOK == signals \in Seq(Signals)

(* The three threads' variables keep their types; in particular only abort  *)
(* and background signals are ever in the signal pipe.                      *)
THEOREM JobTypeOK == Spec => []TypeOK
  <1>1. Init => SignalsOK
    BY EmptySeq DEF Init, SignalsOK
  <1>2. IInv /\ SignalsOK /\ [Next]_vars => SignalsOK'
    <2> SUFFICES ASSUME IInv, SignalsOK, [Next]_vars PROVE SignalsOK'
      OBVIOUS
    <2>1. CASE RelaySignals
      <3>1. inbuf \in Seq(Keys)
        BY DEF IInv, ThreadTypeOK
      <3>2. SignalsOf(inbuf) \in Seq(Signals)
        BY <3>1, SignalsType
      <3>3. QED
        BY <2>1, <3>2, ConcatProperties DEF RelaySignals, SignalsOK
    <2>2. CASE ReadSignal
      BY <2>2, HeadTailProperties DEF ReadSignal, SignalsOK
    <2>3. CASE UNCHANGED signals
      BY <2>3 DEF SignalsOK
    <2>4. RelaySignals \/ ReadSignal \/ UNCHANGED signals
      <3>1. Main => UNCHANGED signals
        BY DEF Main, Execute, Wait, ReadStdin, ParseKey, EndOfChunk, SpawnProcess, RunBuiltin,
               SpawnFails, SetCtx, SetBg, WaitNext, WaitDone, MainClears, MainKills, DrainStdin,
               inputVars
      <3>2. Signal => ReadSignal \/ UNCHANGED signals
        BY DEF Signal, SignalIsFg, SignalGetCtx, SignalClears, SignalKills, SignalSetFg, inputVars
      <3>3. QED
        BY <3>1, <3>2 DEF Next, Input, ReadKeyboard, RelayBytes, Exit, vars, inputVars
    <2>5. QED
      BY <2>1, <2>2, <2>3, <2>4
  <1>3. IInv /\ SignalsOK => TypeOK
    BY DEF IInv, TypeOK, SignalsOK
  <1>4. QED
    BY <1>1, <1>2, <1>3, AlwaysIInv, PTL DEF Spec

----------------------------------------------------------------------------
(* An action property, from the same invariant. *)

(* The clear_ctx at the end of every wait_ kills no running process but one *)
(* that a refused wait passed over: for every pipeline, refusal and         *)
(* interleaving.                                                           *)
THEOREM OnlyAborts == Spec => OnlyAbortsKill
  <1> DEFINE noVictim == \A p \in Pids : proc[p] = "running" /\ proc'[p] = "killed"
                                           => lock = "signal" \/ p \in unwaited
  <1>1. IInv /\ [Next]_vars => noVictim
    <2> SUFFICES ASSUME IInv, [Next]_vars, NEW p \in Pids,
                        proc[p] = "running", proc'[p] = "killed",
                        lock # "signal", p \notin unwaited
                 PROVE  FALSE
      OBVIOUS
    <2>1. proc \in [Pids -> Lives] /\ proc' # proc
      BY DEF IInv, ThreadTypeOK
    <2>2. CASE UNCHANGED proc
      BY <2>1, <2>2
    <2>3. CASE SpawnProcess
      <3>1. PICK q \in Pids : proc[q] = "unborn" /\ proc' = [proc EXCEPT ![q] = "running"]
        BY <2>3 DEF SpawnProcess
      <3>2. QED
        BY <2>1, <3>1
    <2>4. CASE SetCtx
      <3>1. ctx = None
        BY <2>4 DEF SetCtx, IInv, CtxIsCurrentJob
      <3>2. QED
        BY <2>1, <2>4, <3>1 DEF SetCtx
    <2>5. CASE MainKills
      <3>1. mpc = "kill" /\ KillOne
        BY <2>1, <2>5 DEF MainKills, Unlock
      <3>2. victims \in Seq(Pids) /\ victims # <<>> /\ Range(victims) \subseteq Range(job)
        BY <3>1 DEF KillOne, IInv, ThreadTypeOK, LockHeld
      <3>3. Head(victims) \in Pids /\ Head(victims) \in Range(job)
        BY <3>2, RangeOfTail
      <3>4. Running \cap Range(job) \subseteq unwaited
        BY <3>1, RangeOfEmpty DEF IInv, Waited
      <3>5. proc[Head(victims)] # "running" \/ Head(victims) # p
        BY <3>3, <3>4 DEF Running
      <3>6. proc' = [proc EXCEPT ![Head(victims)] = IF @ = "running" THEN "killed" ELSE @]
        BY <2>1, <3>1 DEF KillOne, Dying
      <3>7. QED
        BY <2>1, <3>3, <3>5, <3>6
    <2>6. CASE SignalKills
      BY <2>6 DEF SignalKills, IInv, LockHeld
    <2>7. CASE \E q \in Pids : Exit(q)
      <3>1. PICK q \in Pids : proc' = [proc EXCEPT ![q] = "exited"]
        BY <2>7 DEF Exit
      <3>2. QED
        BY <2>1, <3>1
    <2>8. CASE \/ Input \/ ReadStdin \/ ParseKey \/ EndOfChunk \/ DrainStdin
               \/ RunBuiltin \/ SpawnFails \/ SetBg \/ WaitNext \/ WaitDone \/ MainClears
               \/ ReadSignal \/ SignalIsFg \/ SignalGetCtx \/ SignalClears \/ SignalSetFg
      <3>1. UNCHANGED proc
        BY <2>8
        DEF Input, ReadKeyboard, RelaySignals, RelayBytes, ReadStdin, ParseKey, EndOfChunk,
            DrainStdin, RunBuiltin, SpawnFails, SetBg, WaitNext, WaitDone, MainClears,
            ReadSignal, SignalIsFg, SignalGetCtx, SignalClears, SignalSetFg, sharedVars
      <3>2. QED
        BY <2>2, <3>1
    <2>9. CASE UNCHANGED vars
      BY <2>2, <2>9 DEF vars, sharedVars
    <2>10. QED
      BY <2>3, <2>4, <2>5, <2>6, <2>7, <2>8, <2>9 DEF Next, Main, Execute, Wait, Signal
  <1>2. QED
    <2>1. IInv /\ [Next]_vars => [noVictim]_vars
      BY <1>1
    <2>2. QED
      BY <2>1, AlwaysIInv, PTL DEF Spec, OnlyAbortsKill

----------------------------------------------------------------------------
(* What the liveness properties rest on and is safety. *)

(* Once a job's context has been taken and the mutex is free again, no      *)
(* process of that job runs unkilled, but those that a refused kill made    *)
(* kill_all pass over: an abort leaves main no other to wait for than       *)
(* exited and dying ones.                                                  *)
AbortLeavesNone ==
  InWait /\ ctx = None /\ lock = "free" => Running \cap Range(job) \subseteq spared

(* clear_ctx from the signal thread kills the whole pipeline: of the job    *)
(* main waits for, only what was passed over is left running when the       *)
(* mutex is free again.                                                    *)
THEOREM AbortTakesAll == Spec => []AbortLeavesNone
  <1>1. IInv => AbortLeavesNone
    <2> SUFFICES ASSUME IInv, InWait, ctx = None, lock = "free"
                 PROVE  Running \cap Range(job) \subseteq spared
      BY DEF AbortLeavesNone
    <2>1. victims = <<>>
      BY DEF IInv, LockHeld
    <2>2. QED
      BY <2>1, RangeOfEmpty DEF IInv, Taken
  <1>2. QED
    BY <1>1, AlwaysIInv, PTL

(* A step while the mutex is held: it stays with its holder, who has fewer  *)
(* and fewer processes to kill, and gives it up when none is left.          *)
HolderStep ==
  \/ lock' = lock /\ victims' \in {victims, Tail(victims), <<>>}
  \/ lock' = "free" /\ victims = <<>> /\ victims' = <<>>

(* The mutex over active_exec_ctx is held for one bounded pass over a job's *)
(* processes: nothing prolongs it, and no other thread takes it meanwhile.  *)
THEOREM MutexIsPassedOn == Spec => [][lock # "free" => HolderStep]_vars
  <1>1. IInv /\ [Next]_vars => (lock # "free" => HolderStep)
    <2> SUFFICES ASSUME IInv, [Next]_vars, lock # "free" PROVE HolderStep
      OBVIOUS
    <2>1. CASE MainKills
      BY <2>1 DEF MainKills, KillOne, Unlock, HolderStep
    <2>2. CASE SignalKills
      BY <2>2 DEF SignalKills, KillOne, Unlock, HolderStep
    <2>3. CASE MainClears \/ SignalClears
      BY <2>3 DEF MainClears, SignalClears, NothingToTake, TakeCtx
    <2>4. CASE UNCHANGED <<lock, victims>>
      BY <2>4 DEF HolderStep
    <2>5. CASE \/ Input \/ ReadStdin \/ ParseKey \/ EndOfChunk \/ DrainStdin
               \/ Execute \/ SetCtx \/ SetBg \/ WaitNext \/ WaitDone
               \/ ReadSignal \/ SignalIsFg \/ SignalGetCtx \/ SignalSetFg
               \/ \E p \in Pids : Exit(p)
      <3>1. UNCHANGED <<lock, victims>>
        BY <2>5
        DEF Input, ReadKeyboard, RelaySignals, RelayBytes, ReadStdin, ParseKey, EndOfChunk,
            DrainStdin, Execute, SpawnProcess, RunBuiltin, SpawnFails, SetCtx, SetBg, WaitNext,
            WaitDone, ReadSignal, SignalIsFg, SignalGetCtx, SignalSetFg, Exit, sharedVars
      <3>2. QED
        BY <2>4, <3>1
    <2>6. CASE UNCHANGED vars
      BY <2>4, <2>6 DEF vars, sharedVars
    <2>7. QED
      BY <2>1, <2>2, <2>3, <2>5, <2>6 DEF Next, Main, Wait, Signal
  <1>2. QED
    <2>1. IInv /\ [Next]_vars => [lock # "free" => HolderStep]_vars
      BY <1>1
    <2>2. QED
      BY <2>1, AlwaysIInv, PTL DEF Spec
=============================================================================
