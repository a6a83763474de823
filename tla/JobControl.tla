----------------------------- MODULE JobControl -----------------------------
(***************************************************************************)
(* Running, waiting for and aborting a job.  Three threads of two programs *)
(* share the work: the terminal's input thread (term/src/input.rs) relays  *)
(* keys and signals, the shell's main thread (shell/src/main.rs,           *)
(* logic/state.rs linefeed, logic/jobs.rs wait_) starts a job and waits    *)
(* for it, and the shell's signal thread (logic/jobs.rs signal_handler)    *)
(* aborts it.  The last two share active_exec_ctx, under a spin mutex, and *)
(* the atomic shell_is_fg (shell/src/env.rs).                              *)
(*                                                                         *)
(* An action is what one thread does between two operations on state       *)
(* another thread or the kernel can see.  Processes belong to the kernel,  *)
(* which is external: it may refuse to spawn a process, let one exit at    *)
(* any time, and refuse a wait or the kill of a process that has exited,   *)
(* also both in one job.                                                   *)
(***************************************************************************)
EXTENDS Naturals, Sequences, SequencesExt

CONSTANTS
  Pids,        \* the process ids the kernel hands out, each once
  None,        \* active_exec_ctx holds no context
  Faults,      \* the system calls the kernel may refuse: "wait", "kill"
  MaxStages,   \* bound: the longest pipeline a line asks for
  MaxKeys      \* bound: the keys the user types

ASSUME ConstantsAssumption ==
  /\ None \notin Seq(Pids)
  /\ Faults \subseteq {"wait", "kill"}
  /\ MaxStages \in Nat
  /\ MaxKeys \in Nat

VARIABLES
  typed,      \* how many keys the user has typed
  inbuf,      \* input_loop: the chunk it has read
  relayed,    \* input_loop: the chunk's signals are written, its bytes not
  signals,    \* the signal pipe
  stdin,      \* the shell's standard input pipe
  mbuf,       \* main: the keys of its chunk not yet parsed
  mpc,        \* main: what it does next
  stages,     \* main: the stages execute_all has still to start
  job,        \* main: the ExecutionContext it builds, then waits for
  waiting,    \* main: the processes wait_all has not waited for yet
  spc,        \* signal thread: what it does next
  fg,         \* shell_is_fg
  ctx,        \* active_exec_ctx: None or the processes of a job
  lock,       \* who holds its mutex over a step: "main", "signal" or "free"
  victims,    \* the processes the lock's holder has still to kill
  proc,       \* the kernel's processes
  orphans,    \* history: processes of jobs that failed to start
  spared,     \* history: processes that a refused kill made kill_all pass over
  unwaited    \* history: processes a refused wait made wait_all pass over

inputVars  == <<typed, inbuf, relayed, signals, stdin>>
mainVars   == <<mbuf, mpc, stages, job, waiting, orphans>>
sharedVars == <<fg, ctx, lock, victims, proc>>
passedVars == <<spared, unwaited>>
vars == <<inputVars, mainVars, spc, sharedVars, passedVars>>

Keys == {"line", "abort", "bg"}
Signals == {"abort", "bg"}
MainPCs == { "read", "parse", "spawn", "set_ctx", "set_bg", "wait", "clear",
             "kill", "drain" }
SignalPCs == {"read", "is_fg", "get_ctx", "clear", "kill", "set_fg"}
Lives == {"unborn", "running", "killed", "exited"}

ThreadTypeOK ==
  /\ typed \in 0 .. MaxKeys
  /\ inbuf \in Seq(Keys) /\ relayed \in BOOLEAN
  /\ stdin \in Seq(Keys) /\ mbuf \in Seq(Keys)
  /\ mpc \in MainPCs /\ spc \in SignalPCs
  /\ stages \in 0 .. MaxStages
  /\ job \in Seq(Pids) /\ waiting \in Seq(Pids) /\ victims \in Seq(Pids)
  /\ fg \in BOOLEAN
  /\ ctx \in Seq(Pids) \cup {None}
  /\ lock \in {"free", "main", "signal"}
  /\ proc \in [Pids -> Lives]
  /\ orphans \subseteq Pids /\ spared \subseteq Pids /\ unwaited \subseteq Pids

TypeOK == ThreadTypeOK /\ signals \in Seq(Signals)

----------------------------------------------------------------------------
(* The shell's StaticEnv::new and ShellState::new, after main's drain_stdin; *)
(* the terminal's threads before their first read.                         *)
Init ==
  /\ typed = 0 /\ inbuf = <<>> /\ relayed = FALSE
  /\ signals = <<>> /\ stdin = <<>> /\ mbuf = <<>>
  /\ mpc = "read" /\ spc = "read"
  /\ stages = 0 /\ job = <<>> /\ waiting = <<>> /\ victims = <<>>
  /\ fg = TRUE /\ ctx = None /\ lock = "free"
  /\ proc = [p \in Pids |-> "unborn"]
  /\ orphans = {} /\ spared = {} /\ unwaited = {}

----------------------------------------------------------------------------
(* The terminal's input thread.  A chunk is what the keyboard had ready:   *)
(* one or two keys here.  Its signals go to the shell before its bytes,    *)
(* which include the control bytes.                                        *)
Chunks == {<<k>> : k \in Keys} \cup {<<k, l>> : k \in Keys, l \in Keys}

ReadKeyboard ==
  /\ inbuf = <<>>
  /\ \E chunk \in Chunks :
       /\ typed + Len(chunk) <= MaxKeys
       /\ typed' = typed + Len(chunk)
       /\ inbuf' = chunk
  /\ UNCHANGED <<relayed, signals, stdin, mainVars, spc, sharedVars, passedVars>>

IsSignal(key) == key \in Signals

SignalsOf(keys) ==
  LET upto[i \in 0 .. Len(keys)] ==
        IF i = 0 THEN <<>>
        ELSE IF IsSignal(keys[i]) THEN Append(upto[i - 1], keys[i]) ELSE upto[i - 1]
  IN  upto[Len(keys)]

RelaySignals ==
  /\ inbuf # <<>> /\ ~relayed
  /\ relayed' = TRUE
  /\ signals' = signals \o SignalsOf(inbuf)
  /\ UNCHANGED <<typed, inbuf, stdin, mainVars, spc, sharedVars, passedVars>>

RelayBytes ==
  /\ relayed
  /\ relayed' = FALSE
  /\ inbuf' = <<>>
  /\ stdin' = stdin \o inbuf
  /\ UNCHANGED <<typed, signals, mainVars, spc, sharedVars, passedVars>>

----------------------------------------------------------------------------
(* kill, and ExecutionContext::kill_all under the mutex: one process a     *)
(* step, in order, giving up at the first that kill refuses.               *)
Dying(p) == [proc EXCEPT ![p] = IF @ = "running" THEN "killed" ELSE @]

MayRefuseKill(p) == "kill" \in Faults /\ proc[p] = "exited"

KillFirstOnly ==
  /\ victims # <<>>
  /\ proc' = Dying(Head(victims))
  /\ victims' = <<>>
  /\ UNCHANGED passedVars

KillOne ==
  /\ victims # <<>>
  /\ \/ /\ proc' = Dying(Head(victims))
        /\ victims' = Tail(victims)
        /\ UNCHANGED spared
     \/ /\ MayRefuseKill(Head(victims))
        /\ victims' = <<>>
        /\ spared' = spared \cup Range(Tail(victims))
        /\ UNCHANGED proc
  /\ UNCHANGED unwaited

(* clear_ctx up to the loop: take the context, and keep the mutex while it *)
(* is killed.                                                              *)
TakeCtx(thread) ==
  /\ lock = "free"
  /\ ctx # None
  /\ ctx' = None
  /\ lock' = thread
  /\ victims' = ctx

NothingTried == ctx = None /\ UNCHANGED <<ctx, lock, victims>>

NothingToTake == lock = "free" /\ ctx = None /\ UNCHANGED <<ctx, lock, victims>>

(* The end of the loop drops the mutex. *)
UnlockNever == victims = <<>> /\ UNCHANGED <<lock, victims, proc, passedVars>>

Unlock == victims = <<>> /\ lock' = "free" /\ UNCHANGED <<victims, proc, passedVars>>

----------------------------------------------------------------------------
(* The shell's main thread. *)

(* read(STDIN): whatever the pipe holds, at most one buffer of it. *)
ReadStdin ==
  /\ mpc = "read" /\ stdin # <<>>
  /\ mpc' = "parse" /\ mbuf' = stdin /\ stdin' = <<>>
  /\ UNCHANGED <<typed, inbuf, relayed, signals, stages, job, waiting, orphans,
                 spc, sharedVars, passedVars>>

(* The parser hands over the next key; a line that is no command, and any  *)
(* key but a line feed, leaves the jobs alone.                             *)
ParseKey ==
  /\ mpc = "parse" /\ mbuf # <<>>
  /\ mbuf' = Tail(mbuf)
  /\ \/ UNCHANGED <<mpc, stages>>
     \/ /\ Head(mbuf) = "line"
        /\ stages' \in 1 .. MaxStages
        /\ mpc' = "spawn"
  /\ UNCHANGED <<inputVars, job, waiting, orphans, spc, sharedVars, passedVars>>

EndOfChunk ==
  /\ mpc = "parse" /\ mbuf = <<>>
  /\ mpc' = "read"
  /\ UNCHANGED <<inputVars, mbuf, stages, job, waiting, orphans, spc, sharedVars, passedVars>>

(* execute_all: a stage is a process, or a builtin, which is none.         *)
NextStageLate(started) ==
  /\ job' = job \o started
  /\ stages' = stages - 1
  /\ mpc' = IF stages = 0 THEN "set_ctx" ELSE "spawn"

NextStage(started) ==
  /\ job' = job \o started
  /\ stages' = stages - 1
  /\ mpc' = IF stages = 1 THEN "set_ctx" ELSE "spawn"

SpawnProcess ==
  /\ mpc = "spawn"
  /\ \E p \in Pids :
       /\ proc[p] = "unborn"
       /\ proc' = [proc EXCEPT ![p] = "running"]
       /\ NextStage(<<p>>)
  /\ UNCHANGED <<inputVars, mbuf, waiting, orphans, spc, fg, ctx, lock, victims, passedVars>>

RunBuiltin ==
  /\ mpc = "spawn"
  /\ NextStage(<<>>)
  /\ UNCHANGED <<inputVars, mbuf, waiting, orphans, spc, sharedVars, passedVars>>

(* A redirection, a pipe or the spawn fails: `res?` drops the context, and *)
(* linefeed reports the error and prompts again.                           *)
SpawnFails ==
  /\ mpc = "spawn"
  /\ orphans' = orphans \cup Range(job)
  /\ job' = <<>> /\ stages' = 0
  /\ mpc' = "parse"
  /\ UNCHANGED <<inputVars, mbuf, waiting, spc, sharedVars, passedVars>>

(* wait_: install the context, then leave the foreground.  set_ctx kills   *)
(* a context it finds; CtxIsCurrentJob says that it never finds one.       *)
SetCtx ==
  /\ mpc = "set_ctx" /\ lock = "free"
  /\ ctx' = job
  /\ proc' = IF ctx = None THEN proc
             ELSE [p \in Pids |-> IF p \in Range(ctx) /\ proc[p] = "running"
                                  THEN "killed" ELSE proc[p]]
  /\ mpc' = "set_bg"
  /\ UNCHANGED <<inputVars, mbuf, stages, job, waiting, orphans, spc, fg, lock, victims, passedVars>>

SetBg ==
  /\ mpc = "set_bg"
  /\ fg' = FALSE
  /\ waiting' = job
  /\ mpc' = "wait"
  /\ UNCHANGED <<inputVars, mbuf, stages, job, orphans, spc, ctx, lock, victims, proc, passedVars>>

(* wait_all: wait for the processes in order; the first refused wait ends it. *)
WaitNext ==
  /\ mpc = "wait" /\ waiting # <<>>
  /\ proc[Head(waiting)] = "exited"
  /\ waiting' = Tail(waiting)
  /\ UNCHANGED <<inputVars, mbuf, mpc, stages, job, orphans, spc, sharedVars, passedVars>>

WaitReturnsEarly ==
  /\ mpc = "wait"
  /\ waiting = <<>> \/ "wait" \in Faults
  /\ waiting' = <<>>
  /\ unwaited' = unwaited \cup Range(waiting)
  /\ mpc' = IF waiting = <<>> THEN "clear" ELSE "drain"
  /\ UNCHANGED <<inputVars, mbuf, stages, job, orphans, spc, sharedVars, spared>>

WaitFirstOnly ==
  /\ mpc = "wait" /\ waiting # job
  /\ waiting' = <<>>
  /\ mpc' = "clear"
  /\ UNCHANGED <<inputVars, mbuf, stages, job, orphans, spc, sharedVars, passedVars>>

WaitDone ==
  /\ mpc = "wait"
  /\ waiting = <<>> \/ "wait" \in Faults
  /\ waiting' = <<>>
  /\ unwaited' = unwaited \cup Range(waiting)
  /\ mpc' = "clear"
  /\ UNCHANGED <<inputVars, mbuf, stages, job, orphans, spc, sharedVars, spared>>

(* wait_'s clear_ctx. *)
MainClears ==
  /\ mpc = "clear"
  /\ \/ NothingToTake /\ mpc' = "drain"
     \/ TakeCtx("main") /\ mpc' = "kill"
  /\ UNCHANGED <<inputVars, mbuf, stages, job, waiting, orphans, spc, fg, proc, passedVars>>

MainKills ==
  /\ mpc = "kill"
  /\ \/ KillOne /\ UNCHANGED <<lock, mpc>>
     \/ Unlock /\ mpc' = "drain"
  /\ UNCHANGED <<inputVars, mbuf, stages, job, waiting, orphans, spc, fg, ctx>>

(* drain_stdin, then the prompt. *)
DrainStdin ==
  /\ mpc = "drain"
  /\ stdin' = <<>>
  /\ job' = <<>>
  /\ mpc' = "parse"
  /\ UNCHANGED <<typed, inbuf, relayed, signals, mbuf, stages, waiting, orphans,
                 spc, sharedVars, passedVars>>

----------------------------------------------------------------------------
(* The shell's signal thread: signal_handler. *)
ReadSignal ==
  /\ spc = "read" /\ signals # <<>>
  /\ signals' = Tail(signals)
  /\ spc' = IF Head(signals) = "abort" THEN "is_fg" ELSE "read"
  /\ UNCHANGED <<typed, inbuf, relayed, stdin, mainVars, sharedVars, passedVars>>

SignalIsFg ==
  /\ spc = "is_fg"
  /\ spc' = IF fg THEN "read" ELSE "get_ctx"
  /\ UNCHANGED <<inputVars, mainVars, sharedVars, passedVars>>

SignalHoldsCtx ==
  /\ spc = "get_ctx" /\ lock = "free"
  /\ spc' = IF ctx = None THEN "read" ELSE "clear"
  /\ lock' = IF ctx = None THEN "free" ELSE "signal"
  /\ UNCHANGED <<inputVars, mainVars, fg, ctx, victims, proc, passedVars>>

SignalGetCtx ==
  /\ spc = "get_ctx" /\ lock = "free"
  /\ spc' = IF ctx = None THEN "read" ELSE "clear"
  /\ UNCHANGED <<inputVars, mainVars, sharedVars, passedVars>>

SignalClears ==
  /\ spc = "clear"
  /\ \/ NothingToTake /\ spc' = "set_fg"
     \/ TakeCtx("signal") /\ spc' = "kill"
  /\ UNCHANGED <<inputVars, mainVars, fg, proc, passedVars>>

SignalKills ==
  /\ spc = "kill"
  /\ \/ KillOne /\ UNCHANGED <<lock, spc>>
     \/ Unlock /\ spc' = "set_fg"
  /\ UNCHANGED <<inputVars, mainVars, fg, ctx>>

SignalSetFg ==
  /\ spc = "set_fg"
  /\ fg' = TRUE
  /\ spc' = "read"
  /\ UNCHANGED <<inputVars, mainVars, ctx, lock, victims, proc, passedVars>>

----------------------------------------------------------------------------
(* The kernel: a process exits by itself, or because it was killed. *)
Exit(p) ==
  /\ proc[p] \in {"running", "killed"}
  /\ proc' = [proc EXCEPT ![p] = "exited"]
  /\ UNCHANGED <<inputVars, mainVars, spc, fg, ctx, lock, victims, passedVars>>

Input == ReadKeyboard \/ RelaySignals \/ RelayBytes

Execute == SpawnProcess \/ RunBuiltin \/ SpawnFails

Wait == SetCtx \/ SetBg \/ WaitNext \/ WaitDone \/ MainClears \/ MainKills

Main == ReadStdin \/ ParseKey \/ EndOfChunk \/ Execute \/ Wait \/ DrainStdin

Signal ==
  \/ ReadSignal \/ SignalIsFg \/ SignalGetCtx
  \/ SignalClears \/ SignalKills \/ SignalSetFg

Next == Input \/ Main \/ Signal \/ \E p \in Pids : Exit(p)

Spec == Init /\ [][Next]_vars

(* Every thread keeps running, and a killed process exits in the end; the  *)
(* user need not type and a process nobody kills need not exit.            *)
Fairness ==
  /\ WF_vars(Main)
  /\ WF_vars(Signal)
  /\ WF_vars(RelaySignals \/ RelayBytes)
  /\ \A p \in Pids : WF_vars(proc[p] = "killed" /\ Exit(p))

FairSpec == Spec /\ Fairness

----------------------------------------------------------------------------
(* Properties *)

(* A context is installed only while main is in wait_ for that very job,   *)
(* whatever the signal thread does: so set_ctx never finds the "stale ctx" *)
(* it would kill, and an abort can only reach the job on the screen.       *)
CtxIsCurrentJob == ctx # None => mpc \in {"set_bg", "wait", "clear"} /\ ctx = job

(* While the signal thread kills, main is still in wait_ of the job that   *)
(* is being killed: it cannot pass its own clear_ctx, since kill_all runs  *)
(* under the mutex, and start the next job.                                *)
KillHitsCurrentJob ==
  lock = "signal" => mpc \in {"set_bg", "wait", "clear"} /\ Range(victims) \subseteq Range(job)

(* When the shell is back at its prompt no process of a started job runs   *)
(* unkilled, also when an abort, a refused wait and main's own clear_ctx   *)
(* came together.  A process that does run on was left by a job that       *)
(* failed to start (execute_all's `res?`), or passed over twice: by        *)
(* kill_all after a refused kill, and by wait_all after a refused wait.    *)
(* One of the two refusals alone leaves none.                              *)
Running == {p \in Pids : proc[p] = "running"}
PromptMeansJobDone ==
  mpc \in {"read", "parse", "drain"} => Running \subseteq orphans \cup (spared \cap unwaited)

(* A running process is killed by the signal thread, or by main because a  *)
(* refused wait made wait_all pass it over: the clear_ctx at the end of    *)
(* every wait_ kills no other.                                             *)
OnlyAbortsKill ==
  [][\A p \in Pids : proc[p] = "running" /\ proc'[p] = "killed"
                        => lock = "signal" \/ p \in unwaited]_vars

(* Once the signal thread has taken a job's context the prompt comes back, *)
(* unless a refused kill has made kill_all pass over a process of that     *)
(* job, which may then run for ever and can no longer be aborted.          *)
AbortEndsJob == lock = "signal" ~> mpc \in {"read", "parse"} \/ Range(job) \cap spared # {}

(* When all processes of a job have exited the prompt comes back, whatever *)
(* the signal thread does with the context and its mutex meanwhile.        *)
JobDoneReturns ==
  mpc = "wait" /\ (\A p \in Range(job) : proc[p] = "exited") ~> mpc = "parse"

(* The signal thread never stops reading its pipe: it is not blocked for   *)
(* ever on the mutex that it or main holds.                                *)
SignalsAreRead == signals # <<>> ~> signals = <<>>

(* What term/src/main.rs:35 says, "act on signals such as ctrl-c": when    *)
(* the signal thread looks at an abort while main waits for a process that *)
(* runs, it does not take the shell for being in the foreground and drop   *)
(* the signal.  The code breaks this: see the README.                      *)
AbortIsHeard == spc = "is_fg" /\ mpc = "wait" /\ Range(job) \cap Running # {} => ~fg
=============================================================================
