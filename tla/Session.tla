------------------------------ MODULE Session ------------------------------
(***************************************************************************)
(* A session from boot on: the terminal starts the shell, tells it over    *)
(* standard input which descriptor its signals come from, and starts its   *)
(* threads (term/src/init.rs, main.rs); the shell reads that, prompts,     *)
(* throws away what was typed too early and answers keys (shell/src/init.rs, *)
(* main.rs); a line feed runs a job, and what was typed meanwhile is thrown *)
(* away too (logic/state.rs); the answers and the job's output go over the *)
(* output reader (term/src/output.rs) to the event loop, which draws when  *)
(* it finds its queue empty (term/src/main.rs, state.rs flush).            *)
(*                                                                         *)
(* An answer is the echo of a key, a prompt or a job's output, as a whole: *)
(* what editing and parsing do to it is Console's matter, and which rows   *)
(* of it a frame has room for is Scrollback's.                             *)
(***************************************************************************)
EXTENDS Naturals, Sequences, SequencesExt

CONSTANTS
  Keys,      \* the keys the user types, each once, that have an echo
  Enters,    \* those of them that are line feeds
  MaxQueue,  \* bound: packets waiting for the event loop
  MaxOut     \* bound: a job writes when less than this is unread

ASSUME SessionAssumption ==
  /\ Enters \subseteq Keys /\ {"prompt", "again", "output"} \cap Keys = {}
  /\ {MaxQueue, MaxOut} \subseteq Nat

VARIABLES
  tpc,       \* terminal, main thread: what it does next, or "dead"
  threads,   \* the threads it has started
  sent,      \* history: it has sent the four bytes
  typed,     \* the keys the user has typed
  stdin,     \* the shell's standard input pipe
  spc,       \* shell, main thread: what it does next, or "exited"
  got,       \* the bytes of signal_fd_buf that have been read
  keys,      \* what main has read into buf and not parsed yet
  out,       \* the shell's standard output pipe
  queue,     \* the packets stdout_handler has pushed
  rows,      \* what the terminal has parsed
  dirty,     \* TermState.dirty is not Clean
  frame,     \* rows as they were drawn last
  owed       \* history: the answers the user may expect to see

bootVars   == <<tpc, threads, sent>>
screenVars == <<rows, dirty, frame>>
shellVars  == <<spc, got, keys>>
userVars   == <<typed, owed>>
vars == <<bootVars, screenVars, shellVars, userVars, stdin, out, queue>>

FdBytes == << "fd1", "fd2", "fd3", "fd4" >>  \* signal_ids[0].to_be_bytes()
Answers == Keys \cup {"prompt", "again", "output"}

TypeOK ==
  /\ tpc \in {"spawn", "keyboard", "hello", "threads", "loop", "dead"}
  /\ threads \subseteq {"input", "stderr", "stdout"} /\ sent \in BOOLEAN
  /\ typed \subseteq Keys /\ stdin \in Seq(Keys \cup Range(FdBytes))
  /\ spc \in {"none", "init", "new", "drain", "loop", "job", "redrain", "exited"}
  /\ got \in Seq(Keys \cup Range(FdBytes)) /\ Len(got) <= 4 /\ keys \in Seq(Keys)
  /\ out \in Seq(Answers) /\ queue \in Seq(Seq(Answers))
  /\ rows \subseteq Answers /\ dirty \in BOOLEAN /\ frame \subseteq Answers
  /\ owed \subseteq Answers

----------------------------------------------------------------------------
(* TermState::new has nothing to show and is dirty. *)
Init ==
  /\ tpc = "spawn" /\ threads = {} /\ sent = FALSE
  /\ spc = "none" /\ got = <<>> /\ keys = <<>>
  /\ typed = {} /\ stdin = <<>> /\ out = <<>> /\ queue = <<>>
  /\ rows = {} /\ dirty = TRUE /\ frame = {}
  /\ owed = {}

(* The terminal's init, and main up to the event loop. *)
SpawnShell ==
  /\ tpc = "spawn" /\ tpc' = "keyboard"
  /\ spc' = "init"
  /\ UNCHANGED <<threads, sent, screenVars, got, keys, userVars, stdin, out, queue>>

HookKeyboard ==
  /\ tpc = "keyboard" /\ tpc' = "hello"
  /\ UNCHANGED <<threads, sent, screenVars, shellVars, userVars, stdin, out, queue>>

SendFd ==
  /\ tpc = "hello" /\ tpc' = "threads"
  /\ sent' = TRUE
  /\ stdin' = stdin \o FdBytes
  /\ UNCHANGED <<threads, screenVars, shellVars, userVars, out, queue>>

NextThread ==
  CASE threads = {}                  -> "input"
    [] threads = {"input"}           -> "stderr"
    [] threads = {"input", "stderr"} -> "stdout"

StartThread ==
  /\ tpc = "threads"
  /\ threads' = threads \cup {NextThread}
  /\ tpc' = IF NextThread = "stdout" THEN "loop" ELSE "threads"
  /\ UNCHANGED <<sent, screenVars, shellVars, userVars, stdin, out, queue>>

(* Any of these may be refused, and is unwrapped: the terminal panics.     *)
BootFails ==
  /\ tpc \in {"spawn", "keyboard", "hello", "threads"} /\ tpc' = "dead"
  /\ UNCHANGED <<threads, sent, screenVars, shellVars, userVars, stdin, out, queue>>

Runs(thread) == thread \in threads /\ tpc # "dead"

(* The input thread, for a key that is no signal.  The user may expect to  *)
(* see what is typed into a line: when the shell is in its main loop and   *)
(* no line feed waits before the key.                                      *)
IntoLine == spc = "loop" /\ Range(keys \o stdin) \cap Enters = {}

Relayed(key) ==
  /\ key \notin typed
  /\ typed' = typed \cup {key}
  /\ stdin' = Append(stdin, key)
  /\ owed' = IF IntoLine THEN owed \cup {key} ELSE owed
  /\ UNCHANGED <<bootVars, screenVars, shellVars, out, queue>>

RelayKeyAtOnce(key) == tpc \notin {"spawn", "dead"} /\ Relayed(key)

RelayKey(key) == Runs("input") /\ Relayed(key)

----------------------------------------------------------------------------
(* The shell.  init reads what is missing of the four bytes, as much as    *)
(* there is, and goes on with what it has at the end of its input.         *)
Least(m, n) == IF m <= n THEN m ELSE n

ReadFdFull ==
  /\ spc = "init"
  /\ \/ /\ stdin # <<>> /\ Len(got) < 4
        /\ \E n \in 1 .. Least(4, Len(stdin)) :
             /\ got' = got \o SubSeq(stdin, 1, n)
             /\ stdin' = SubSeq(stdin, n + 1, Len(stdin))
        /\ UNCHANGED spc
     \/ /\ Len(got) >= 4 \/ (stdin = <<>> /\ tpc = "dead")
        /\ spc' = "new"
        /\ UNCHANGED <<got, stdin>>
  /\ UNCHANGED <<bootVars, screenVars, keys, userVars, out, queue>>

ReadFd ==
  /\ spc = "init"
  /\ \/ /\ stdin # <<>> /\ Len(got) < 4
        /\ \E n \in 1 .. Least(4 - Len(got), Len(stdin)) :
             /\ got' = got \o SubSeq(stdin, 1, n)
             /\ stdin' = SubSeq(stdin, n + 1, Len(stdin))
        /\ UNCHANGED spc
     \/ /\ Len(got) = 4 \/ (stdin = <<>> /\ tpc = "dead")
        /\ spc' = "new"
        /\ UNCHANGED <<got, stdin>>
  /\ UNCHANGED <<bootVars, screenVars, keys, userVars, out, queue>>

Shows(answer) == out' = Append(out, answer) /\ owed' = owed \cup {answer}

(* The signal thread is started with that descriptor; ShellState::new      *)
(* prompts.                                                                *)
Prompt ==
  /\ spc = "new" /\ spc' = "drain"
  /\ Shows("prompt")
  /\ UNCHANGED <<bootVars, screenVars, got, keys, typed, stdin, queue>>

(* drain_stdin throws away what a read returns, some of what is there, and *)
(* ends when there is nothing to read or a read is refused: before the     *)
(* main loop, and after a job, whose line feed ends with a new prompt.     *)
DrainStdin ==
  /\ spc \in {"drain", "redrain"} /\ stdin # <<>>
  /\ \E n \in 1 .. Len(stdin) : stdin' = SubSeq(stdin, n + 1, Len(stdin))
  /\ UNCHANGED <<bootVars, screenVars, shellVars, userVars, out, queue>>

DrainEnds ==
  /\ \/ spc = "drain" /\ UNCHANGED <<out, owed>>
     \/ spc = "redrain" /\ Shows("again")
  /\ spc' = "loop"
  /\ UNCHANGED <<bootVars, screenVars, got, keys, typed, stdin, queue>>

(* The main loop reads some of what is there and answers it key by key.    *)
ReadKeys ==
  /\ spc = "loop" /\ keys = <<>>
  /\ \E n \in 1 .. Len(stdin) :
       /\ keys' = SubSeq(stdin, 1, n)
       /\ stdin' = SubSeq(stdin, n + 1, Len(stdin))
  /\ UNCHANGED <<bootVars, screenVars, spc, got, userVars, out, queue>>

AnswerKey ==
  /\ spc = "loop" /\ keys # <<>> /\ Head(keys) \notin Enters
  /\ keys' = Tail(keys)
  /\ out' = Append(out, Head(keys))
  /\ UNCHANGED <<bootVars, screenVars, spc, got, userVars, stdin, queue>>

(* A line that starts no job is followed by the prompt at once. *)
Linefeed ==
  /\ spc = "loop" /\ keys # <<>> /\ Head(keys) \in Enters
  /\ keys' = Tail(keys)
  /\ \/ spc' = "job" /\ out' = Append(out, Head(keys)) /\ UNCHANGED owed
     \/ spc' = "loop" /\ out' = out \o <<Head(keys), "again">> /\ owed' = owed \cup {"again"}
  /\ UNCHANGED <<bootVars, screenVars, got, typed, stdin, queue>>

(* The job has the shell's standard input and output while wait_ waits.    *)
(* (A process that outlives a job, which JobControl's failures leave, is   *)
(* not modelled here: it would read and write in the main loop too.)       *)
JobWrites ==
  /\ spc = "job" /\ Len(out) < MaxOut
  /\ Shows("output")
  /\ UNCHANGED <<bootVars, screenVars, shellVars, typed, stdin, queue>>

JobReads ==
  /\ spc = "job"
  /\ \E n \in 1 .. Len(stdin) : stdin' = SubSeq(stdin, n + 1, Len(stdin))
  /\ UNCHANGED <<bootVars, screenVars, shellVars, userVars, out, queue>>

JobEnds ==
  /\ spc = "job" /\ spc' = "redrain"
  /\ UNCHANGED <<bootVars, screenVars, got, keys, userVars, stdin, out, queue>>

(* A read that is refused is unwrapped. *)
ShellPanics ==
  /\ spc = "init" \/ (spc = "loop" /\ keys = <<>>)
  /\ spc' = "exited"
  /\ UNCHANGED <<bootVars, screenVars, got, keys, userVars, stdin, out, queue>>

----------------------------------------------------------------------------
(* stdout_handler: what there is, or some of it.  Once the shell has       *)
(* exited and all is read, each read ends at once with nothing, and that   *)
(* is pushed too.                                                          *)
ReadStdout ==
  /\ Runs("stdout") /\ Len(queue) < MaxQueue
  /\ \/ \E n \in 1 .. Len(out) :
          /\ queue' = Append(queue, SubSeq(out, 1, n))
          /\ out' = SubSeq(out, n + 1, Len(out))
     \/ /\ out = <<>> /\ spc = "exited"
        /\ queue' = Append(queue, <<>>)
        /\ UNCHANGED out
  /\ UNCHANGED <<bootVars, screenVars, shellVars, userVars, stdin>>

(* The event loop: everything queued is processed before a flush, which    *)
(* draws what has changed.                                                 *)
ProcessEventsClean ==
  /\ tpc = "loop" /\ queue # <<>>
  /\ queue' = Tail(queue)
  /\ rows' = rows \cup Range(Head(queue))
  /\ UNCHANGED <<bootVars, dirty, frame, shellVars, userVars, stdin, out>>

ProcessEvents ==
  /\ tpc = "loop" /\ queue # <<>>
  /\ queue' = Tail(queue)
  /\ rows' = rows \cup Range(Head(queue))
  /\ dirty' = (dirty \/ Head(queue) # <<>>)
  /\ UNCHANGED <<bootVars, frame, shellVars, userVars, stdin, out>>

Flush ==
  /\ tpc = "loop" /\ queue = <<>> /\ dirty
  /\ frame' = rows /\ dirty' = FALSE
  /\ UNCHANGED <<bootVars, rows, shellVars, userVars, stdin, out, queue>>

----------------------------------------------------------------------------
TermMain ==
  \/ SpawnShell \/ HookKeyboard \/ SendFd \/ StartThread
  \/ ProcessEvents \/ Flush

ShellMain ==
  \/ ReadFd \/ Prompt \/ DrainStdin \/ DrainEnds
  \/ ReadKeys \/ AnswerKey \/ Linefeed

Job == JobWrites \/ JobReads \/ JobEnds

Next ==
  \/ TermMain \/ ShellMain \/ Job \/ ReadStdout \/ BootFails \/ ShellPanics
  \/ \E key \in Keys : RelayKey(key)

Spec == Init /\ [][Next]_vars

(* The threads and the shell are scheduled; nothing need fail, the user    *)
(* need not type, and a job need do nothing, not even end.                 *)
FairSpec == Spec /\ WF_vars(TermMain) /\ WF_vars(ShellMain) /\ WF_vars(ReadStdout)

----------------------------------------------------------------------------
(* Properties *)

(* The shell takes its signals from the descriptor that the terminal sent, *)
(* however its reads cut the four bytes, however early the user types and  *)
(* also when the terminal dies afterwards.  (If it has died before sending *)
(* it, from whatever the shell has.)                                       *)
HandshakeIntact ==
  spc \notin {"none", "init", "exited"} => got = FdBytes \/ (tpc = "dead" /\ ~sent)

(* While neither side panics, every prompt, all that a job writes and      *)
(* every key typed into a line are on the screen in the end: they pass two *)
(* pipes, the queue and a flush, and no drain_stdin takes them.  A job     *)
(* that never stops writing is the exception: the event loop flushes only  *)
(* when it finds its queue empty, which such a job may keep it from.       *)
EveryAnswerIsDrawn ==
  \A answer \in Answers :
    \/ []<><<JobWrites>>_vars
    \/ answer \in owed ~> answer \in frame \/ spc = "exited" \/ tpc = "dead"
=============================================================================
