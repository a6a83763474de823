# tinyTerm in TLA+

tinyTerm is two programs for tinyOS: `term`, a graphical terminal emulator, and
`shell` (tinyShell), a command line that the terminal starts and talks to over
four pipes. This directory holds TLA+ models of the parts of the two that keep
state, the TLC configurations that check them, and proofs, for every value of
the constants, of all safety properties that the runs check.

Paths below are relative to the repository; `jobs.rs` is
`shell/src/logic/jobs.rs`, and `state.rs` is the terminal's `term/src/state.rs`.

## 1. The system

```
 keyboard -> input_loop --bytes---> stdin --> main loop -> ShellState -> jobs
             (term)    --signals--> pipe --> signal_handler  (shell)      |
                                                 |                        |
                                  StaticEnv: active_exec_ctx, shell_is_fg |
                                                                          |
 screen <- flush <- TermState <- event queue <- stdout_handler <-- stdout +
                    (event_loop)                 (term)        <-- jobs' output
```

The terminal has four threads (event loop, input, standard output, standard
error), the shell has two (main and signals). They share nothing across the two
programs but pipes; inside the terminal they share a queue of packets, inside
the shell the static environment.

### Components, their state, what makes them correct

| Component | State | Operations | What should hold |
|---|---|---|---|
| Screen state, `TermState` (`state.rs`) | rows, window `visible`, cursor, dirty flag | vte handlers `input`, `put_tab`, `backspace`, `move_*`, `carriage_return`, `linefeed`, `newline`, `clear_screen`; `add_line`; `draw`, `flush` | no index out of bounds; no line lost, duplicated or changed by scrolling and draining; what is drawn is what is stored |
| Parsing, `process_events` and `event_loop` (`state.rs`, `term/src/main.rs`) | packet queue; a vte parser per packet | pop, parse, flush when the queue is empty | escape sequences take effect and never show as text |
| Output readers (`term/src/output.rs`) | a 1024-byte buffer; a 64-byte buffer for stderr | read, push a packet; stderr is copied to the serial console | nothing lost or reordered; the stderr thread survives what jobs print |
| Input thread (`term/src/input.rs`) | the chunk just read | write the chunk's signals, then its bytes | aborts reach the shell |
| Line editor, `ShellState` (`shell/src/logic/state.rs`) | `input_buf` with the prompt, `cursor` | one handler per key; `linefeed` runs the command | no panic; the screen shows the line that is edited |
| Shell main (`shell/src/main.rs`) | a chunk of keys, the parser | read, parse, `drain_stdin` | goes on after every job |
| Job start, `execute_all`, `execute_one` (`jobs.rs`) | descriptor tables under construction, open descriptors, the context | open pipes and files, spawn, close | stages are connected as asked; no descriptor outlives the start, on any return |
| Job wait and abort, `wait_`, `signal_handler` (`jobs.rs`, `shell/src/env.rs`) | `active_exec_ctx` (spin mutex), `shell_is_fg` (atomic) | `set_ctx`, `set_bg`, `wait_all`, `clear_ctx`, `kill_all`, `set_fg` | an abort ends the job on the screen and no other; the prompt means the job is over |
| Variables and working directory (`shell/src/env.rs`, `builtins/cd.rs`) | `vars` (rwlock), `open_wd` | `joined`, `update_cwd`, `cd`, `resolve_relative` | `CWD` names an open directory; no descriptor is lost; all of a line is resolved against one directory |
| Tokenizer (`shell/src/parse.rs`) | byte cursor, tokens so far | `tokenize`, `parse_pipe`, `parse_redir`, `parse_literal`, `parse_num` | ends; follows the grammar of its comments |
| Command builder (`jobs.rs`, `build`) | token stream | `build` | the chain is what the user meant; no word of the line is moved, doubled or skipped; `execute_all` can start what is built |
| Boot (`term/src/init.rs`, `term/src/main.rs`, `shell/src/init.rs`) | four pipes, the threads started | pass the signal descriptor over stdin | the four bytes come before any key; what is typed at the prompt is answered on the screen |
| Configuration (`term/src/parse.rs`) | a file any job may write | read at each draw | not modelled: the colours decide nothing (section 6) |
| Graphics backend, build scripts | constants | none | nothing to check |

### What is hard here

* Three threads touch one job: main starts and waits for it, the signal thread
  kills it, and both clear the same context; a flag set late belongs to the
  wrong job.
* The shell and the terminal each keep the line being edited and never compare
  them; the stream between them is cut at arbitrary places, also inside an escape
  sequence or a character, and what a job and `drain_stdin` leave of the keys
  typed meanwhile depends on when they read.
* `add_line` keeps three indices into a vector that is drained from the front.
* The command line passes a hand-written tokenizer and a recursive builder whose
  loops share a peeked stream; a token taken by the wrong one is a silently
  different command.
* At boot the pipe that will carry the keys first carries a descriptor, in
  reads that may be cut anywhere.
* `CWD` is a name and `open_wd` a descriptor; between them stand three system
  calls that may each be refused. A line copies its variables before its first
  stage, and a `cd` in the line changes them.
* A pipeline starts in many small steps, every one of which can fail, and a
  forgotten write end hangs a process (and `wait_`) much later.

The full list, with lines, is under `hazards` in PROJECT.json.

## 2. Modules

| Module | Models | Lines it stands for |
|---|---|---|
| `CaretLine` | one line of cells with a caret, and the steps that edit it | `state.rs` `BufferLine`, `input`, `backspace`, `put_tab`, `move_*` |
| `Tty` | abstract specification: what a terminal promises of its current line | the same handlers, without rows |
| `Scrollback` | `TermState`: rows, window, cursor, dirty flag, and the frame drawn last | all of `impl Handler`, `add_line`, `draw`, `flush` |
| `Console` | `ShellState`, the stdout pipe, the packet queue, the parser per packet, the terminal's current line | `shell/src/logic/state.rs`, `output.rs`, `process_events` |
| `JobControl` | input thread, main thread, signal thread, the shared context and flag, processes | `input.rs`, `shell/src/main.rs`, `wait_`, `signal_handler`, `env.rs` |
| `Pipeline` | `execute_all` and `execute_one`: pipes, redirections, spawns, closes, failures | `jobs.rs` 161-299, 388-498 |
| `Tokenizer` | `Tokenizer_`: a line of character classes cut into tokens, one `parse_token` a step | `shell/src/parse.rs` |
| `CommandLine` | EXTENDS `Tokenizer` with `Command_::build`: from a line to the chain of stages | `jobs.rs` 60-158, 411-440, `linefeed` |
| `WorkingDir` | `CWD`, `open_wd`, `cd`, and what is resolved against them | `shell/src/env.rs`, `builtins/`, `jobs.rs` 86-106, 249-330 |
| `Session` | both programs from boot on: handshake, threads, prompt, keys, jobs, `drain_stdin`, packets, draws | `init.rs` and `main.rs` of both, `linefeed`, `output.rs`, `flush` |
| `MC...` | symmetry sets; the pipelines, lines and jobs TLC tries | - |
| `...Proofs` | proofs of `CaretLine`, `Scrollback`, `Console`, `JobControl`, `Pipeline`, `WorkingDir`, `CommandLine` (with its tokenizer) and `Session` | - |

`Scrollback` and `Console` both EXTEND `CaretLine`: the first uses it for the
row under the cursor, the second for the terminal's current line, which is
justified by `Scrollback` implementing `Tty` (`ImplementsTty`).

### Scrollback

`term` is the struct `TermState` (rows, `visible`, `_cursor`, `dirty`); `frame`
is what `draw` put on the screen. Each handler is one action, and one atomic
step: the event loop is the only thread that touches the state. A packet may
end after any handler, so `Flush` is enabled after each. `add_line` is built
from the parts a reader wants to check one by one: `Drained`, `Scrolled`,
`Grown`, `NextRow`. Rows and columns count from 0 as in the code; row `r` is
`rows[r + 1]`. `draw`'s colours, border and wrapping are left out. `put_tab` is
called by vte with count 1 only, and is modelled so; its `splice(col..=col)`
replaces the cell under the caret, unlike `input`, which inserts.

### Console

An escape sequence is three bytes and a character of `Wide` two, a lead byte and
one of its own, since a packet can end inside either; every other byte stands
for a character. (Characters of three and four bytes are cut in the same two
ways, before the last byte or not.) `ReadStdout` takes any prefix of the pipe. A
parser is created at the start of `ProcessEvents` and dropped at its end, as in
`process_events`, and with it what it has seen of a sequence or a character: the
second byte alone is then shown as U+FFFD, or is a C1 control that does nothing
(`C1`). `torn` is a history variable: how many packets have ended like that
since a carriage return was parsed. `MaxTears` bounds it, by keeping the reader
from a cut too many; the theorems hold for every `MaxTears`. Every handler of
the shell is enabled whatever the screen shows, on a garbled line too. A job's
output is letters and line feeds (a job that moves the cursor is free to garble
its own output), and the job is the interval between the `Linefeed` and
`NewPrompt` actions.

### JobControl

One action is what a thread does between two operations on state another
thread, or the kernel, can see. `RelaySignals` and `RelayBytes` are the two
writes of `input_loop`. `mpc` walks main through `execute_all` (`spawn`),
`wait_` (`set_ctx`, `set_bg`, `wait`, `clear`, `kill`) and `drain_stdin`; `spc`
walks the signal thread through `signal_handler`. In `clear_ctx` the guard
returned by `lock()` lives to the end of the `if let`, so `kill_all` runs under
the mutex: `lock` and `victims` model that, a process a step. A process is
`killed` until the kernel lets it exit. `Faults` names the system calls that the
kernel may refuse, each any number of times and both in one job: `wait_pid`
(`wait_all` then stops at once, and `clear_ctx` kills what is left) and the
`kill` of an exited process (`kill_all` stops at once). Three history variables
say which processes nobody looks after any more: `orphans`, which `execute_all`
dropped because a later stage failed to start; `spared`, which `kill_all` passed
over; `unwaited`, which `wait_all` passed over. A resumed `ParseKey` after a
line covers an empty or malformed line and every key that is not a line feed.

### Pipeline

A descriptor table maps descriptors to the terminal, a file, or an end of a
pipe; `Inherit` is `FDActionBuilder::add_inherit`, where the last action for a
descriptor counts. `temp` is `should_close`. `OpenPipe` takes the links in any
order, as the hash map may give them. `Fails` is any `?` on the way, all of
which drop `should_close`. `CloseOne` is `OpenFd::drop`; a close that the kernel
refuses is only logged there, and `leaked` keeps what stays open. A builtin gets
a table and ignores it. The kernel is external: `AtEof` says that no process and
not the shell, by `temp` or `leaked`, holds the write end of any pipe a process
reads.

### Tokenizer and CommandLine

The line is a sequence of character classes: letters without meaning, digits,
`& , =`, the operator characters, the blank, and white space that is not ASCII.
The cursor counts characters; the code counts bytes but moves by whole
characters. Quotes count as letters, since the code has no treatment for them
(`TODO quotes`). Each of `ParsePipe`, `ParseRedir` and `ParseLiteral` is one
`parse_token`, in the order in which `parse_token` tries them; an error ends the
line. `parse_num` wraps at `Word`, which stands for 2^32 in the release build.
At odd white space `parse_literal` consumes nothing: the model repeats the step
as the code does, and gives up after `MaxTokens`, which is beyond the longest
line (`LinesAssumption`, and `JobsAssumption` for the lines that jobs make) and so
bites nowhere else: the theorem `PlainLinesNotCutShort` says that.
`Peek` past the end of the line is `"end"`, which is no character. `NumOr`,
`Numbers` and `Build` are recursive functions of a position.

`Build` is `Command_::build` on the token stream as a recursive function of the
position: assignments, program, arguments, redirections with files, pipes, and
the rest of the chain. Its early returns are kept: no program gives no command;
a redirection without a file drops the redirection at a pipe or the end, and the
command before another one; pipes that no command follows are dropped. `env`
keeps the assignments as words in order, the hash map the last of each. `Meant`
is the reference: a job is a record of stages with the operator form the user
would type for each redirection and pipe, `Typed` its line, with a blank after
each piece, and `Meant` what those forms stand for. `JobsAssumption` is the
documented shape (`<env vars> <bin> <args> <redirs> <pipe>`, `jobs.rs:49`) and
nothing else: any number of stages, of assignments, arguments, redirections and
pipes, any words, and pipes behind every stage but the last. `ChainFits` is what
`Pipeline` assumes of a command (`CommandsAssumption`), so the two modules meet
there.

### WorkingDir

A path is absolute or not and has segments; `join` and `canonicalize` of
libtinyos are external. `fds` is the kernel's table; an `open` takes any free
descriptor. `FstatFails`, `IsFile` and `IsDir` are the ways through `update_cwd`
once `open` has succeeded, with every refused `fstat` and `close`; whether a path
is a directory is the kernel's choice each time. `refused` counts the refusals.
`typed` is a history variable: the shell's variables when the line was typed.
`BuildLine` resolves the files of all redirections and copies the environment,
as `build` and `execute_all` do before the first stage; `RunCd` takes its base
from that copy, in the order of a hash map. The value of a variable assigned on
the line is taken to be an absolute path. `DottedRunsHere` excepts the root:
there `resolve_relative` returns the empty string, which PATH then completes.

### Session

`tpc` and `spc` are the main threads of terminal and shell, `threads` those the
terminal has started. `ReadFd` is one read of the shell's `init`, with as many
bytes as there happen to be. The boot calls of the terminal are unwrapped, and
`BootFails` is any of them; `ShellPanics` a refused read of the shell. An answer
is a whole echo, a prompt or a job's output (how it is edited and parsed is
`Console`'s matter, which rows fit the screen is `Scrollback`'s). A line feed
runs a job, unless its line starts none. While the job runs (`spc` = `"job"`) it
may write to the shell's output, read from the shell's input, and end, or do
none of these; then `drain_stdin` throws away what is in the pipe, read by read,
while the input thread goes on writing, and the shell prompts again. The same
`DrainStdin` comes after the first prompt.

`owed` is a history variable: the answers the user may expect to see, which are
the prompts, what a job writes, and every key typed into a line (`IntoLine`),
that is, while the shell is in its main loop and no line feed is waiting in front
of the key. A key typed before the main loop, or behind a line feed, may be
answered or thrown away; the code promises neither. The model does not
tell a job's later output, or the prompt after a later line, from the first: what is
checked and proved of those speaks of the first of each. A process that outlives its
job, after the failures `JobControl` is about, is not modelled here.

## 3. Runs

| Run | Module, bounds | States | Shows |
|---|---|---|---|
| `scroll_content` | `Scrollback`; 5 rows at most, window of 2, drain of 1, lines of 2 cells, 1 glyph and the tab | 358,724 | `CursorInBounds`, `DisplayFresh`, `HistoryImmutable`, `NoVisibleLineLost`, refinement of `Tty` |
| `scroll_window` | `Scrollback`; the code's sizes 128, 64, 16, empty lines | 224,427 | `WindowIsTail`, `BoundedHistory`, `NarrowWindowStays` |
| `job_safety` | `JobControl`; 3 processes, pipelines of 2, 4 keys, both calls refused at will, processes symmetric | 1,127,300 | `CtxIsCurrentJob`, `KillHitsCurrentJob`, `PromptMeansJobDone`, `OnlyAbortsKill` |
| `job_liveness` | `JobControl`; 2 processes, 3 keys, both calls refused at will, fairness | 142,934 | `AbortEndsJob`, `JobDoneReturns`, `SignalsAreRead` |
| `job_abort_lost` | `JobControl`; as `job_safety`, without faults | - | violation, see 5 |
| `console_echo` | `Console`; line of 4 cells, 1 letter of two bytes and the tab, 1 packet queued, 1 tear a line | 7,296,710 | `CursorInLine`, `EchoedLine`, `CaretNotBehind` |
| `console_torn` | `Console`; the same | - | violation, see 5 |
| `pipeline_ends` | `Pipeline`; 5 pipelines of 1 to 3 stages, 2 jobs, 1 refused close, fairness | 82,855 | `EndsWithNeighbours`, `LinksConnect`, `EveryProcessEnds`, `JobReturns` |
| `command_line` | `CommandLine`; 17,964 lines and 1,718 jobs, descriptors modulo 16, at most 40 tokens, fairness | 179,523 | `BuildsWhatIsMeant`, `WordsInOrder`, `ChainFits`, `EveryLineEnds` |
| `pipe_forms` | `CommandLine`; the same | - | violation, see 5 |
| `working_dir` | `WorkingDir`; 3 names, depth 2, 4 descriptors (symmetric), 2 refusals, lines of 1 and 2 stages | 157,412 | `CwdIsOpen`, `DirectoriesCounted`, `OneBase`, `DottedRunsHere` |
| `session` | `Session`; 2 letters and a line feed, in any order, 2 packets queued, fairness | 92,747 | `HandshakeIntact`, `EveryAnswerIsDrawn` |

Why the bounds are enough. `scroll_content` needs a buffer that drains, a window
smaller than the drained buffer and lines on which insert, append, replace and
remove differ: 5, 2, 1 and 2 give all of them, and the theorems cover every
other size. `scroll_window` needs no text, so the real sizes fit. In
`job_safety` the second job of two is where state left over from the first does
harm, and three processes with pipelines of two give one of the two jobs two
stages; four keys are two lines and two aborts. `console_echo` needs a line
longer than the prompt by two for an insertion in the middle, and one packet in
flight behind another being read: the stream is first-in first-out, so longer
queues add no new cut. `MaxPending` = 0 makes the shell take a key when its last
output has been read (it may still be queued), which bounds the pipe; since
every handler writes whole sequences, a packet with the output of two keys is
parsed like two packets cut between them. The one letter is of two bytes;
letters of one byte are the prompt's and the banner's. A second tear before the
next carriage return changes nothing the properties speak of, as the first one
has excepted the line already. `pipeline_ends` has a pipeline of every shape
`execute_all` tells apart, and one refused close, which may be in the job at
hand or the one before. `command_line` takes every line of up to four characters
over the nine classes the tokenizer tells apart, every line of up to six
operator characters (the longest operator, `&1,2|`, and what can be mistaken for
it, fit), every sequence of six words, assignments, pipes and redirections, and
jobs of up to three stages with every form of operator on the first, a middle
and the last stage; `build` treats all middle stages alike. `Word` = 16 lets a
two-digit number wrap. `working_dir` lets a line climb above the root, descend
to the bound and be refused twice, one time each for the descriptors it starts
with and ends with. `session` has a key before and a key behind the line feed,
in every order and at every moment of boot, line, job and drain, and a job that
writes whenever its last output has been read.

Deadlock is checked in the `Scrollback`, `Console` and `WorkingDir` runs. It is
switched off in the others because the user may stop typing, and in the
`CommandLine` runs because a behaviour is one line.

Every property has a mutant in PROJECT.json: a plausible slip in one mapped
definition (named `...Late`, `...KeepsCol`, `...Unclosed` and so on, next to
the definition it varies) under which TLC finds the property violated.

### Fairness

* `JobControl`: weak fairness of main, of the signal thread, and of the input
  thread's two writes: they are threads of a preemptive kernel, and a spin
  mutex is held for a bounded number of kills. A killed process exits in the
  end. The user need not type, and a process that nobody kills need not exit.
* `Pipeline`: weak fairness of main except for starting another job, and of
  the exit of a process none of whose pipes can be written any more. The second
  is an assumption on the programs the user runs (a process that never ends is
  not `execute_all`'s fault); what the properties show is that `execute_all`
  never keeps a process from reaching that state. No failure is assumed to
  happen or not to happen.
* `CommandLine`: weak fairness of `Scan`, the loop of `tokenize`: nothing else
  runs in its thread until the line is cut up.
* `Session`: weak fairness of the terminal's main thread, the shell's, and the
  output reader, as above; none of the input thread (the user need not type), of
  a failure, or of the job, which may do nothing for ever. A job that writes for
  ever is another matter: in the code nothing slows the reader down, so its packets
  may keep the event loop from ever finding the queue empty, and flushing.
  `EveryAnswerIsDrawn` excepts it, and without that exception TLC finds the
  starved screen.
* `Scrollback`, `Console` and `WorkingDir` state no liveness and no fairness.

## 4. Proofs

TLAPS checks each theorem for every value of the constants that the named
assumptions allow. Every safety property of the runs is a theorem.

**Screen state** (`ScrollbackProofs`, from `SizesAssumption`: `MaxLines -
2 * Grace > MaxVisible`, which 128, 16, 64 satisfy).

* `AlwaysSane`: `Spec => []IInv`. `Sane`, its inductive part, is exactly the
  conjunction of the invariants TLC checks plus the type: none of them is
  inductive without the others. The drain needs the cursor on the last row (so
  that the shift by `Grace` lands on the last row again) and the bounded history
  (so that one drain is enough); the window's clamp needs both that it is a tail
  and that the drained buffer still overfills it, which is what the assumption
  says. `CursorStays`, `WindowStays`, `HistoryBounded` and `CleanIsCurrent` read
  the invariants off.
* `ScreenType`: the type, that of the drawn frame included. What is drawn is
  a fold over the visible rows, so this one needs an induction over a sequence.
* `NarrowStays`, `HistoryKept`, `ShownLinesStay`: the action properties, by
  cases on `add_line` draining or not, scrolling or not.
* `ScrollbackImplementsTty`: `Spec => T!TtySpec`, with the refinement mapping
  `line <- Here(term).line, col <- term.cursor.col`. Every handler maps to the
  handler of the same name or to `StartOver`, and `Flush` to a stutter.

**Console** (`ConsoleProofs`; any letters, any line length, pipe and queue, no
assumption but the module's own). `EchoedLine` speaks of the moment when nothing is
on its way, and is far from inductive. `IInv` says what holds at every other
moment: put an ideal parser, one that is never dropped, at the start of every
packet and of the pipe (`Stations`); each packet leads it to the next station,
the pipe to the line the shell edits (`Leads`, a run of the parser over bytes),
and the terminal's parser agrees with the first station (`Follows`): entirely,
or after a tear in everything that the next carriage return does not reset,
whatever is typed or moved on the garbled line meanwhile.
The bytes of every handler are shown to lead from the old line to the new one;
`ReadStdout` splits a run in two; `ProcessEvents` runs the terminal's parser
beside the ideal one, where dropping it inside a sequence or a character is the
tear.
`AlwaysEchoedLine`, `AlwaysCaretNotBehind`, `AlwaysCursorInLine` and
`AlwaysTypeOK` follow.

**Job control** (`JobControlProofs`, from `ConstantsAssumption`; any number of
processes, stages and keys and any refused waits and kills). On top of the
checked invariants `IInv` needs `LockHeld` (who holds the mutex, from the
program counters, and that the context is taken while it is held), `Accounted`
(every running process belongs to the current job, was orphaned, or was passed
over twice), `Waited` (what main has waited for has exited, but for `unwaited`)
and `Taken` (what is left of a job whose context was taken is among the victims,
but for `spared`). The last two together carry `PromptMeansJobDone`: at the end
of a job its context is taken, so what still runs is in both exceptions, refused
once by each call. Either call alone may be refused as often as the kernel
likes. `CtxStaysCurrent`, `KillStaysCurrent`, `PromptAfterJob` and the action
property `OnlyAborts` follow; `JobTypeOK` adds that the signal pipe holds
signals only, which is what `input_loop`'s filter of a chunk returns. Two more
are the safety part of this component's liveness: `AbortTakesAll` (when the
mutex is free again after an abort, what runs of the job is what a refused kill
spared, so without one main waits for dying processes only) and
`MutexIsPassedOn` (the mutex is held for one pass over a list that only gets
shorter).

**Pipelines** (`PipelineProofs`; any pipelines that satisfy `CommandsAssumption`,
which `AlwaysChainFits` shows of what `build` returns). The invariant says of the
two tables under construction (`cur`, `next`) what the properties say of
finished ones: `EndsGiven` that they may be given to the stages `at` and
`at + 1`; `StageWired` that the links opened so far are connected, where a
redirection still to be opened counts as if it were. `ContextWired` carries that
over to the processes of the job. `EndsStayWithNeighbours`,
`LinksStayConnected` and `PipelineType` follow. Three more theorems are what the
liveness properties rest on: `StartGoesForward` (every step from the start of a
job to its wait goes on to a later stage, a later phase, or fewer links,
redirections or descriptors to deal with); `NoEndOutlivesStart` (outside
`execute_all` the shell has nothing left to close, whatever failed) and, from it,
`NoJobIsStuck`: of the processes left of a job that has lost no write end to a
refused close, one is always at the end of its input, namely the one of the first
stage still alive, since only earlier stages could write to it.

**Working directory** (`WorkingDirProofs`; any finite set of descriptors, any
names, depth and number of refusals). `DirectoryIsOpen` and `NoDirectoryLeaks`:
neither is inductive without the type, which says that `open_wd` is in use: a
descriptor the kernel hands out is then another one. `LineHasOneBase` rests on
`LineKept`: the environment of a line is the shell's variables as they were when
it was typed. `DottedStaysHere` (a program named with a dot is the one in the
directory the line was typed in) needs what `joined` and `resolve_relative` make
of any path: `Walk`, the fold over segments, keeps a path without dots as it is,
and a dotted path starts from the directory.

**Tokenizer and builder** (`CommandLineProofs`; any letters, lines, any jobs of
the documented shape and any `Word` above 3, the largest descriptor in a form).
`TokInv` says that every token is one `parse_token` may return and that the
cursor has passed a character for each of them, unless it stands at odd white
space; `GoodParse` is what each of the three parsers owes it. What `build`
returns is a recursion from the end of the stream to its start, so every fact
about it goes by induction down the positions: `BuildBuilds` that the recursion
gives a chain at every position; `StageShape` where the parts of a stage begin
and end; `StageSpells` that the words of a stage are those of the tokens it was
built from, in order. From these:

* `CommandLineType`, and `AlwaysChainFits`: whatever is typed, `execute_all` can
  start what `build` returns.
* `AlwaysWordsInOrder`: the chain has the words of the line, in order and from
  the first on, and all of them if the line has the documented shape.
* `PlainLinesScanOn`: on a line without odd white space no turn of the
  tokenizer's loop stands still. This is the ranking behind `EveryLineEnds`;
  `PlainLinesNotCutShort` says that the model's own bound on the tokens is never
  what ends such a line.
* `AlwaysBuildsWhatIsMeant`: a job of the documented shape is parsed and built
  as it was meant, however many stages it has and however long they are. Its
  invariant is `JobInv` (`AlwaysJobInv`): the pieces of the job lie in the line
  one behind the other, each with its blank (`Laid`); the cursor is at a piece
  or at the blank behind it; and the tokens so far are those the pieces stand
  for, white space between them (`Begins`). That it is inductive is the reading
  of each form of `RedirForms` and `PipeForms`, character by character
  (`WriteParse` to `BothBarParse`), and of a word (`WordParse`): exactly that
  token, and the cursor on the blank. At the end of the line the tokens are the
  job's (`JobTokens`). Then each loop of `build` is shown to stop where its part
  of the stage ends (`PlacedBin`, `PlacedFiles`, `PlacedLeft`, `PlacedEnd`), so
  that a stage is built as it was meant (`StageMeant`), and `BuildMeans` puts
  the chain together, from the last stage to the first.

**Boot and session** (`SessionProofs`; any keys, lines, jobs and queue).
`HandshakeHolds` and `SessionType`. The invariant says, by index, that what the
shell has read followed by what is in the pipe begins with the four bytes and
goes on with keys (`FourBytesFirst`), from the step on that sends them; and that
before it no thread is there that could send anything (`QuietBoot`).
`NoAnswerIsLost` is the safety half of `EveryAnswerIsDrawn`: an answer that is
owed is in the output pipe, in a packet or parsed, or is a key that the main loop
has yet to answer; and what is parsed and not in the frame has marked the screen
dirty. `drain_stdin` and the jobs are what makes it hard: such a key has no line
feed in front of it (`InFront`), neither in what main has read nor in the pipe,
so the main loop gets to it before any job or drain can.

Induction. TLAPS cannot use an induction theorem that takes a predicate as a
parameter, so the ones needed here are stated of sets and functions instead:
`SetInduction` (a set with 0 that is closed under successor holds every number,
from the well-foundedness of `<`), `UpTo` and `Recursion` (the values of a
recursive function, as one function with a table), and the same two from the
end of a sequence down (`DownInduction`, `DownRecursion`). A fold is
then shown to be the recursion it stands for, and a fact about it to hold on a
set of positions. Each component's proofs state those they need (`CaretLineProofs`
for screen and console, then `JobControlProofs`, `WorkingDirProofs` and
`CommandLineProofs`), as no two of these modules extend one another.

Only model-checked is liveness (`AbortEndsJob`, `JobDoneReturns`, `SignalsAreRead`,
`EveryProcessEnds`, `JobReturns`, `EveryLineEnds`, `EveryAnswerIsDrawn`): TLAPS has
no rules for fairness and `ENABLED`. What each of them rests on besides fairness is
proved: `AbortTakesAll`, `MutexIsPassedOn`, `NoEndOutlivesStart`, `NoJobIsStuck`,
`StartGoesForward`, `PlainLinesScanOn`, `NoAnswerIsLost`.

## 5. Findings

* `job_abort_lost` (`jobs.rs:521`). The signal thread calls `set_fg` after
  `clear_ctx` has killed the job. In between, main can see the job end, prompt,
  start the next job and call `set_bg`; the late `set_fg` overwrites it. From
  then on `signal_handler` takes the shell for being in the foreground and drops
  every ctrl-c for that job. `term/src/main.rs:35` says that signals such as
  ctrl-c are acted on.
* `console_torn` (`state.rs:235`). `process_events` makes a new parser for every
  packet, and a packet is what one read returned. A read that ends inside an
  escape sequence makes the rest of it show as text: for example `[D` after an
  arrow key. A read that ends inside a character loses it likewise. `EchoedLine`
  shows that the damage to the line lasts no longer than the next carriage
  return. `term/src/main.rs:36` says that the shell's output is parsed as ANSI
  sequences.
* `pipe_forms` (`shell/src/parse.rs:195`). The comment at `parse.rs:161` lists
  the forms of a pipe: `| or num| or num1|num2 or &| or &num,*|`. Of these `&|`
  and `&num,*|` are refused: the list of descriptors is looked for behind `&|`,
  and another bar is then asked for, so `a &|| b` and `a &|1,2| b` are what
  works.

Met while modelling, without a run of their own, as no line of the repository
says what should happen: after `&>` another operator is asked for, so `&> f` is
malformed, `&>> f` writes and `&>>> f` appends; a descriptor of several digits
in front of a bar is not one (`12|` is the word `12` and a plain pipe); `n<`,
which the comment at `parse.rs:150` names, is a word and a plain redirection; a
number behind a bar is cut off a name (`|2abc` pipes into `abc`); descriptors
wrap at 2^32; a `cd` in a line does not move the stages after it, but moves the
next line. A background of `#ffffff` is an Rgb colour and not `Color::White`
(`state.rs:198`), so that the caret is drawn white on white. A job that writes
for ever may keep the screen as it is (`term/src/main.rs:79`). After a refused
wait and a refused kill in one job, what was passed over by both runs on under
the next prompt, and what a refused kill has spared can no longer be aborted. A
write end that the kernel refuses to close keeps its job waiting.

## 6. Not modelled, and the plan

Done: the screen state with its abstract specification, the line editor with its
echo, job control, the start of a pipeline, the tokenizer and the builder, the
working directory, boot and session; and the proofs of all of them.

Next: `stderr_handler` on characters cut by a 64-byte read. It copies to the
serial console and pushes no packet, so its only effect in the repository is the
panic that `hazards` lists; what a panicking thread does to its process is the
kernel's.

Left out for good: the graphics backend and the build scripts (constants and
glue), `SimpleTimeout` (nothing polls the deadline it stores), functions marked
as dead code (`joined_as_env`, `vars_mut`, `cwd`), and the exact drawing of a
frame, the colours of `term/src/parse.rs` included: they are read anew for every
frame and nothing else depends on them.
