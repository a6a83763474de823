----------------------------- MODULE Pipeline -----------------------------
(***************************************************************************)
(* Starting a pipeline: execute_all and execute_one of                     *)
(* shell/src/logic/jobs.rs.  The shell opens the pipes and files of one    *)
(* stage after the other, gives each process the descriptors that stage is *)
(* wired to, and closes its own copies when execute_all returns, however   *)
(* it returns.  What matters is who holds which end of a pipe, since a     *)
(* process that reads one ends only when nobody can write to it any more.  *)
(*                                                                         *)
(* External: the kernel's open, pipe, spawn_process and close, each of     *)
(* which may fail, and the processes.  A child's table is what its         *)
(* FDActions make of the shell's: cleared, then one Inherit after the      *)
(* other, the last for a descriptor counting.                              *)
(***************************************************************************)
EXTENDS Naturals, FiniteSets, Sequences, SequencesExt

CONSTANTS
  Fds,        \* the descriptors a stage can name; 0, 1 and 2 are standard
  Commands,   \* the pipelines the user may ask for: sequences of stages
  MaxJobs,    \* bound: the jobs the user ever starts
  MaxLeaks    \* bound: the descriptors a refused close leaves open

(* A link stands for one entry of Pipe.connections: the reader's           *)
(* descriptor and the writers'.  A file is named by what it replaces.      *)
Links  == [to : Fds, from : SUBSET Fds]
Stages == [builtin : BOOLEAN, redirs : Seq(SUBSET Fds), links : SUBSET Links]

ASSUME CommandsAssumption ==
  /\ Fds \subseteq Nat /\ MaxJobs \in Nat /\ MaxLeaks \in Nat
  /\ \A c \in Commands :
       /\ c \in Seq(Stages) /\ c # <<>>
       /\ \A i \in 1 .. Len(c) : c[i].links = {} <=> i = Len(c)
       /\ \A i \in 1 .. Len(c) : \A k, l \in c[i].links : k.to = l.to => k = l

VARIABLES
  job,      \* how many jobs have been started
  cmd,      \* the pipeline being started or waited for
  at,       \* the stage execute_all is at
  phase,    \* where in it: "idle", "pipes", "redirs", "closing" or "wait"
  result,   \* "ok" or "err", what execute_all returns after "closing"
  todo,     \* the links of this stage still to open
  redirs,   \* the redirections of this stage still to open
  cur,      \* current_builder: the table of this stage's process
  next,     \* next_builder: the table of the next stage's
  temp,     \* should_close: what the shell has open for this job
  leaked,   \* what a refused close has left open in the shell
  ctx,      \* the ExecutionContext: indices of procs
  procs     \* every process spawned: its job and stage, its table, alive or not

vars == <<job, cmd, at, phase, result, todo, redirs, cur, next, temp, leaked, ctx, procs>>

(* What a descriptor stands for: the terminal, a file, or one end of the   *)
(* pipe that a stage of this job has opened for a link.                    *)
Other(what) == [end |-> what, job |-> 0, stage |-> 0, link |-> 0]
Terminal    == Other("terminal")
File        == Other("file")
Closed      == Other("closed")
End(which, stage, link) == [end |-> which, job |-> job, stage |-> stage, link |-> link.to]

Handles == [ end   : {"terminal", "file", "closed", "read", "write"},
             job   : Nat,
             stage : Nat,
             link  : Fds \cup {0} ]

TypeOK ==
  /\ job \in 0 .. MaxJobs /\ cmd \in Commands \cup {<<>>} /\ at \in Nat
  /\ phase \in {"idle", "pipes", "redirs", "closing", "wait"} /\ result \in {"ok", "err"}
  /\ todo \subseteq Links /\ redirs \in Seq(SUBSET Fds)
  /\ cur \in [Fds -> Handles] /\ next \in [Fds -> Handles]
  /\ temp \in Seq(Handles) /\ leaked \subseteq Handles
  /\ ctx \subseteq DOMAIN procs
  /\ procs \in Seq([job : Nat, stage : Nat, table : [Fds -> Handles], alive : BOOLEAN])

(* new().add_clear().add_inherit(0, 0).add_inherit(1, 1).add_inherit(2, 2) *)
Standard == [fd \in Fds |-> IF fd \in 0 .. 2 THEN Terminal ELSE Closed]

(* add_inherit(handle, fd) for every fd of a set. *)
Inherit(table, handle, fds) == [fd \in Fds |-> IF fd \in fds THEN handle ELSE table[fd]]

----------------------------------------------------------------------------
Init ==
  /\ job = 0 /\ cmd = <<>> /\ at = 0 /\ phase = "idle" /\ result = "ok"
  /\ todo = {} /\ redirs = <<>>
  /\ cur = Standard /\ next = Standard
  /\ temp = <<>> /\ leaked = {} /\ ctx = {} /\ procs = <<>>

Start ==
  /\ phase = "idle" /\ job < MaxJobs
  /\ job' = job + 1
  /\ cmd' \in Commands
  /\ at' = 1 /\ phase' = "pipes" /\ result' = "ok"
  /\ todo' = cmd'[1].links /\ redirs' = cmd'[1].redirs
  /\ cur' = Standard /\ next' = Standard
  /\ ctx' = {}
  /\ UNCHANGED <<temp, leaked, procs>>

(* The links of a stage are opened in the hash map's order: any. *)
OpenPipe ==
  /\ phase = "pipes"
  /\ \E link \in todo :
       /\ todo' = todo \ {link}
       /\ temp' = temp \o << End("read", at, link), End("write", at, link) >>
       /\ next' = Inherit(next, End("read", at, link), {link.to})
       /\ cur' = Inherit(cur, End("write", at, link), link.from)
  /\ UNCHANGED <<job, cmd, at, phase, result, redirs, leaked, ctx, procs>>

(* execute_one, up to the dispatch: the redirections in order. *)
PipesOpen ==
  /\ phase = "pipes" /\ todo = {}
  /\ phase' = "redirs"
  /\ UNCHANGED <<job, cmd, at, result, todo, redirs, cur, next, temp, leaked, ctx, procs>>

OpenFile ==
  /\ phase = "redirs" /\ redirs # <<>>
  /\ redirs' = Tail(redirs)
  /\ temp' = Append(temp, File)
  /\ cur' = Inherit(cur, File, Head(redirs))
  /\ UNCHANGED <<job, cmd, at, phase, result, todo, next, leaked, ctx, procs>>

(* The stage is started: on to the next with its builder, or return. *)
AdvanceKeepsNext ==
  IF at = Len(cmd)
  THEN /\ phase' = "closing" /\ result' = "ok"
       /\ UNCHANGED <<at, todo, redirs, cur, next>>
  ELSE /\ at' = at + 1 /\ phase' = "pipes"
       /\ todo' = cmd[at + 1].links /\ redirs' = cmd[at + 1].redirs
       /\ cur' = next /\ UNCHANGED <<next, result>>

AdvanceDropsNext ==
  IF at = Len(cmd)
  THEN /\ phase' = "closing" /\ result' = "ok"
       /\ UNCHANGED <<at, todo, redirs, cur, next>>
  ELSE /\ at' = at + 1 /\ phase' = "pipes"
       /\ todo' = cmd[at + 1].links /\ redirs' = cmd[at + 1].redirs
       /\ cur' = Standard /\ next' = Standard /\ UNCHANGED result

Advance ==
  IF at = Len(cmd)
  THEN /\ phase' = "closing" /\ result' = "ok"
       /\ UNCHANGED <<at, todo, redirs, cur, next>>
  ELSE /\ at' = at + 1 /\ phase' = "pipes"
       /\ todo' = cmd[at + 1].links /\ redirs' = cmd[at + 1].redirs
       /\ cur' = next /\ next' = Standard /\ UNCHANGED result

Started == phase = "redirs" /\ redirs = <<>>

SpawnProcess ==
  /\ Started /\ ~cmd[at].builtin
  /\ procs' = Append(procs, [job |-> job, stage |-> at, table |-> cur, alive |-> TRUE])
  /\ ctx' = ctx \cup {Len(procs) + 1}
  /\ Advance
  /\ UNCHANGED <<job, cmd, temp, leaked>>

RunBuiltin ==
  /\ Started /\ cmd[at].builtin
  /\ Advance
  /\ UNCHANGED <<job, cmd, temp, leaked, ctx, procs>>

(* pipe, open or spawn_process fails, and `?` returns: should_close is     *)
(* dropped like at the end, the ExecutionContext too.                      *)
FailsUnclosed ==
  /\ \/ phase = "pipes" /\ todo # {}
     \/ phase = "redirs" /\ redirs # <<>>
     \/ Started /\ ~cmd[at].builtin
  /\ phase' = "idle"
  /\ UNCHANGED <<job, cmd, at, result, todo, redirs, cur, next, temp, leaked, ctx, procs>>

FailsCounted ==
  /\ Started /\ ~cmd[at].builtin
  /\ phase' = "closing" /\ result' = "err"
  /\ ctx' = ctx \cup {Len(procs) + 1}
  /\ UNCHANGED <<job, cmd, at, todo, redirs, cur, next, temp, leaked, procs>>

Fails ==
  /\ \/ phase = "pipes" /\ todo # {}
     \/ phase = "redirs" /\ redirs # <<>>
     \/ Started /\ ~cmd[at].builtin
  /\ phase' = "closing" /\ result' = "err"
  /\ UNCHANGED <<job, cmd, at, todo, redirs, cur, next, temp, leaked, ctx, procs>>

(* Dropping should_close closes one OpenFd after the other.  A refused     *)
(* close is only logged: nothing closes that descriptor any more.          *)
CloseOne ==
  /\ phase = "closing" /\ temp # <<>>
  /\ temp' = Tail(temp)
  /\ \/ UNCHANGED leaked
     \/ Cardinality(leaked) < MaxLeaks /\ leaked' = leaked \cup {Head(temp)}
  /\ UNCHANGED <<job, cmd, at, phase, result, todo, redirs, cur, next, ctx, procs>>

ReturnUnclosed ==
  /\ phase = "closing"
  /\ phase' = IF result = "ok" THEN "wait" ELSE "idle"
  /\ UNCHANGED <<job, cmd, at, result, todo, redirs, cur, next, temp, leaked, ctx, procs>>

Return ==
  /\ phase = "closing" /\ temp = <<>>
  /\ phase' = IF result = "ok" THEN "wait" ELSE "idle"
  /\ UNCHANGED <<job, cmd, at, result, todo, redirs, cur, next, temp, leaked, ctx, procs>>

(* wait_ on the ExecutionContext. *)
Wait ==
  /\ phase = "wait"
  /\ \A i \in ctx : ~procs[i].alive
  /\ phase' = "idle"
  /\ UNCHANGED <<job, cmd, at, result, todo, redirs, cur, next, temp, leaked, ctx, procs>>

----------------------------------------------------------------------------
(* The kernel: a process may end at any time, and one that only reads from *)
(* pipes nobody can write to any more will.                                *)
Holders(handle) == {i \in DOMAIN procs : procs[i].alive /\ handle \in Range(procs[i].table)}

AtEof(i) ==
  \A h \in Range(procs[i].table) :
    h.end = "read" => LET w == [h EXCEPT !.end = "write"]
                      IN  Holders(w) = {} /\ w \notin Range(temp) \cup leaked

Exit(i) ==
  /\ procs[i].alive
  /\ procs' = [procs EXCEPT ![i].alive = FALSE]
  /\ UNCHANGED <<job, cmd, at, phase, result, todo, redirs, cur, next, temp, leaked, ctx>>

Main ==
  \/ Start \/ OpenPipe \/ PipesOpen \/ OpenFile \/ SpawnProcess \/ RunBuiltin
  \/ Fails \/ CloseOne \/ Return \/ Wait

Next == Main \/ \E i \in DOMAIN procs : Exit(i)

Spec == Init /\ [][Next]_vars

(* The shell's main thread goes on, except that the user need not ask for  *)
(* another job, and a process at the end of its input exits.               *)
ProcIds == 1 .. MaxJobs * Max({Len(c) : c \in Commands})

FairSpec ==
  /\ Spec
  /\ WF_vars(Main /\ ~Start)
  /\ \A i \in ProcIds : WF_vars(i \in DOMAIN procs /\ AtEof(i) /\ Exit(i))

----------------------------------------------------------------------------
(* Properties *)

(* An end of a pipe is held by the shell while it starts the job, and      *)
(* after that by the processes it connects only: the write end by the      *)
(* stage of the link, the read end by the next ("close reader in current   *)
(* task", "close writer in next task").                                    *)
EndsWithNeighbours ==
  \A i \in DOMAIN procs : \A h \in Range(procs[i].table) :
    /\ h.end = "write" => <<procs[i].job, procs[i].stage>> = <<h.job, h.stage>>
    /\ h.end = "read"  => <<procs[i].job, procs[i].stage>> = <<h.job, h.stage + 1>>

(* A started process reads from the previous stage's links, unless a       *)
(* redirection takes the descriptor, and writes every descriptor a link    *)
(* names to a link that names it: whatever order the hash map gives.       *)
Redirected(stage) == UNION Range(cmd[stage].redirs)
LinksConnect ==
  phase = "wait" => \A i \in ctx :
    LET stage == procs[i].stage
        table == procs[i].table
    IN  /\ stage > 1 => \A link \in cmd[stage - 1].links :
             \/ table[link.to] = End("read", stage - 1, link)
             \/ link.to \in Redirected(stage)
             \/ \E l \in cmd[stage].links : link.to \in l.from
        /\ \A link \in cmd[stage].links : \A fd \in link.from \ Redirected(stage) :
             \E l \in cmd[stage].links : fd \in l.from /\ table[fd] = End("write", stage, l)

(* A refused close has left a write end of one of job j's pipes open.      *)
WriteEndLeaked(j) == \E h \in leaked : h.end = "write" /\ h.job = j

(* Every process ends, also one a failed execute_all has orphaned: no      *)
(* write end stays open in the shell or in a process that should not have  *)
(* it, so every reader sees the end of its input.  Only a close that the   *)
(* kernel refuses can keep a job's processes waiting, and only that job's. *)
EveryProcessEnds ==
  \A i \in ProcIds :
    (i \in DOMAIN procs /\ procs[i].alive)
      ~> (i \in DOMAIN procs /\ (~procs[i].alive \/ WriteEndLeaked(procs[i].job)))

(* The shell gets back to its prompt from every job, started or not, that  *)
(* has not lost a write end to a refused close.                            *)
JobReturns == phase # "idle" ~> phase = "idle" \/ WriteEndLeaked(job)
=============================================================================
