----------------------------- MODULE WorkingDir -----------------------------
(***************************************************************************)
(* The working directory: StaticEnv's variables and open_wd in             *)
(* shell/src/env.rs, the builtin cd, and what jobs.rs resolves against     *)
(* CWD: redirections when a line is built, cd and programs when its stages *)
(* are started.  The main thread alone does all of it; the kernel may      *)
(* refuse any call and decides what a path is.                             *)
(*                                                                         *)
(* External: Path::join and Path::canonicalize of libtinyos.  A path is    *)
(* absolute or not and has segments; "" and "/" have none.                 *)
(***************************************************************************)
EXTENDS Naturals, Sequences, FiniteSets, SequencesExt

CONSTANTS
  Names,        \* names of files and directories
  DotNames,     \* those that start with a dot
  Commands,     \* the lines that are typed: sequences of stages
  SearchPath,   \* PATH
  Fds,          \* descriptors the kernel has for the shell's directories
  MaxDepth,     \* bound: the kernel has no deeper directories
  MaxRefusals   \* bound: calls refused after a path was opened

Segments == Names \cup {"cd", ".", ".."}
Paths    == [abs : BOOLEAN, segs : Seq(Segments)]
Abs(segs) == [abs |-> TRUE, segs |-> segs]
Rel(segs) == [abs |-> FALSE, segs |-> segs]

(* The variables that matter: those that start with "CWD".  A stage has    *)
(* the assignments in front of it, its program, cd's argument and the file *)
(* of a redirection, NoPath where there is none.                           *)
WdVars     == {"CWD", "CWDX"}
IsStack(s) == DOMAIN s \subseteq WdVars /\ \A v \in DOMAIN s : s[v] \in Paths
NoPath     == Rel(<<>>)
CD         == Rel(<<"cd">>)

ASSUME PathsAssumption ==
  /\ DotNames \subseteq Names /\ {".", ".."} \cap Names = {} /\ "cd" \notin Names
  /\ 0 \notin Fds /\ IsFiniteSet(Fds) /\ MaxDepth \in Nat /\ MaxRefusals \in Nat
  /\ SearchPath \in Seq(Paths)
  /\ \A c \in Commands : c \in Seq(Range(c)) /\ 1 \in DOMAIN c /\ \A k \in DOMAIN c :
       /\ IsStack(c[k].vars) /\ \A v \in DOMAIN c[k].vars : c[k].vars[v].abs
       /\ {c[k].bin, c[k].arg, c[k].file} \subseteq Paths /\ c[k].bin.segs # <<>>

VARIABLES
  own,       \* the shell's variables that start with CWD: CWD, or none
  open_wd,   \* the descriptor of the working directory, 0 for none
  fds,       \* the kernel's table: what each descriptor has open
  cmd,       \* the line being run, <<>> at the prompt
  at,        \* its stage to start next
  env,       \* the variables execute_all has joined
  files,     \* what build made of the stages' redirections
  last,      \* the path the stage started last goes to, or runs
  typed,     \* history: the shell's variables when the line was typed
  refused    \* how many fstat and close calls the kernel has refused

wdVars == <<own, open_wd, fds, refused>>
vars   == <<wdVars, cmd, at, env, files, last, typed>>

Free   == [path |-> NoPath, dir |-> FALSE, used |-> FALSE]

----------------------------------------------------------------------------
(* libtinyos: an absolute path replaces what it is joined to; "." goes,    *)
(* ".." takes the segment before it along.                                 *)
Join(p, q) == IF q.abs THEN q ELSE [p EXCEPT !.segs = @ \o q.segs]
Step(segs, s) ==
  IF s = "." THEN segs
  ELSE IF s # ".." THEN Append(segs, s)
  ELSE IF segs = <<>> THEN <<>> ELSE Front(segs)
Walk(root, segs) ==
  LET to[i \in 0 .. Len(segs)] == IF i = 0 THEN root ELSE Step(to[i - 1], segs[i])
  IN  to[Len(segs)]
Canonical(p) == [p EXCEPT !.segs = Walk(<<>>, @)]

Get(stack, v, default) == IF v \in DOMAIN stack THEN stack[v] ELSE default

(* EnvVarStack::joined: map.extend(one), so the shell's own win. *)
Joined(one, two) ==
  [v \in DOMAIN one \cup DOMAIN two |-> IF v \in DOMAIN one THEN one[v] ELSE two[v]]

(* build: a redirection's file, from the line's own CWD or the shell's. *)
File(stage) ==
  IF stage.file = NoPath THEN NoPath
  ELSE Canonical(Join(Get(stage.vars, "CWD", Get(own, "CWD", NoPath)), stage.file))

(* cd: the first of the joined variables, in the order of the hash map,    *)
(* that starts with "CWD"; the shell's CWD or the root without one.        *)
CdBasesNow == { Get(own, "CWD", Abs(<<>>)) }

CdBases == IF DOMAIN env = {} THEN { Get(own, "CWD", Abs(<<>>)) } ELSE Range(env)

(* resolve_relative on CWD without its trailing slash: absolute if a       *)
(* segment is left, and empty otherwise.                                   *)
ResolveAppend(root, append) == root \o SelectSeq(append, LAMBDA s : s # ".")

ResolveRelative(root, append) == Walk(root, append)

Dotted(bin) == ~bin.abs /\ bin.segs[1] \in DotNames \cup {".", ".."}
Resolved(bin) ==
  IF ~Dotted(bin) THEN bin
  ELSE LET segs == ResolveRelative(Get(env, "CWD", NoPath).segs, bin.segs)
       IN  [abs |-> segs # <<>>, segs |-> segs]

(* What is not absolute is run from the first directory of PATH in which   *)
(* it can be opened, or as it is.                                          *)
Candidates(bin) ==
  IF bin.abs THEN {bin} ELSE {bin} \cup {Join(dir, bin) : dir \in Range(SearchPath)}

----------------------------------------------------------------------------
(* update_cwd(path): every way it can return.  fd is what the kernel opens *)
(* the path as: any free descriptor.                                       *)
Open(fd, path, isDir) == [fds EXCEPT ![fd] = [path |-> path, dir |-> isDir, used |-> TRUE]]

Refused == refused < MaxRefusals /\ refused' = refused + 1

FstatFails(fd, path) ==
  /\ Refused
  /\ \E isDir \in BOOLEAN : fds' = Open(fd, path, isDir)
  /\ UNCHANGED <<own, open_wd>>

(* Not a directory: closed again, unless the kernel refuses that too. *)
IsFileTaken(fd, path) ==
  /\ fds' = Open(fd, path, FALSE)
  /\ own' = [v \in {"CWD"} |-> path] /\ open_wd' = fd
  /\ UNCHANGED refused

IsFile(fd, path) ==
  /\ \/ UNCHANGED <<fds, refused>>
     \/ Refused /\ fds' = Open(fd, path, FALSE)
  /\ UNCHANGED <<own, open_wd>>

(* A directory: it takes open_wd, and CWD if the old one can be closed. *)
IsDirKeepsOld(fd, path) ==
  /\ open_wd' = fd
  /\ fds' = Open(fd, path, TRUE)
  /\ own' = [v \in {"CWD"} |-> path]
  /\ UNCHANGED refused

IsDirClosesNew(fd, path) ==
  /\ open_wd' = fd
  /\ own' = [v \in {"CWD"} |-> path]
  /\ UNCHANGED <<fds, refused>>

IsDir(fd, path) ==
  /\ open_wd' = fd
  /\ \/ /\ fds' = [f \in Fds |-> IF f = open_wd THEN Free ELSE Open(fd, path, TRUE)[f]]
        /\ own' = [v \in {"CWD"} |-> path]
        /\ UNCHANGED refused
     \/ /\ open_wd # 0 /\ Refused
        /\ fds' = Open(fd, path, TRUE)
        /\ UNCHANGED own

UpdateCwd(path) ==
  \/ UNCHANGED wdVars
  \/ /\ Len(path.segs) <= MaxDepth
     /\ \E fd \in Fds :
          ~fds[fd].used /\ (FstatFails(fd, path) \/ IsFile(fd, path) \/ IsDir(fd, path))

----------------------------------------------------------------------------
Unset == [v \in {} |-> NoPath]

Init ==
  /\ own = Unset /\ open_wd = 0 /\ refused = 0
  /\ fds = [fd \in Fds |-> Free]
  /\ cmd = <<>> /\ at = 0 /\ env = Unset /\ files = <<>> /\ last = NoPath /\ typed = Unset

(* The first get_env: default_init. *)
DefaultInit ==
  /\ at = 0
  /\ UpdateCwd(Abs(<<>>))
  /\ at' = 1
  /\ UNCHANGED <<cmd, env, files, last, typed>>

(* build on the whole line, then the start of execute_all. *)
BuildLine ==
  /\ at = 1 /\ cmd = <<>>
  /\ cmd' \in Commands
  /\ files' = [k \in DOMAIN cmd' |-> File(cmd'[k])]
  /\ env' = Joined(own, cmd'[1].vars)
  /\ typed' = own
  /\ UNCHANGED <<wdVars, at, last>>

InStage == cmd # <<>> /\ at <= Len(cmd)

RunCd ==
  /\ InStage /\ cmd[at].bin = CD
  /\ IF cmd[at].arg = NoPath
     THEN UNCHANGED <<wdVars, last>>
     ELSE \E base \in CdBases : LET path == Canonical(Join(base, cmd[at].arg))
                                IN  UpdateCwd(path) /\ last' = path
  /\ at' = at + 1
  /\ UNCHANGED <<cmd, env, files, typed>>

RunProgram ==
  /\ InStage /\ cmd[at].bin # CD
  /\ last' \in Candidates(Resolved(cmd[at].bin))
  /\ at' = at + 1
  /\ UNCHANGED <<wdVars, cmd, env, files, typed>>

(* execute_all returns: it is through, or the pipe to the next stage, a    *)
(* redirection or the spawn of this stage fails.                           *)
EndLine ==
  /\ cmd # <<>>
  /\ InStage => at < Len(cmd) \/ cmd[at].file # NoPath \/ cmd[at].bin # CD
  /\ cmd' = <<>> /\ at' = 1 /\ env' = Unset /\ files' = <<>> /\ last' = NoPath /\ typed' = Unset
  /\ UNCHANGED wdVars

Next == DefaultInit \/ BuildLine \/ RunCd \/ RunProgram \/ EndLine

Spec == Init /\ [][Next]_vars

----------------------------------------------------------------------------
(* Properties *)

TypeOK ==
  /\ IsStack(own) /\ IsStack(env) /\ IsStack(typed) /\ DOMAIN own \subseteq {"CWD"}
  /\ open_wd \in Fds \cup {0} /\ (open_wd # 0 => fds[open_wd].used)
  /\ fds \in [Fds -> [path : Paths, dir : BOOLEAN, used : BOOLEAN]]
  /\ cmd \in Commands \cup {<<>>} /\ at \in Nat /\ refused \in 0 .. MaxRefusals
  /\ files \in Seq(Paths) /\ last \in Paths

(* CWD always names a directory that the shell has open, also after failed *)
(* calls, and unless a close has been refused it is the one in open_wd.    *)
CwdIsOpen ==
  "CWD" \in DOMAIN own =>
    /\ \E fd \in Fds : fds[fd] = [path |-> own["CWD"], dir |-> TRUE, used |-> TRUE]
    /\ refused = 0 => open_wd # 0 /\ fds[open_wd].path = own["CWD"]

(* However often the user changes directory, to whatever there is, one     *)
(* descriptor stays open, and one more for each call the kernel refused.   *)
DirectoriesCounted ==
  Cardinality({fd \in Fds : fds[fd].used}) <= (IF open_wd = 0 THEN 0 ELSE 1) + refused

(* All of a line is resolved against the directory it was typed in: the    *)
(* files of every stage, and a cd also when the one before it in the same  *)
(* line has changed the directory.  (Unless the line assigns CWD, or, as   *)
(* cd looks for the first name that starts so, CWDX.)                      *)
Plain == "CWD" \in DOMAIN typed /\ \A k \in DOMAIN cmd : DOMAIN cmd[k].vars = {}
Here(path) == Canonical(Join(typed["CWD"], path))

OneBase ==
  Plain =>
    /\ \A k \in DOMAIN cmd : cmd[k].file # NoPath => files[k] = Here(cmd[k].file)
    /\ at > 1 /\ cmd # <<>> /\ cmd[at - 1].bin = CD /\ cmd[at - 1].arg # NoPath =>
         last = Here(cmd[at - 1].arg)

(* A program named with a leading dot is the one there, and never one of   *)
(* PATH, unless what is named is the root itself.                          *)
DottedRunsHere ==
  Plain /\ cmd # <<>> /\ at > 1 /\ Dotted(cmd[at - 1].bin) =>
    last = Here(cmd[at - 1].bin) \/ Here(cmd[at - 1].bin) = Abs(<<>>)
=============================================================================
