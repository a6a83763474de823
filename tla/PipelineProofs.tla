--------------------------- MODULE PipelineProofs ---------------------------
(* Pipeline's safety properties, for any descriptors and pipelines, any    *)
(* number of jobs and every order of links and failures.                   *)
EXTENDS Pipeline, SequenceTheorems, WellFoundedInduction, TLAPS

Starting == phase \in {"pipes", "redirs"}

(* While a job runs, cmd is a pipeline and at one of its stages.           *)
InCommand == phase # "idle" => cmd \in Commands /\ at \in 1 .. Len(cmd)

(* A table that a process of stage s of job j may be given.                *)
Neighbourly(table, j, s) ==
  \A fd \in Fds :
    /\ table[fd].end = "write" => table[fd].job = j /\ table[fd].stage = s
    /\ table[fd].end = "read"  => table[fd].job = j /\ table[fd].stage + 1 = s

EndsGiven ==
  /\ Starting => Neighbourly(cur, job, at) /\ Neighbourly(next, job, at + 1)
  /\ \A i \in DOMAIN procs : Neighbourly(procs[i].table, procs[i].job, procs[i].stage)

(* LinksConnect, for a stage some of whose links are open.  Redirections   *)
(* that are still to be opened count as well, as they will take what they  *)
(* name.                                                                   *)
Reads(table, stage, open) ==
  stage > 1 => \A link \in cmd[stage - 1].links :
    \/ table[link.to] = End("read", stage - 1, link)
    \/ link.to \in Redirected(stage)
    \/ \E l \in open : link.to \in l.from

Writes(table, stage, open) ==
  \A link \in open : \A fd \in link.from \ Redirected(stage) :
    \E l \in open : fd \in l.from /\ table[fd] = End("write", stage, l)

Opened == cmd[at].links \ todo

StageWired ==
  Starting =>
    /\ todo \subseteq cmd[at].links /\ (phase = "redirs" => todo = {})
    /\ UNION Range(redirs) \subseteq Redirected(at)
    /\ Reads(cur, at, Opened) /\ Writes(cur, at, Opened)
    /\ \A link \in Opened : next[link.to] = End("read", at, link)

ContextWired ==
  \A i \in ctx :
    /\ procs[i].stage \in 1 .. Len(cmd)
    /\ Reads(procs[i].table, procs[i].stage, cmd[procs[i].stage].links)
    /\ Writes(procs[i].table, procs[i].stage, cmd[procs[i].stage].links)

IInv == TypeOK /\ InCommand /\ EndsGiven /\ StageWired /\ ContextWired

----------------------------------------------------------------------------
(* Tables, links and redirections. *)
LEMMA StageFacts ==
  ASSUME NEW c \in Commands, NEW k \in 1 .. Len(c)
  PROVE  /\ c[k].redirs \in Seq(SUBSET Fds) /\ c[k].links \subseteq Links
         /\ \A l, m \in c[k].links : l.to = m.to => l = m
  <1>1. c \in Seq(Stages) /\ \A l, m \in c[k].links : l.to = m.to => l = m
    BY CommandsAssumption
  <1>2. c[k] \in Stages
    BY <1>1, ElementOfSeq
  <1>3. QED
    BY <1>1, <1>2 DEF Stages

LEMMA FirstStage ==
  ASSUME NEW c \in Commands
  PROVE  Len(c) \in Nat /\ 1 \in 1 .. Len(c)
  <1>1. c \in Seq(Stages) /\ c # <<>>
    BY CommandsAssumption
  <1>2. QED
    BY <1>1, EmptySeq

LEMMA HandleTypes ==
  ASSUME TypeOK
  PROVE  /\ Standard \in [Fds -> Handles] /\ File \in Handles
         /\ \A which \in {"read", "write"} : \A link \in Links : End(which, at, link) \in Handles
         /\ \A table \in [Fds -> Handles] : \A h \in Handles : \A fds : Inherit(table, h, fds) \in [Fds -> Handles]
  <1>1. Terminal \in Handles /\ File \in Handles /\ Closed \in Handles
    BY DEF Handles, Terminal, File, Closed, Other
  <1>2. Standard \in [Fds -> Handles]
    BY <1>1 DEF Standard
  <1>3. job \in Nat /\ at \in Nat
    BY CommandsAssumption DEF TypeOK
  <1>4. \A which \in {"read", "write"} : \A link \in Links : End(which, at, link) \in Handles
    BY <1>3 DEF End, Handles, Links
  <1>5. \A table \in [Fds -> Handles] : \A h \in Handles : \A fds : Inherit(table, h, fds) \in [Fds -> Handles]
    BY DEF Inherit
  <1>6. QED
    BY <1>1, <1>2, <1>4, <1>5

(* Sequences of sets: what the first one and the rest contribute. *)
LEMMA UnionOfTail ==
  ASSUME NEW S, NEW s \in Seq(SUBSET S), s # <<>>
  PROVE  /\ Head(s) \in SUBSET S /\ Tail(s) \in Seq(SUBSET S)
         /\ Head(s) \subseteq UNION Range(s)
         /\ UNION Range(Tail(s)) \subseteq UNION Range(s)
  <1>1. Head(s) \in SUBSET S /\ Tail(s) \in Seq(SUBSET S)
    BY HeadTailProperties
  <1>2. Len(s) \in Nat \ {0} /\ Len(Tail(s)) = Len(s) - 1
    BY EmptySeq, HeadTailProperties
  <1>3. Head(s) = s[1] /\ \A i \in 1 .. Len(Tail(s)) : Tail(s)[i] = s[i + 1] /\ i + 1 \in 1 .. Len(s)
    BY <1>2, HeadTailProperties
  <1>4. DOMAIN s = 1 .. Len(s) /\ DOMAIN Tail(s) = 1 .. Len(Tail(s))
    BY <1>1, LenProperties
  <1>5. Head(s) \in Range(s)
    BY <1>2, <1>3, <1>4 DEF Range
  <1>6. Range(Tail(s)) \subseteq Range(s)
    BY <1>3, <1>4 DEF Range
  <1>7. QED
    BY <1>1, <1>5, <1>6

(* The wiring of the processes in the context rests on few variables. *)
LEMMA SameContext ==
  ASSUME ContextWired, UNCHANGED <<job, cmd, ctx, procs>>
  PROVE  ContextWired'
  <1>1. ASSUME NEW i \in ctx
        PROVE  /\ Reads(procs[i].table, procs[i].stage, cmd[procs[i].stage].links)'
               /\ Writes(procs[i].table, procs[i].stage, cmd[procs[i].stage].links)'
    <2>1. /\ Reads(procs[i].table, procs[i].stage, cmd[procs[i].stage].links)
          /\ Writes(procs[i].table, procs[i].stage, cmd[procs[i].stage].links)
      BY DEF ContextWired
    <2>2. QED
      BY <2>1 DEF Reads, Writes, End, Redirected
  <1>2. QED
    BY <1>1 DEF ContextWired

----------------------------------------------------------------------------
(* execute_all up to the start of a stage's process. *)
LEMMA StartKeeps ==
  ASSUME IInv, Start
  PROVE  IInv'
  <1> USE DEF IInv
  <1>1. /\ cmd' \in Commands /\ at' = 1 /\ phase' = "pipes" /\ result' = "ok"
        /\ todo' = cmd'[1].links /\ redirs' = cmd'[1].redirs
        /\ cur' = Standard /\ next' = Standard /\ ctx' = {} /\ job' = job + 1 /\ job < MaxJobs
        /\ UNCHANGED <<temp, leaked, procs>>
    BY DEF Start
  <1>2. /\ redirs' \in Seq(SUBSET Fds) /\ todo' \subseteq Links
        /\ Len(cmd') \in Nat /\ at' \in 1 .. Len(cmd')
    BY <1>1, FirstStage, StageFacts
  <1>3. job' \in 0 .. MaxJobs
    BY <1>1, CommandsAssumption DEF TypeOK
  <1>4. TypeOK'
    <2>1. Standard \in [Fds -> Handles]
      BY HandleTypes
    <2>2. at' \in Nat
      BY <1>1
    <2>3. QED
      BY <1>1, <1>2, <1>3, <2>1, <2>2 DEF TypeOK
  <1>5. EndsGiven'
    <2>1. Neighbourly(cur, job, at)' /\ Neighbourly(next, job, at + 1)'
      BY <1>1 DEF Neighbourly, Standard, Terminal, Closed, Other
    <2>2. \A i \in DOMAIN procs : Neighbourly(procs[i].table, procs[i].job, procs[i].stage)'
      BY <1>1 DEF EndsGiven, Neighbourly
    <2>3. QED
      BY <1>1, <2>1, <2>2 DEF EndsGiven
  <1>6. Opened' = {}
    BY <1>1 DEF Opened
  <1>7. StageWired'
    <2>1. Reads(cur, at, Opened)' /\ Writes(cur, at, Opened)'
      BY <1>1, <1>6 DEF Reads, Writes
    <2>2. (UNION Range(redirs))' \subseteq Redirected(at)'
      BY <1>1 DEF Redirected
    <2>3. QED
      BY <1>1, <1>6, <2>1, <2>2 DEF StageWired
  <1>8. QED
    BY <1>1, <1>2, <1>4, <1>5, <1>7 DEF InCommand, ContextWired

LEMMA OpenPipeKeeps ==
  ASSUME IInv, OpenPipe
  PROVE  IInv'
  <1> USE DEF IInv
  <1>1. PICK link \in todo :
          /\ todo' = todo \ {link}
          /\ temp' = temp \o << End("read", at, link), End("write", at, link) >>
          /\ next' = Inherit(next, End("read", at, link), {link.to})
          /\ cur' = Inherit(cur, End("write", at, link), link.from)
    BY DEF OpenPipe
  <1>2. phase = "pipes" /\ UNCHANGED <<job, cmd, at, phase, result, redirs, leaked, ctx, procs>>
    BY DEF OpenPipe
  <1>3. cmd \in Commands /\ at \in 1 .. Len(cmd) /\ todo \subseteq cmd[at].links
    BY <1>2 DEF InCommand, StageWired, Starting
  <1>4. link \in cmd[at].links /\ link \in Links /\ Opened' = Opened \cup {link} /\ link \notin Opened
    BY <1>1, <1>2, <1>3, StageFacts DEF Opened
  <1>5. TypeOK'
    <2>1. << End("read", at, link), End("write", at, link) >> \in Seq(Handles)
      BY <1>4, HandleTypes
    <2>2. temp' \in Seq(Handles)
      BY <1>1, <2>1, ConcatProperties DEF TypeOK
    <2>3. cur' \in [Fds -> Handles] /\ next' \in [Fds -> Handles]
      BY <1>1, <1>4, HandleTypes DEF TypeOK
    <2>4. QED
      BY <1>1, <1>2, <2>2, <2>3 DEF TypeOK
  <1>6. EndsGiven'
    <2>1. Neighbourly(cur, job, at) /\ Neighbourly(next, job, at + 1)
      BY <1>2 DEF EndsGiven, Starting
    <2>2. Neighbourly(cur', job, at)
      BY <1>1, <2>1 DEF Neighbourly, Inherit, End
    <2>3. Neighbourly(next', job, at + 1)
      BY <1>1, <2>1 DEF Neighbourly, Inherit, End
    <2>4. QED
      BY <1>2, <2>2, <2>3 DEF EndsGiven, Neighbourly
  <1>7. StageWired'
    <2>1. /\ Reads(cur, at, Opened) /\ Writes(cur, at, Opened)
          /\ \A l \in Opened : next[l.to] = End("read", at, l)
          /\ UNION Range(redirs) \subseteq Redirected(at)
      BY <1>2 DEF StageWired, Starting
    <2>2. \A l \in Opened : l \in Links /\ l.to \in Fds /\ l.to # link.to
      BY <1>3, <1>4, StageFacts DEF Opened, Links
    <2>3. link.to \in Fds /\ link.from \subseteq Fds
      BY <1>4 DEF Links
    <2>4. \A l \in Opened' : next'[l.to] = End("read", at, l)
      BY <1>1, <1>4, <2>1, <2>2, <2>3 DEF Inherit
    <2>5. Reads(cur', at, Opened')
      <3>1. SUFFICES ASSUME at > 1, NEW l \in cmd[at - 1].links
                     PROVE  \/ cur'[l.to] = End("read", at - 1, l)
                            \/ l.to \in Redirected(at)
                            \/ \E k \in Opened' : l.to \in k.from
        BY DEF Reads
      <3>2. at - 1 \in 1 .. Len(cmd)
        BY <1>3, <3>1, FirstStage
      <3>3. l.to \in Fds
        BY <1>3, <3>2, StageFacts DEF Links
      <3>4. CASE l.to \in link.from
        BY <1>4, <3>4
      <3>5. CASE l.to \notin link.from
        <4>1. cur'[l.to] = cur[l.to]
          BY <1>1, <3>3, <3>5 DEF Inherit
        <4>2. QED
          BY <1>4, <2>1, <3>1, <4>1 DEF Reads
      <3>6. QED
        BY <3>4, <3>5
    <2>6. Writes(cur', at, Opened')
      <3>1. SUFFICES ASSUME NEW l \in Opened', NEW fd \in l.from \ Redirected(at)
                     PROVE  \E k \in Opened' : fd \in k.from /\ cur'[fd] = End("write", at, k)
        BY DEF Writes
      <3>2. fd \in Fds
        BY <1>4, <2>2, <2>3 DEF Links
      <3>3. CASE fd \in link.from
        BY <1>1, <1>4, <3>2, <3>3 DEF Inherit
      <3>4. CASE fd \notin link.from
        <4>1. cur'[fd] = cur[fd]
          BY <1>1, <3>2, <3>4 DEF Inherit
        <4>2. l \in Opened
          BY <1>4, <3>4
        <4>3. QED
          BY <1>4, <2>1, <4>1, <4>2 DEF Writes
      <3>5. QED
        BY <3>3, <3>4
    <2>7. Reads(cur, at, Opened)'
      BY <1>2, <2>5 DEF Reads, End, Redirected
    <2>8. Writes(cur, at, Opened)'
      BY <1>2, <2>6 DEF Writes, End, Redirected
    <2>9. (\A l \in Opened : next[l.to] = End("read", at, l))'
      BY <1>2, <2>4 DEF End
    <2>10. (UNION Range(redirs) \subseteq Redirected(at))'
      BY <1>2, <2>1 DEF Redirected
    <2>11. todo' \subseteq cmd'[at'].links /\ phase' = "pipes"
      BY <1>1, <1>2, <1>3
    <2>12. QED
      BY <2>7, <2>8, <2>9, <2>10, <2>11 DEF StageWired
  <1>8. ContextWired' /\ InCommand'
    BY <1>2, SameContext DEF InCommand
  <1>9. QED
    BY <1>5, <1>6, <1>7, <1>8

LEMMA OpenFileKeeps ==
  ASSUME IInv, OpenFile
  PROVE  IInv'
  <1> USE DEF IInv
  <1>1. /\ phase = "redirs" /\ redirs # <<>> /\ redirs' = Tail(redirs) /\ temp' = Append(temp, File)
        /\ cur' = Inherit(cur, File, Head(redirs))
        /\ UNCHANGED <<job, cmd, at, phase, result, todo, next, leaked, ctx, procs>>
    BY DEF OpenFile
  <1>2. /\ Head(redirs) \in SUBSET Fds /\ Tail(redirs) \in Seq(SUBSET Fds)
        /\ Head(redirs) \subseteq UNION Range(redirs)
        /\ UNION Range(Tail(redirs)) \subseteq UNION Range(redirs)
    BY <1>1, UnionOfTail DEF TypeOK
  <1>3. TypeOK'
    <2>1. File \in Handles /\ cur' \in [Fds -> Handles]
      BY <1>1, HandleTypes DEF TypeOK
    <2>2. temp' \in Seq(Handles)
      BY <1>1, <2>1, AppendProperties DEF TypeOK
    <2>3. QED
      BY <1>1, <1>2, <2>1, <2>2 DEF TypeOK
  <1>4. EndsGiven'
    <2>1. Neighbourly(cur', job, at)
      BY <1>1 DEF EndsGiven, Starting, Neighbourly, Inherit, File, Other
    <2>2. QED
      BY <1>1, <2>1 DEF EndsGiven, Starting, Neighbourly
  <1>5. StageWired'
    <2>1. /\ Reads(cur, at, Opened) /\ Writes(cur, at, Opened) /\ todo \subseteq cmd[at].links /\ todo = {}
          /\ \A l \in Opened : next[l.to] = End("read", at, l)
          /\ UNION Range(redirs) \subseteq Redirected(at)
      BY <1>1 DEF StageWired, Starting
    <2>2. cmd \in Commands /\ at \in 1 .. Len(cmd)
      BY <1>1 DEF InCommand
    <2>3. \A fd \in Fds \ Redirected(at) : cur'[fd] = cur[fd]
      BY <1>1, <1>2, <2>1 DEF Inherit
    <2>4. Reads(cur', at, Opened)
      <3>1. ASSUME at > 1, NEW l \in cmd[at - 1].links PROVE l.to \in Fds
        <4>1. at - 1 \in 1 .. Len(cmd)
          BY <2>2, <3>1, FirstStage
        <4>2. QED
          BY <2>2, <3>1, <4>1, StageFacts DEF Links
      <3>2. QED
        BY <2>1, <2>3, <3>1 DEF Reads
    <2>5. Writes(cur', at, Opened)
      <3>1. \A l \in Opened : l.from \subseteq Fds
        BY <2>2, StageFacts DEF Opened, Links
      <3>2. QED
        BY <2>1, <2>3, <3>1 DEF Writes
    <2>6. Opened' = Opened
      BY <1>1 DEF Opened
    <2>7. Reads(cur, at, Opened)'
      BY <1>1, <2>4, <2>6 DEF Reads, End, Redirected
    <2>8. Writes(cur, at, Opened)'
      <3>1. Redirected(at)' = Redirected(at) /\ at' = at
        BY <1>1 DEF Redirected
      <3>2. \A l : End("write", at, l)' = End("write", at, l)
        BY <1>1 DEF End
      <3>3. QED
        BY <2>5, <2>6, <3>1, <3>2 DEF Writes
    <2>9. (\A l \in Opened : next[l.to] = End("read", at, l))'
      BY <1>1, <2>1, <2>6 DEF End
    <2>10. (UNION Range(redirs) \subseteq Redirected(at))'
      BY <1>1, <1>2, <2>1 DEF Redirected
    <2>11. QED
      BY <1>1, <2>1, <2>7, <2>8, <2>9, <2>10 DEF StageWired
  <1>6. ContextWired' /\ InCommand'
    BY <1>1, SameContext DEF InCommand
  <1>7. QED
    BY <1>3, <1>4, <1>5, <1>6

(* The tables of the stage after at, when execute_all moves on. *)
LEMMA AdvanceKeeps ==
  ASSUME IInv, Started, Advance, UNCHANGED <<job, cmd>>
  PROVE  /\ at' \in Nat /\ phase' \in {"pipes", "closing"} /\ result' \in {"ok", "err"}
         /\ todo' \subseteq Links /\ redirs' \in Seq(SUBSET Fds)
         /\ cur' \in [Fds -> Handles] /\ next' \in [Fds -> Handles]
         /\ InCommand' /\ StageWired'
         /\ (Starting => Neighbourly(cur, job, at) /\ Neighbourly(next, job, at + 1))'
  <1> USE DEF IInv
  <1>1. phase = "redirs" /\ cmd \in Commands /\ at \in 1 .. Len(cmd)
    BY DEF Started, InCommand
  <1>2. CASE at = Len(cmd)
    <2>1. phase' = "closing" /\ result' = "ok" /\ UNCHANGED <<at, todo, redirs, cur, next>>
      BY <1>2 DEF Advance
    <2>2. QED
      BY <1>1, <2>1 DEF InCommand, StageWired, Starting, TypeOK
  <1>3. CASE at # Len(cmd)
    <2>1. /\ at' = at + 1 /\ phase' = "pipes" /\ todo' = cmd[at + 1].links /\ redirs' = cmd[at + 1].redirs
          /\ cur' = next /\ next' = Standard /\ UNCHANGED result
      BY <1>3 DEF Advance
    <2>2. at + 1 \in 1 .. Len(cmd)
      BY <1>1, <1>3, FirstStage
    <2>3. todo' \subseteq Links /\ redirs' \in Seq(SUBSET Fds)
      BY <1>1, <2>1, <2>2, StageFacts
    <2>4. Standard \in [Fds -> Handles]
      BY HandleTypes
    <2>5. InCommand'
      BY <1>1, <2>1, <2>2 DEF InCommand
    <2>6. Neighbourly(cur, job, at)' /\ Neighbourly(next, job, at + 1)'
      <3>1. Neighbourly(next, job, at + 1)
        BY <1>1 DEF EndsGiven, Starting
      <3>2. Neighbourly(cur, job, at)'
        BY <2>1, <3>1 DEF Neighbourly
      <3>3. Neighbourly(next, job, at + 1)'
        BY <2>1 DEF Neighbourly, Standard, Terminal, Closed, Other
      <3>4. QED
        BY <3>2, <3>3
    <2>7. StageWired'
      <3>1. todo = {} /\ \A link \in Opened : next[link.to] = End("read", at, link)
        BY <1>1 DEF StageWired, Starting
      <3>2. Opened = cmd[at].links /\ Opened' = {}
        BY <2>1, <3>1 DEF Opened
      <3>3. at' - 1 = at
        BY <1>1, <2>1
      <3>4. Reads(cur, at, Opened)'
        BY <2>1, <3>1, <3>2, <3>3 DEF Reads, End
      <3>5. Writes(cur, at, Opened)'
        BY <3>2 DEF Writes
      <3>6. (UNION Range(redirs))' \subseteq Redirected(at)'
        BY <2>1 DEF Redirected
      <3>7. QED
        BY <2>1, <3>2, <3>4, <3>5, <3>6 DEF StageWired
    <2>8. QED
      BY <1>1, <2>1, <2>2, <2>3, <2>4, <2>5, <2>6, <2>7 DEF TypeOK
  <1>4. QED
    BY <1>2, <1>3

LEMMA SpawnProcessKeeps ==
  ASSUME IInv, SpawnProcess
  PROVE  IInv'
  <1> USE DEF IInv
  <1> DEFINE new == [job |-> job, stage |-> at, table |-> cur, alive |-> TRUE]
             P   == [job : Nat, stage : Nat, table : [Fds -> Handles], alive : BOOLEAN]
  <1>1. /\ Started /\ Advance /\ UNCHANGED <<job, cmd, temp, leaked>>
        /\ procs' = Append(procs, new) /\ ctx' = ctx \cup {Len(procs) + 1}
    BY DEF SpawnProcess
  <1>2. /\ procs \in Seq(P) /\ new \in P /\ DOMAIN procs = 1 .. Len(procs) /\ Len(procs) \in Nat
        /\ ctx \subseteq DOMAIN procs
    <2>1. procs \in Seq(P) /\ ctx \subseteq DOMAIN procs
      BY DEF TypeOK
    <2>2. new \in P
      BY CommandsAssumption DEF TypeOK
    <2>3. QED
      BY <2>1, <2>2
  <1>3. /\ procs' \in Seq(P) /\ Len(procs') = Len(procs) + 1 /\ DOMAIN procs' = 1 .. Len(procs) + 1
        /\ \A i \in 1 .. Len(procs) : procs'[i] = procs[i]
        /\ procs'[Len(procs) + 1] = new
    BY <1>1, <1>2
  <1>4. TypeOK'
    <2>1. ctx' \subseteq DOMAIN procs'
      BY <1>1, <1>2, <1>3
    <2>2. procs' \in Seq([job : Nat, stage : Nat, table : [Fds -> Handles], alive : BOOLEAN])
      BY <1>3
    <2>3. QED
      BY <1>1, <2>1, <2>2, AdvanceKeeps DEF TypeOK
  <1>5. EndsGiven'
    <2>1. Neighbourly(cur, job, at)
      BY <1>1 DEF EndsGiven, Starting, Started
    <2>2. \A i \in DOMAIN procs' : Neighbourly(procs'[i].table, procs'[i].job, procs'[i].stage)
      <3>1. Neighbourly(new.table, new.job, new.stage)
        BY <2>1
      <3>2. \A i \in 1 .. Len(procs) : Neighbourly(procs'[i].table, procs'[i].job, procs'[i].stage)
        BY <1>2, <1>3 DEF EndsGiven
      <3>3. \A i \in DOMAIN procs' : i \in 1 .. Len(procs) \/ i = Len(procs) + 1
        BY <1>2, <1>3
      <3>4. QED
        BY <1>3, <3>1, <3>2, <3>3
    <2>3. \A i \in DOMAIN procs' : Neighbourly(procs[i].table, procs[i].job, procs[i].stage)'
      BY <2>2 DEF Neighbourly
    <2>4. QED
      BY <1>1, <2>3, AdvanceKeeps DEF EndsGiven
  <1>6. ContextWired'
    <2>1. ASSUME NEW i \in ctx'
          PROVE  /\ procs'[i].stage \in 1 .. Len(cmd)
                 /\ Reads(procs'[i].table, procs'[i].stage, cmd[procs'[i].stage].links)
                 /\ Writes(procs'[i].table, procs'[i].stage, cmd[procs'[i].stage].links)
      <3>1. CASE i \in ctx
        <4>1. procs'[i] = procs[i]
          BY <1>2, <1>3, <3>1
        <4>2. QED
          BY <3>1, <4>1 DEF ContextWired
      <3>2. CASE i = Len(procs) + 1
        <4>1. procs'[i].stage = at /\ procs'[i].table = cur
          BY <1>3, <3>2
        <4>2. Opened = cmd[at].links /\ Reads(cur, at, Opened) /\ Writes(cur, at, Opened)
          BY <1>1 DEF StageWired, Starting, Started, Opened
        <4>3. QED
          BY <1>1, <4>1, <4>2 DEF InCommand, Started
      <3>3. QED
        BY <1>1, <2>1, <3>1, <3>2
    <2>2. ASSUME NEW i \in ctx'
          PROVE  /\ Reads(procs[i].table, procs[i].stage, cmd[procs[i].stage].links)'
                 /\ Writes(procs[i].table, procs[i].stage, cmd[procs[i].stage].links)'
      <3>1. Redirected(procs[i].stage)' = Redirected(procs'[i].stage)
        BY <1>1 DEF Redirected
      <3>2. \A which, stage, link : End(which, stage, link)' = End(which, stage, link)
        BY <1>1 DEF End
      <3>3. cmd' = cmd
        BY <1>1
      <3>4. Reads(procs[i].table, procs[i].stage, cmd[procs[i].stage].links)'
        BY <2>1, <2>2, <3>1, <3>2, <3>3 DEF Reads
      <3>5. Writes(procs[i].table, procs[i].stage, cmd[procs[i].stage].links)'
        BY <2>1, <2>2, <3>1, <3>2, <3>3 DEF Writes
      <3>6. QED
        BY <3>4, <3>5
    <2>3. QED
      BY <1>1, <2>1, <2>2 DEF ContextWired
  <1>7. QED
    BY <1>1, <1>4, <1>5, <1>6, AdvanceKeeps

LEMMA RunBuiltinKeeps ==
  ASSUME IInv, RunBuiltin
  PROVE  IInv'
  <1>1. Started /\ Advance /\ UNCHANGED <<job, cmd, temp, leaked, ctx, procs>>
    BY DEF RunBuiltin
  <1>2. TypeOK'
    BY <1>1, AdvanceKeeps DEF IInv, TypeOK
  <1>3. \A i \in DOMAIN procs : Neighbourly(procs[i].table, procs[i].job, procs[i].stage)'
    BY <1>1 DEF IInv, EndsGiven, Neighbourly
  <1>4. EndsGiven'
    BY <1>1, <1>3, AdvanceKeeps DEF EndsGiven
  <1>5. ContextWired'
    BY <1>1, SameContext DEF IInv
  <1>6. QED
    BY <1>1, <1>2, <1>4, <1>5, AdvanceKeeps DEF IInv

----------------------------------------------------------------------------
(* The return, the wait and the processes' exits. *)
LEMMA PipesOpenKeeps ==
  ASSUME IInv, PipesOpen
  PROVE  IInv'
  <1> USE DEF IInv
  <1>1. /\ phase = "pipes" /\ todo = {} /\ phase' = "redirs"
        /\ UNCHANGED <<job, cmd, at, result, todo, redirs, cur, next, temp, leaked, ctx, procs>>
    BY DEF PipesOpen
  <1>2. TypeOK' /\ InCommand'
    BY <1>1 DEF TypeOK, InCommand
  <1>3. EndsGiven'
    BY <1>1 DEF EndsGiven, Starting, Neighbourly
  <1>4. StageWired'
    <2>1. Opened' = Opened
      BY <1>1 DEF Opened
    <2>2. Redirected(at)' = Redirected(at)
      BY <1>1 DEF Redirected
    <2>3. \A which, stage, link : End(which, stage, link)' = End(which, stage, link)
      BY <1>1 DEF End
    <2>4. Reads(cur, at, Opened)'
      BY <1>1, <2>1, <2>2, <2>3 DEF Reads, StageWired, Starting
    <2>5. Writes(cur, at, Opened)'
      BY <1>1, <2>1, <2>2, <2>3 DEF Writes, StageWired, Starting
    <2>6. QED
      BY <1>1, <2>1, <2>2, <2>3, <2>4, <2>5 DEF StageWired, Starting
  <1>5. QED
    BY <1>1, <1>2, <1>3, <1>4, SameContext

LEMMA ReturnKeeps ==
  ASSUME IInv, Fails \/ CloseOne \/ Return \/ Wait
  PROVE  IInv'
  <1> USE DEF IInv
  <1>1. /\ phase' \in {"idle", "closing", "wait"} /\ (phase' # "idle" => phase # "idle")
        /\ result' \in {"ok", "err"}
        /\ UNCHANGED <<job, cmd, at, todo, redirs, cur, next, ctx, procs>>
    BY DEF Fails, CloseOne, Return, Wait, Started, TypeOK
  <1>2. temp' \in Seq(Handles)
    <2>1. temp \in Seq(Handles)
      BY DEF TypeOK
    <2>2. temp' = temp \/ (temp # <<>> /\ temp' = Tail(temp))
      BY DEF Fails, CloseOne, Return, Wait
    <2>3. temp # <<>> => Tail(temp) \in Seq(Handles)
      BY <2>1, HeadTailProperties
    <2>4. QED
      BY <2>1, <2>2, <2>3
  <1>3. leaked' \subseteq Handles
    <2>1. leaked \subseteq Handles /\ temp \in Seq(Handles)
      BY DEF TypeOK
    <2>2. leaked' = leaked \/ (temp # <<>> /\ leaked' = leaked \cup {Head(temp)})
      BY DEF Fails, CloseOne, Return, Wait
    <2>3. temp # <<>> => Head(temp) \in Handles
      BY <2>1, HeadTailProperties
    <2>4. QED
      BY <2>1, <2>2, <2>3
  <1>4. TypeOK' /\ InCommand'
    BY <1>1, <1>2, <1>3 DEF TypeOK, InCommand
  <1>5. EndsGiven' /\ StageWired'
    BY <1>1 DEF EndsGiven, StageWired, Starting, Neighbourly
  <1>6. QED
    BY <1>1, <1>4, <1>5, SameContext

LEMMA ExitKeeps ==
  ASSUME IInv, NEW i \in DOMAIN procs, Exit(i)
  PROVE  IInv'
  <1> USE DEF IInv
  <1> DEFINE P == [job : Nat, stage : Nat, table : [Fds -> Handles], alive : BOOLEAN]
  <1>1. /\ procs' = [procs EXCEPT ![i].alive = FALSE]
        /\ UNCHANGED <<job, cmd, at, phase, result, todo, redirs, cur, next, temp, leaked, ctx>>
    BY DEF Exit
  <1>2. procs \in Seq(P) /\ procs[i] \in P /\ i \in 1 .. Len(procs)
    <2>1. procs \in Seq(P)
      BY DEF TypeOK
    <2>2. i \in 1 .. Len(procs)
      BY <2>1
    <2>3. QED
      BY <2>1, <2>2, ElementOfSeq
  <1>3. procs' = [procs EXCEPT ![i] = [procs[i] EXCEPT !.alive = FALSE]] /\ [procs[i] EXCEPT !.alive = FALSE] \in P
    BY <1>1, <1>2
  <1>4. procs' \in Seq(P) /\ DOMAIN procs' = DOMAIN procs
    <2>1. ASSUME NEW q \in P PROVE [procs EXCEPT ![i] = q] \in Seq(P)
      BY <1>2, ExceptSeq
    <2>2. procs' \in Seq(P)
      BY <1>3, <2>1
    <2>3. QED
      BY <1>1, <2>2
  <1>5. \A k \in DOMAIN procs : /\ procs'[k].table = procs[k].table /\ procs'[k].job = procs[k].job
                                /\ procs'[k].stage = procs[k].stage
    BY <1>2, <1>3
  <1>6. TypeOK' /\ InCommand'
    BY <1>1, <1>4 DEF TypeOK, InCommand
  <1>7. EndsGiven'
    BY <1>1, <1>4, <1>5 DEF EndsGiven, Starting, Neighbourly
  <1>8. \A which, stage, link : End(which, stage, link)' = End(which, stage, link)
    BY <1>1 DEF End
  <1>9. \A stage : Redirected(stage)' = Redirected(stage)
    BY <1>1 DEF Redirected
  <1>10. StageWired'
    <2>1. Opened' = Opened
      BY <1>1 DEF Opened
    <2>2. Starting => Reads(cur, at, Opened)'
      BY <1>1, <1>8, <1>9, <2>1 DEF Reads, StageWired
    <2>3. Starting => Writes(cur, at, Opened)'
      BY <1>1, <1>8, <1>9, <2>1 DEF Writes, StageWired
    <2>4. QED
      BY <1>1, <1>8, <1>9, <2>1, <2>2, <2>3 DEF StageWired, Starting
  <1>11. ContextWired'
    <2>1. ASSUME NEW k \in ctx
          PROVE  /\ procs'[k].stage \in 1 .. Len(cmd)
                 /\ Reads(procs[k].table, procs[k].stage, cmd[procs[k].stage].links)'
                 /\ Writes(procs[k].table, procs[k].stage, cmd[procs[k].stage].links)'
      <3>1. procs'[k].table = procs[k].table /\ procs'[k].stage = procs[k].stage
        BY <1>5 DEF TypeOK
      <3>2. Reads(procs[k].table, procs[k].stage, cmd[procs[k].stage].links)'
        BY <1>1, <1>8, <1>9, <3>1 DEF Reads, ContextWired
      <3>3. Writes(procs[k].table, procs[k].stage, cmd[procs[k].stage].links)'
        BY <1>1, <1>8, <1>9, <3>1 DEF Writes, ContextWired
      <3>4. QED
        BY <3>1, <3>2, <3>3 DEF ContextWired
    <2>2. QED
      BY <1>1, <2>1 DEF ContextWired
  <1>12. QED
    BY <1>6, <1>7, <1>10, <1>11

LEMMA StutterKeeps == IInv /\ UNCHANGED vars => IInv'
  <1> SUFFICES ASSUME IInv, UNCHANGED vars PROVE IInv'
    OBVIOUS
  <1>1. UNCHANGED <<job, cmd, at, phase, result, todo, redirs, cur, next, temp, leaked, ctx, procs>>
    BY DEF vars
  <1>2. TypeOK' /\ InCommand'
    BY <1>1 DEF IInv, TypeOK, InCommand
  <1>3. EndsGiven'
    BY <1>1 DEF IInv, EndsGiven, Starting, Neighbourly
  <1>4. StageWired'
    <2>1. Opened' = Opened
      BY <1>1 DEF Opened
    <2>2. Redirected(at)' = Redirected(at)
      BY <1>1 DEF Redirected
    <2>3. \A which, stage, link : End(which, stage, link)' = End(which, stage, link)
      BY <1>1 DEF End
    <2>4. Starting => Reads(cur, at, Opened)' /\ Writes(cur, at, Opened)'
      BY <1>1, <2>1, <2>2, <2>3 DEF IInv, StageWired, Reads, Writes
    <2>5. QED
      BY <1>1, <2>1, <2>2, <2>3, <2>4 DEF IInv, StageWired, Starting
  <1>5. QED
    BY <1>1, <1>2, <1>3, <1>4, SameContext DEF IInv

----------------------------------------------------------------------------
LEMMA InitIInv == Init => IInv
  <1> SUFFICES ASSUME Init PROVE IInv
    OBVIOUS
  <1>1. TypeOK
    <2>1. Standard \in [Fds -> Handles]
      BY DEF Standard, Handles, Terminal, Closed, Other
    <2>2. QED
      BY <2>1, CommandsAssumption DEF Init, TypeOK
  <1>2. QED
    BY <1>1 DEF Init, IInv, InCommand, EndsGiven, StageWired, ContextWired, Starting

LEMMA StepIInv == IInv /\ [Next]_vars => IInv'
  BY StartKeeps, OpenPipeKeeps, PipesOpenKeeps, OpenFileKeeps, SpawnProcessKeeps, RunBuiltinKeeps,
     ReturnKeeps, ExitKeeps, StutterKeeps DEF Next, Main

(* The inductive invariant of starting pipelines. *)
THEOREM AlwaysIInv == Spec => []IInv
  BY InitIInv, StepIInv, PTL DEF Spec

(* The descriptor tables, temporary ends and redirections keep their types, *)
(* whatever fails while a pipeline is started.                              *)
THEOREM PipelineType == Spec => []TypeOK
  <1>1. IInv => TypeOK
    BY DEF IInv
  <1>2. QED
    BY <1>1, AlwaysIInv, PTL

LEMMA ProcessType ==
  ASSUME TypeOK, NEW i \in DOMAIN procs
  PROVE  procs[i].table \in [Fds -> Handles] /\ procs[i].stage \in Nat
  <1> DEFINE P == [job : Nat, stage : Nat, table : [Fds -> Handles], alive : BOOLEAN]
  <1>1. procs \in Seq(P)
    BY DEF TypeOK
  <1> HIDE DEF P
  <1>2. i \in 1 .. Len(procs)
    BY <1>1
  <1>3. procs[i] \in P
    BY <1>1, <1>2, ElementOfSeq
  <1>4. QED
    BY <1>3 DEF P

(* A process holds write ends of its own stage's pipes and read ends of    *)
(* the stage before, of its own job, and no other end.                     *)
THEOREM EndsStayWithNeighbours == Spec => []EndsWithNeighbours
  <1>1. IInv => EndsWithNeighbours
    <2> SUFFICES ASSUME IInv, NEW i \in DOMAIN procs, NEW h \in Range(procs[i].table)
                 PROVE  /\ h.end = "write" => <<procs[i].job, procs[i].stage>> = <<h.job, h.stage>>
                        /\ h.end = "read"  => <<procs[i].job, procs[i].stage>> = <<h.job, h.stage + 1>>
      BY DEF EndsWithNeighbours
    <2>1. procs[i].table \in [Fds -> Handles]
      BY ProcessType DEF IInv
    <2>2. PICK fd \in Fds : h = procs[i].table[fd]
      BY <2>1 DEF Range
    <2>3. QED
      BY <2>2 DEF IInv, EndsGiven, Neighbourly
  <1>2. QED
    BY <1>1, AlwaysIInv, PTL

(* Every stage of a started job is connected as the line asks, in every    *)
(* order of its links.                                                     *)
THEOREM LinksStayConnected == Spec => []LinksConnect
  <1>1. IInv => LinksConnect
    <2> SUFFICES ASSUME IInv, NEW i \in ctx
                 PROVE  LET stage == procs[i].stage
                            table == procs[i].table
                        IN  /\ stage > 1 => \A link \in cmd[stage - 1].links :
                                 \/ table[link.to] = End("read", stage - 1, link)
                                 \/ link.to \in Redirected(stage)
                                 \/ \E l \in cmd[stage].links : link.to \in l.from
                            /\ \A link \in cmd[stage].links : \A fd \in link.from \ Redirected(stage) :
                                 \E l \in cmd[stage].links :
                                   fd \in l.from /\ table[fd] = End("write", stage, l)
      BY DEF LinksConnect
    <2>1. /\ Reads(procs[i].table, procs[i].stage, cmd[procs[i].stage].links)
          /\ Writes(procs[i].table, procs[i].stage, cmd[procs[i].stage].links)
      BY DEF IInv, ContextWired
    <2>2. QED
      BY <2>1 DEF Reads, Writes
  <1>2. QED
    BY <1>1, AlwaysIInv, PTL
----------------------------------------------------------------------------
(* What the liveness properties rest on. *)

(* Outside execute_all nothing is left that the shell has yet to close,    *)
(* however the start of the last job went.                                 *)
EndsClosed == phase \in {"idle", "wait"} => temp = <<>>

LEMMA StepEndsClosed == EndsClosed /\ [Next]_vars => EndsClosed'
  <1> SUFFICES ASSUME EndsClosed, [Next]_vars PROVE EndsClosed'
    OBVIOUS
  <1>1. CASE Start \/ OpenPipe \/ PipesOpen \/ OpenFile \/ Fails \/ CloseOne
    BY <1>1 DEF Start, OpenPipe, PipesOpen, OpenFile, Fails, CloseOne, EndsClosed
  <1>2. CASE SpawnProcess \/ RunBuiltin
    <2>1. Advance
      BY <1>2 DEF SpawnProcess, RunBuiltin
    <2>2. phase' \in {"closing", "pipes"}
      BY <2>1 DEF Advance
    <2>3. QED
      BY <2>2 DEF EndsClosed
  <1>3. CASE Return \/ Wait
    BY <1>3 DEF Return, Wait, EndsClosed
  <1>4. CASE \E i \in DOMAIN procs : Exit(i)
    BY <1>4 DEF Exit, EndsClosed
  <1>5. CASE UNCHANGED vars
    BY <1>5 DEF vars, EndsClosed
  <1>6. QED
    BY <1>1, <1>2, <1>3, <1>4, <1>5 DEF Next, Main

(* Every return of execute_all has dropped all of should_close: what was   *)
(* opened for a job is closed before the shell waits or prompts, but for   *)
(* what the kernel has refused to close.                                   *)
THEOREM NoEndOutlivesStart == Spec => []EndsClosed
  <1>1. Init => EndsClosed
    BY DEF Init, EndsClosed
  <1>2. QED
    BY <1>1, StepEndsClosed, PTL DEF Spec

(* Of the processes that are left of a job that has lost no write end to a *)
(* refused close, one is at the end of its input: they never all wait for  *)
(* each other, or for the shell.                                           *)
Living(j) == {i \in DOMAIN procs : procs[i].job = j /\ procs[i].alive}

SomeoneEnds ==
  phase \in {"idle", "wait"} =>
    \A j \in Nat : Living(j) # {} /\ ~WriteEndLeaked(j) => \E i \in Living(j) : AtEof(i)

LEMMA FirstEnds ==
  ASSUME TypeOK, EndsWithNeighbours, EndsClosed, phase \in {"idle", "wait"},
         NEW j \in Nat, ~WriteEndLeaked(j), NEW i \in Living(j),
         \A k \in Living(j) : ~(procs[k].stage < procs[i].stage)
  PROVE  AtEof(i)
  <1>1. SUFFICES ASSUME NEW h \in Range(procs[i].table), h.end = "read"
                 PROVE  /\ Holders([h EXCEPT !.end = "write"]) = {}
                        /\ [h EXCEPT !.end = "write"] \notin Range(temp) \cup leaked
    BY DEF AtEof
  <1> DEFINE w == [h EXCEPT !.end = "write"]
  <1>2. i \in DOMAIN procs /\ procs[i].job = j
    BY DEF Living
  <1>3. h \in Handles
    <2>1. procs[i].table \in [Fds -> Handles]
      BY <1>2, ProcessType
    <2>2. QED
      BY <2>1 DEF Range
  <1>4. h.job = j /\ h.stage + 1 = procs[i].stage /\ h.stage \in Nat
    BY <1>1, <1>2, <1>3 DEF EndsWithNeighbours, Handles
  <1>5. w \in Handles /\ w.end = "write" /\ w.job = h.job /\ w.stage = h.stage
    BY <1>3 DEF Handles
  <1> HIDE DEF w
  <1>6. ASSUME NEW k \in Holders(w) PROVE FALSE
    <2>1. k \in DOMAIN procs /\ procs[k].alive /\ w \in Range(procs[k].table)
      BY <1>6 DEF Holders
    <2>2. procs[k].job = w.job /\ procs[k].stage = w.stage
      BY <1>5, <2>1 DEF EndsWithNeighbours
    <2>3. k \in Living(j)
      BY <1>4, <1>5, <2>1, <2>2 DEF Living
    <2>4. procs[k].stage < procs[i].stage
      BY <1>4, <1>5, <2>2
    <2>5. QED
      BY <2>3, <2>4
  <1>7. Range(temp) = {}
    BY DEF EndsClosed, Range
  <1>8. w \notin leaked
    BY <1>4, <1>5 DEF WriteEndLeaked
  <1>9. QED
    BY <1>6, <1>7, <1>8 DEF w

(* While the shell waits or prompts, some process of every job that is not *)
(* over, and has lost no write end to a refused close, has nothing left to *)
(* wait for: the first stage still alive.                                  *)
THEOREM NoJobIsStuck == Spec => []SomeoneEnds
  <1>1. TypeOK /\ EndsWithNeighbours /\ EndsClosed => SomeoneEnds
    <2> SUFFICES ASSUME TypeOK, EndsWithNeighbours, EndsClosed, phase \in {"idle", "wait"},
                        NEW j \in Nat, Living(j) # {}, ~WriteEndLeaked(j)
                 PROVE  \E i \in Living(j) : AtEof(i)
      BY DEF SomeoneEnds
    <2> DEFINE stages == {procs[i].stage : i \in Living(j)}
    <2>1. stages \subseteq Nat
      <3>1. \A i \in DOMAIN procs : procs[i].stage \in Nat
        BY ProcessType
      <3>2. QED
        BY <3>1 DEF Living
    <2>2. stages # {}
      OBVIOUS
    <2>3. PICK s \in stages : \A r \in stages : <<r, s>> \notin OpToRel(<, Nat)
      <3> HIDE DEF stages
      <3>1. QED
        BY <2>1, <2>2, NatLessThanWellFounded, WFMin, Zenon
    <2>4. PICK i \in Living(j) : procs[i].stage = s
      BY <2>3
    <2>5. \A k \in Living(j) : ~(procs[k].stage < procs[i].stage)
      <3>1. \A r \in stages : ~(r < s)
        BY <2>1, <2>3 DEF OpToRel
      <3>2. QED
        BY <2>4, <3>1
    <2>6. QED
      BY <2>5, FirstEnds
  <1>2. QED
    BY <1>1, PipelineType, EndsStayWithNeighbours, NoEndOutlivesStart, PTL

----------------------------------------------------------------------------
(* Where execute_all stands, as an order: a step goes on to a later stage, *)
(* within a stage to a later phase, or within a phase it leaves fewer      *)
(* links, redirections or open descriptors to deal with.                   *)
Forward ==
  \/ /\ phase = "pipes" /\ at' = at
     /\ \/ phase' = "pipes" /\ todo' \subseteq todo /\ todo' # todo
        \/ phase' \in {"redirs", "closing"}
  \/ /\ phase = "redirs" /\ at' = at
     /\ \/ phase' = "redirs" /\ redirs # <<>> /\ Len(redirs') = Len(redirs) - 1
        \/ phase' = "closing"
  \/ /\ phase = "redirs" /\ phase' = "pipes"
     /\ at < Len(cmd) /\ at' = at + 1
  \/ /\ phase = "closing"
     /\ \/ phase' = "closing" /\ temp # <<>> /\ Len(temp') = Len(temp) - 1
        \/ phase' \in {"wait", "idle"}

(* Nothing turns execute_all back: every step of the shell between the     *)
(* start of a job and its wait goes forward in that order, whatever fails. *)
(* With finitely many links a stage it therefore returns: the ranking that *)
(* JobReturns rests on.                                                    *)
THEOREM StartGoesForward == Spec => [][Main /\ phase \notin {"idle", "wait"} => Forward]_vars
  <1>1. IInv /\ [Next]_vars => (Main /\ phase \notin {"idle", "wait"} => Forward)
    <2> SUFFICES ASSUME IInv, Main, phase \notin {"idle", "wait"} PROVE Forward
      OBVIOUS
    <2>1. /\ redirs \in Seq(SUBSET Fds) /\ temp \in Seq(Handles)
          /\ phase \in {"pipes", "redirs", "closing"}
          /\ cmd \in Commands /\ at \in 1 .. Len(cmd)
      BY DEF IInv, TypeOK, InCommand
    <2>2. CASE OpenPipe
      BY <2>2 DEF OpenPipe, Forward
    <2>3. CASE PipesOpen
      BY <2>3 DEF PipesOpen, Forward
    <2>4. CASE OpenFile
      <3>1. redirs # <<>> /\ Len(redirs') = Len(redirs) - 1
        BY <2>1, <2>4, HeadTailProperties DEF OpenFile
      <3>2. QED
        BY <2>4, <3>1 DEF OpenFile, Forward
    <2>5. CASE SpawnProcess \/ RunBuiltin
      <3>1. phase = "redirs" /\ Advance
        BY <2>5 DEF SpawnProcess, RunBuiltin, Started
      <3>2. CASE at = Len(cmd)
        BY <3>1, <3>2 DEF Advance, Forward
      <3>3. CASE at # Len(cmd)
        <4>1. Len(cmd) \in Nat
          BY <2>1, FirstStage
        <4>2. at < Len(cmd)
          BY <2>1, <3>3, <4>1
        <4>3. at' = at + 1 /\ phase' = "pipes"
          BY <3>1, <3>3 DEF Advance
        <4>4. QED
          BY <3>1, <4>2, <4>3 DEF Forward
      <3>4. QED
        BY <3>2, <3>3
    <2>6. CASE Fails
      BY <2>1, <2>6 DEF Fails, Started, Forward
    <2>7. CASE CloseOne
      <3>1. temp # <<>> /\ Len(temp') = Len(temp) - 1
        BY <2>1, <2>7, HeadTailProperties DEF CloseOne
      <3>2. QED
        BY <2>7, <3>1 DEF CloseOne, Forward
    <2>8. CASE Return
      BY <2>8 DEF Return, Forward
    <2>9. QED
      BY <2>1, <2>2, <2>3, <2>4, <2>5, <2>6, <2>7, <2>8 DEF Main, Start, Wait
  <1>2. QED
    <2>1. IInv /\ [Next]_vars => [Main /\ phase \notin {"idle", "wait"} => Forward]_vars
      BY <1>1
    <2>2. QED
      BY <2>1, AlwaysIInv, PTL DEF Spec
=============================================================================
