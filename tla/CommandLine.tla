---------------------------- MODULE CommandLine ----------------------------
(***************************************************************************)
(* From a typed line to the chain of stages that execute_all starts:       *)
(* ShellState::linefeed up to the start, Command_::build of                *)
(* shell/src/logic/jobs.rs on the tokens of Tokenizer.  "prompt for a      *)
(* single job looks like <env vars> <bin> <args> <redirs> <pipe>".         *)
(* A file is the word that names it (WorkingDir has what it resolves to),  *)
(* and env the assignments in order (the hash map keeps the last of each). *)
(***************************************************************************)
EXTENDS Tokenizer, FiniteSets

CONSTANT Jobs   \* what the user may have in mind: see Typed

VARIABLES
  job,    \* the job the user has typed, <<>> for a line of Lines
  chain   \* what build returned: a sequence of stages, <<>> for None

vars == <<src, cursor, stream, phase, job, chain>>

Stage(env, bin, args, redirs, links) ==
  [env |-> env, bin |-> bin, args |-> args, redirs |-> redirs, links |-> links]

(* The pieces one after the other. *)
Flat(pieces) ==
  LET from[k \in 1 .. Len(pieces) + 1] ==
        IF k > Len(pieces) THEN <<>> ELSE pieces[k] \o from[k + 1]
  IN  from[1]

(* White space never matters to build, and collect_all has passed all of   *)
(* it where consume_next_with_whitespace would skip one only.              *)
Kept(t) == IF t.kind = "space" THEN <<>> ELSE << t >>
Tokens  == Flat([k \in DOMAIN stream |-> Kept(stream[k])])

IsLiteral(t)    == t.kind = "literal"
IsRedir(t)      == t.kind = "redir"
IsPipe(t)       == t.kind = "pipe"
IsAssignment(t) == IsLiteral(t) /\ Cardinality({k \in DOMAIN t.text : t.text[k] = "="}) = 1

(* collect_all: the first position from i on that is not in S. *)
Collect(i, S) ==
  CHOOSE j \in i .. i + Cardinality(S) : j \notin S /\ \A k \in i .. j - 1 : k \in S

WordsInserted(toks, i, j) == [k \in 1 .. j - i |-> toks[j - k].text]

Words(toks, i, j) == [k \in 1 .. j - i |-> toks[i + k - 1].text]

(* A redirection and its file, as often as they follow each other. *)
FilesEnd(toks, i) ==
  CHOOSE j \in i .. Len(toks) :
    /\ (j - i) % 2 = 0
    /\ \A k \in i .. j - 1 : IF (k - i) % 2 = 0 THEN IsRedir(toks[k]) ELSE IsLiteral(toks[k])
    /\ ~(IsRedir(toks[j]) /\ IsLiteral(toks[j + 1]))

(* connections: one entry for each descriptor that a pipe leads to. *)
LinksApart(toks, i, j) ==
  {[to |-> toks[k].to, from |-> toks[k].from] : k \in i .. j - 1}

Links(toks, i, j) ==
  { [to   |-> fd,
     from |-> UNION {toks[k].from : k \in {l \in i .. j - 1 : toks[l].to = fd}}] :
    fd \in {toks[k].to : k \in i .. j - 1} }

(* Where the parts of the stage that starts at i end: its assignments, its *)
(* arguments, its redirections, one without a file, its pipes.             *)
BinAt(toks, i)   == Collect(i, {k \in DOMAIN toks : IsAssignment(toks[k])})
FilesAt(toks, i) == Collect(BinAt(toks, i) + 1, {k \in DOMAIN toks : IsLiteral(toks[k])})
LeftAt(toks, i)  == FilesEnd(toks, FilesAt(toks, i))
PipesAt(toks, i) == IF IsRedir(toks[LeftAt(toks, i)]) THEN LeftAt(toks, i) + 1 ELSE LeftAt(toks, i)
EndAt(toks, i)   == Collect(PipesAt(toks, i), {k \in DOMAIN toks : IsPipe(toks[k])})

(* Each redirection is followed by its file. *)
Redirs(toks, i, j) ==
  [k \in 1 .. (j - i) \div 2 |->
     [from |-> toks[i + 2 * k - 2].from, mode |-> toks[i + 2 * k - 2].mode,
      file |-> toks[i + 2 * k - 1].text]]

StageAt(toks, i, links) ==
  Stage(Words(toks, i, BinAt(toks, i)), toks[BinAt(toks, i)].text,
        Words(toks, BinAt(toks, i) + 1, FilesAt(toks, i)),
        Redirs(toks, FilesAt(toks, i), LeftAt(toks, i)), links)

(* No program, no command; and none where a redirection without a file is  *)
(* followed by another one.                                                *)
Refused(toks, i) ==
  \/ ~IsLiteral(toks[BinAt(toks, i)])
  \/ IsRedir(toks[LeftAt(toks, i)]) /\ IsRedir(toks[LeftAt(toks, i) + 1])

(* The stage at i and the chain that was built behind its pipes.  Without  *)
(* a pipe (a word after a file ends the stage) it is the last one; pipes   *)
(* that no command follows are dropped.                                    *)
Chained(toks, i, next) ==
  IF EndAt(toks, i) # PipesAt(toks, i) /\ next # <<>>
  THEN << StageAt(toks, i, Links(toks, PipesAt(toks, i), EndAt(toks, i))) >> \o next
  ELSE << StageAt(toks, i, {}) >>

(* Command_::build on the tokens from i on. *)
Build(toks) ==
  LET from[i \in 1 .. Len(toks)] ==
        IF Refused(toks, i) THEN <<>> ELSE Chained(toks, i, from[EndAt(toks, i)])
  IN  from[1]

----------------------------------------------------------------------------
(* The operators a user knows, with what each stands for. *)
RedirForms ==
  { << << ">" >>,                {1},       "write"  >>,
    << << "2", ">" >>,           {2},       "write"  >>,
    << << "&", ">", ">" >>,      {1, 2},    "write"  >>,
    << << ">", ">" >>,           {1},       "append" >>,
    << << "&", ">", ">", ">" >>, {1, 2},    "append" >>,
    << << "<" >>,                {0},       "read"   >> }
PipeForms ==
  { << << "|" >>,                          {1},    0 >>,
    << << "2", "|" >>,                     {2},    0 >>,
    << << "1", "|", "3" >>,                {1},    3 >>,
    << << "&", "|", "|" >>,                {1, 2}, 0 >>,
    << << "&", "|", "1", ",", "2", "|" >>, {1, 2}, 0 >> }

(* A job the user has in mind: its stages, with a form for every operator. *)
(* Typed is the line, a blank after each word and operator; Meant the      *)
(* chain.                                                                  *)
Pieces(s) ==
  s.env \o << s.bin >> \o s.args
    \o Flat([r \in DOMAIN s.redirs |-> << s.redirs[r].form[1], s.redirs[r].file >>])
    \o [p \in DOMAIN s.pipes |-> s.pipes[p][1]]

Spaced(words) == Flat([k \in DOMAIN words |-> words[k] \o << " " >>])

Typed(j) == Spaced(Flat([k \in DOMAIN j |-> Pieces(j[k])]))

Meant(j) ==
  [k \in DOMAIN j |->
    Stage(j[k].env, j[k].bin, j[k].args,
          [r \in DOMAIN j[k].redirs |->
             [from |-> j[k].redirs[r].form[2], mode |-> j[k].redirs[r].form[3],
              file |-> j[k].redirs[r].file]],
          { [to |-> fd, from |-> UNION {p[2] : p \in {q \in Range(j[k].pipes) : q[3] = fd}}] :
            fd \in {p[3] : p \in Range(j[k].pipes)} })]

(* The documented shape, and a line as short as the others: assignments,   *)
(* then a word that is none, words, redirections with their files, and     *)
(* pipes behind every stage but the last.                                  *)
Names == Seq(WordChars) \ {<<>>}
UserStages ==
  [ env    : Seq({w \in Names : IsAssignment(Literal(w))}),
    bin    : {w \in Names : ~IsAssignment(Literal(w))},
    args   : Seq(Names),
    redirs : Seq([form : RedirForms, file : Names]),
    pipes  : Seq(PipeForms) ]

ASSUME JobsAssumption ==
  \A j \in Jobs :
    /\ j \in Seq(UserStages) \ {<<>>}
    /\ \A k \in DOMAIN j : j[k].pipes = <<>> <=> k = Len(j)
    /\ Len(Typed(j)) + 1 < MaxTokens

----------------------------------------------------------------------------
Init ==
  /\ \/ src \in Lines /\ job = <<>>
     \/ job \in Jobs /\ src = Typed(job)
  /\ cursor = 0 /\ stream = <<>> /\ phase = "scan" /\ chain = <<>>

Scan == Tokenize /\ UNCHANGED <<job, chain>>

BuildCommand ==
  /\ phase = "done"
  /\ phase' = "built" /\ chain' = Build(Tokens)
  /\ UNCHANGED <<src, cursor, stream, job>>

Next == Scan \/ BuildCommand

Spec == Init /\ [][Next]_vars

(* The loop of tokenize: nothing else runs in its thread until it is done. *)
FairSpec == Spec /\ WF_vars(Scan)

----------------------------------------------------------------------------
(* Properties *)

Texts == Seq(WordChars)
Stages ==
  [ env    : Seq(Texts),
    bin    : Texts,
    args   : Seq(Texts),
    redirs : Seq([from : SUBSET (0 .. Word - 1), mode : {"read", "write", "append"}, file : Texts]),
    links  : SUBSET [to : 0 .. Word - 1, from : SUBSET (0 .. Word - 1)] ]

TypeOK ==
  /\ phase \in {"scan", "done", "error", "built"}
  /\ cursor \in 0 .. Len(src) /\ Len(stream) <= MaxTokens + 1
  /\ \A k \in DOMAIN stream : stream[k].kind = "eof" <=> k = Len(stream) /\ phase \in {"done", "built"}
  /\ chain \in Seq(Stages)

(* A job of the documented shape is parsed, and what is built is what the  *)
(* user meant: every variable, argument, file and link of every stage.     *)
BuildsWhatIsMeant ==
  job # <<>> =>
    phase # "error" /\ (phase = "built" => chain = Meant(job))

(* Whatever was typed, the words of the chain are the words of the line,   *)
(* in order and from the first on: no word is used twice, skipped or       *)
(* overtaken.  A line of the documented shape loses none of them at the    *)
(* end; others may, and are run nevertheless.                              *)
StageWords(s) ==
  s.env \o << s.bin >> \o s.args \o [r \in DOMAIN s.redirs |-> s.redirs[r].file]
ChainWords    == Flat([k \in DOMAIN chain |-> StageWords(chain[k])])
Spelled(t)    == IF IsLiteral(t) THEN << t.text >> ELSE <<>>
LineWords     == Flat([k \in DOMAIN stream |-> Spelled(stream[k])])

Shaped(toks) ==
  /\ IsLiteral(toks[1])
  /\ \A k \in 1 .. Len(toks) - 1 :
       /\ IsRedir(toks[k]) => IsLiteral(toks[k + 1])
       /\ IsPipe(toks[k]) => IsPipe(toks[k + 1]) \/ IsLiteral(toks[k + 1])
       /\ IsRedir(toks[k]) => k + 2 <= Len(toks) /\ ~IsLiteral(toks[k + 2])
       /\ IsAssignment(toks[k]) => IsLiteral(toks[k + 1])

WordsInOrder ==
  phase = "built" /\ chain # <<>> =>
    /\ IsPrefix(ChainWords, LineWords)
    /\ Shaped(Tokens) => ChainWords = LineWords

(* Whatever was typed, the chain is one that execute_all can start         *)
(* (Pipeline's CommandsAssumption): a stage is linked to the next one, if  *)
(* there is one, by one link for each descriptor read; and no word of it   *)
(* is empty.                                                               *)
ChainFits ==
  \A k \in DOMAIN chain :
    /\ chain[k].links = {} <=> k = Len(chain)
    /\ \A l, m \in chain[k].links : l.to = m.to => l = m
    /\ \A l \in chain[k].links : l.from # {}
    /\ <<>> \notin Range(StageWords(chain[k]))

(* The tokenizer gets through every line without odd white space, to its   *)
(* end or to an error: nothing it meets makes it stand still.              *)
Plain == Range(src) \cap OddSpaces = {}
EveryLineEnds == (phase = "scan" /\ Plain) ~> phase # "scan"

(* "| or num| or num1|num2 or &| or &num,*|": the pipes that parse_pipe    *)
(* says it takes, between two commands, are no syntax errors.              *)
FormsOfComment ==
  { << "|" >>, << "1", "|" >>, << "1", "|", "2" >>, << "&", "|" >>, << "&", "1", ",", "2", "|" >> }
CommentFormsParse ==
  (\E form \in FormsOfComment : src = << "a", " " >> \o form \o << " ", "a" >>) => phase # "error"
=============================================================================
