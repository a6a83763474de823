----------------------------- MODULE Tokenizer -----------------------------
(***************************************************************************)
(* Tokenizer_ of shell/src/parse.rs: a typed line is cut into words, white *)
(* space, pipes and redirections, one parse_token a step.  A line is a     *)
(* sequence of character classes and the cursor counts characters: the     *)
(* code counts bytes, but moves by whole characters only.  Quotes are      *)
(* Letters, since a quoted word is parsed like any other ("TODO quotes").  *)
(***************************************************************************)
EXTENDS Naturals, Sequences, SequencesExt

CONSTANTS
  Letters,    \* characters without a meaning of their own, "=" apart
  OddSpaces,  \* white space that is not ASCII white space
  Lines,      \* the lines that are typed
  Word,       \* descriptors are counted modulo this: 2^32 in the code
  MaxTokens   \* bound: where the model gives up on a line that never ends

Numerals  == << "0", "1", "2", "3", "4", "5", "6", "7", "8", "9" >>
Digits    == Range(Numerals)
Spaces    == {" "} \cup OddSpaces
Breaks    == Spaces \cup {"|", ">", "<"}
WordChars == Letters \cup Digits \cup {"&", ",", "="}

ASSUME LinesAssumption ==
  /\ (Letters \cup OddSpaces) \cap (Digits \cup {" ", "|", ">", "<", "&", ",", "=", "end"}) = {}
  /\ Letters \cap OddSpaces = {}
  /\ Word \in Nat \ 0 .. 3 /\ MaxTokens \in Nat
  /\ \A l \in Lines : l \in Seq(WordChars \cup Breaks) /\ Len(l) + 1 < MaxTokens

VARIABLES
  src,      \* the line
  cursor,   \* the number of characters consumed
  stream,   \* the tokens so far
  phase     \* "scan", "done" (is_done), "error" (tokenize failed), or "built"

(* The four kinds of tokens, and the end.  Descriptors that share an end   *)
(* are a set: every one of them is given the same handle in the end.       *)
Literal(text)           == [kind |-> "literal", text |-> text]
WhiteSpace              == [kind |-> "space"]
Pipe(from, to)          == [kind |-> "pipe", from |-> from, to |-> to]
Redirection(from, mode) == [kind |-> "redir", from |-> from, mode |-> mode]
EOF                     == [kind |-> "eof"]

(* Characters and positions count from 0. *)
Peek(i) == IF i < Len(src) THEN src[i + 1] ELSE "end"

(* The first position from i on whose character is not of S. *)
Skip(i, S) == CHOOSE j \in i .. Len(src) :
                /\ Peek(j) \notin S
                /\ \A k \in i .. j - 1 : Peek(k) \in S

(* parse_num: a number, and where it ends; no digit, no number. *)
NumEnd(i) == IF i < Len(src) THEN Skip(i, Digits) ELSE i
Value(d)  == (CHOOSE n \in 1 .. 10 : Numerals[n] = d) - 1
NumOr(i, default) ==
  LET upTo[n \in 0 .. NumEnd(i) - i] ==
        IF n = 0 THEN 0 ELSE (10 * upTo[n - 1] + Value(src[i + n])) % Word
  IN  IF Peek(i) \notin Digits THEN default ELSE upTo[NumEnd(i) - i]

----------------------------------------------------------------------------
(* parse_pipe *)

(* A pipe starts with a bar, with a bar after one digit or ampersand, or   *)
(* with what the regular expression &\d+(?:,\d+)*\| matches.               *)
NumberList(s) ==
  /\ s # <<>> /\ s[1] # "," /\ s[Len(s)] # ","
  /\ \A k \in 1 .. Len(s) - 1 : s[k] = "," => s[k + 1] # ","

PipeOpens(i) ==
  \/ Peek(i) = "|"
  \/ Peek(i) \in Digits \cup {"&"} /\ Peek(i + 1) = "|"
  \/ /\ Peek(i) = "&"
     /\ i + 1 < Len(src)
     /\ LET bar == Skip(i + 1, Digits \cup {","})
        IN  Peek(bar) = "|" /\ NumberList(SubSeq(src, i + 2, bar))

(* The numbers after "&|", a comma between two, and the first position     *)
(* after them (a comma at the end is consumed too).                        *)
Numbers(start) ==
  LET from[i \in start .. Len(src)] ==
        IF Peek(i) \notin Digits THEN [nums |-> <<>>, end |-> i]
        ELSE LET one == << NumOr(i, 0) >>
             IN  IF Peek(NumEnd(i)) # "," THEN [nums |-> one, end |-> NumEnd(i)]
                 ELSE LET more == from[NumEnd(i) + 1]
                      IN  [nums |-> one \o more.nums, end |-> more.end]
  IN  from[start]

Malformed == [ok |-> FALSE]
Parsed(token, end) == [ok |-> TRUE, token |-> token, end |-> end]

(* The second checked_inc refuses a line that ends with "&|": so does the  *)
(* missing bar below.                                                      *)
PipeToPast(writers, bar) ==
  IF Peek(bar) # "|" THEN Malformed
  ELSE Parsed(Pipe(writers, NumOr(bar + 2, 0)), NumEnd(bar + 2))

PipeTo(writers, bar) ==
  IF Peek(bar) # "|" THEN Malformed
  ELSE Parsed(Pipe(writers, NumOr(bar + 1, 0)), NumEnd(bar + 1))

PipeAt(i) ==
  IF Peek(i) = "&" /\ Peek(i + 1) = "|"
  THEN LET list == Numbers(i + 2)
       IN  IF Len(list.nums) = 1 THEN Malformed
           ELSE PipeTo(IF list.nums = <<>> THEN {1, 2} ELSE Range(list.nums), list.end)
  ELSE PipeTo({NumOr(i, 1)}, NumEnd(i))

(* parse_redir *)
RedirOpens(i) ==
  \/ Peek(i) \in {">", "<"}
  \/ Peek(i) \in Digits \cup {"&"} /\ Peek(i + 1) = ">"

(* With "&" both outputs are redirected next to the mode's own descriptor; *)
(* the operator then starts after the ">" of "&>".                         *)
RedirAtOnce(i) ==
  LET dual == Peek(i) = "&"
      op   == IF dual THEN i + 2 ELSE NumEnd(i)
      From(default) == IF dual THEN {default, 1, 2} ELSE {NumOr(i, default)}
  IN  CASE Peek(op) = ">" /\ Peek(op + 1) = ">" -> Parsed(Redirection(From(1), "append"), op + 1)
        [] Peek(op) = "<"                       -> Parsed(Redirection(From(0), "read"), op + 1)
        [] Peek(op) = ">" /\ Peek(op + 1) # ">" -> Parsed(Redirection(From(1), "write"), op + 1)
        [] OTHER                                -> Malformed

RedirAt(i) ==
  LET dual == Peek(i) = "&"
      op   == IF dual THEN i + 2 ELSE NumEnd(i)
      From(default) == IF dual THEN {default, 1, 2} ELSE {NumOr(i, default)}
  IN  CASE Peek(op) = ">" /\ Peek(op + 1) = ">" -> Parsed(Redirection(From(1), "append"), op + 2)
        [] Peek(op) = "<"                       -> Parsed(Redirection(From(0), "read"), op + 1)
        [] Peek(op) = ">" /\ Peek(op + 1) # ">" -> Parsed(Redirection(From(1), "write"), op + 1)
        [] OTHER                                -> Malformed

(* parse_literal: white space of any kind, but only the ASCII kind of it   *)
(* is consumed; or a word.                                                 *)
LiteralAtAmpersand(i) ==
  IF Peek(i) \in Spaces THEN Parsed(WhiteSpace, Skip(i, {" "}))
  ELSE LET end == Skip(i, WordChars \ {"&"})
       IN  Parsed(Literal(SubSeq(src, i + 1, end)), end)

LiteralAt(i) ==
  IF Peek(i) \in Spaces THEN Parsed(WhiteSpace, Skip(i, {" "}))
  ELSE LET end == Skip(i, WordChars)
       IN  Parsed(Literal(SubSeq(src, i + 1, end)), end)

----------------------------------------------------------------------------
Scanning == phase = "scan" /\ cursor < Len(src)

Take(parsed) ==
  IF parsed.ok
  THEN /\ cursor' = parsed.end /\ stream' = Append(stream, parsed.token)
       /\ UNCHANGED <<src, phase>>
  ELSE phase' = "error" /\ UNCHANGED <<src, cursor, stream>>

ParsePipe    == Scanning /\ PipeOpens(cursor) /\ Take(PipeAt(cursor))
ParseRedir   == Scanning /\ ~PipeOpens(cursor) /\ RedirOpens(cursor) /\ Take(RedirAt(cursor))
ParseLiteral ==
  /\ Scanning /\ ~PipeOpens(cursor) /\ ~RedirOpens(cursor)
  /\ Len(stream) < MaxTokens
  /\ Take(LiteralAt(cursor))

ParseEnd ==
  /\ phase = "scan" /\ cursor = Len(src)
  /\ phase' = "done" /\ stream' = Append(stream, EOF)
  /\ UNCHANGED <<src, cursor>>

Tokenize == ParsePipe \/ ParseRedir \/ ParseLiteral \/ ParseEnd
=============================================================================
