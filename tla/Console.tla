------------------------------ MODULE Console ------------------------------
(***************************************************************************)
(* The shell's line editor and the terminal that echoes it.  The shell     *)
(* (shell/src/logic/state.rs, ShellState) keeps the line being typed and a *)
(* cursor, and writes text and escape sequences to its standard output     *)
(* pipe; the terminal's reader thread (term/src/output.rs) cuts that into  *)
(* packets for the event loop (term/src/main.rs), which parses each packet *)
(* with a new parser (process_events) and applies it to the current line,  *)
(* which behaves as CaretLine says.  Nothing comes back: the two lines     *)
(* agree because both sides edit alike, or not at all.                     *)
(*                                                                         *)
(* A packet may end anywhere: an escape sequence is the three bytes it is  *)
(* written as, and a character that is not ASCII a lead byte and a byte of *)
(* its own, for which its cell stands; every other byte is a character.    *)
(***************************************************************************)
EXTENDS CaretLine

CONSTANTS
  Letters,      \* what the user and the jobs type
  Wide,         \* those of the letters that take two bytes
  C1,           \* those of them whose second byte alone is a C1 control
  Replacement,  \* U+FFFD, which the parser shows for a byte alone
  MaxLine,      \* bound: the cells of the shell's line
  MaxShown,     \* bound: a job adds no text to a screen line this long
  MaxTears,     \* bound: the tears from one carriage return to the next
  MaxPending,   \* bound: the shell takes a key when this few bytes are unread
  MaxQueue      \* bound: packets waiting for the event loop

(* The glyphs are the letters, the prompt's and the banner's, and the      *)
(* bytes of an arrow's sequence but its first.                             *)
Prompt == << ">", " " >>
Banner == << "/" >>       \* stands for the line "tinyos:<cwd>"
Arrows == {"A", "B", "C", "D"}

ASSUME ConsoleAssumption ==
  /\ Letters \cup Range(Prompt) \cup Range(Banner) \cup Arrows \subseteq Glyphs
  /\ {"[", Replacement} \subseteq Glyphs
  /\ Wide \subseteq Letters \ (Arrows \cup {"[", Tab}) /\ C1 \subseteq Wide
  /\ (Cells \ {"["}) \cap {"esc", "cr", "lf", "lead"} = {}
  /\ {MaxLine, MaxShown, MaxTears, MaxPending, MaxQueue} \subseteq Nat

VARIABLES
  buf,       \* ShellState.input_buf, the prompt included
  cursor,    \* ShellState.cursor
  running,   \* the linefeed handler is running the command of the line
  out,       \* the shell's standard output pipe
  queue,     \* the packets stdout_handler has pushed
  screen,    \* the terminal's current line and caret
  torn       \* history: how many packets have ended inside an escape
             \* sequence or a character since a carriage return was parsed

shellVars == <<buf, cursor, running>>
termVars  == <<screen, torn>>
vars == <<shellVars, out, queue, termVars>>

Bytes == Cells \cup {"esc", "cr", "lf", "lead"}

TypeOK ==
  /\ buf \in Seq(Cells) /\ cursor \in Nat /\ running \in BOOLEAN
  /\ out \in Seq(Bytes) /\ queue \in Seq(Seq(Bytes))
  /\ screen \in CaretLines /\ torn \in Nat

----------------------------------------------------------------------------
(* What the shell writes. *)
Escape(arrow, n) == [i \in 1 .. 3 * n |-> <<"esc", "[", arrow>>[((i - 1) % 3) + 1]]

Encoded(c) == IF c \in Wide THEN <<"lead", c>> ELSE <<c>>

Utf8(line) == FlattenSeq([i \in 1 .. Len(line) |-> Encoded(line[i])])

Reprint(line) == <<"cr">> \o Utf8(line)

PromptBytes == Utf8(Banner) \o <<"lf", "cr">> \o Utf8(Prompt)

Writes(bytes) == out' = out \o bytes

(* ShellState::new has written its prompt; the terminal is empty. *)
Init ==
  /\ buf = Prompt /\ cursor = Len(Prompt) /\ running = FALSE
  /\ out = PromptBytes /\ queue = <<>>
  /\ screen = EmptyLine /\ torn = 0

Reading == ~running /\ Len(out) <= MaxPending

(* The handlers of ShellState, for one key of the user each. *)
Input(c) ==
  /\ Reading /\ Len(buf) < MaxLine
  /\ \/ /\ cursor = Len(buf)
        /\ buf' = Append(buf, c)
        /\ Writes(Encoded(c))
     \/ /\ cursor # Len(buf)
        /\ buf' = InsertAt(buf, cursor + 1, c)
        /\ Writes(Reprint(buf'))
  /\ cursor' = Least(cursor + 1, Len(buf'))
  /\ UNCHANGED <<running, queue, termVars>>

MoveVertically(arrow) ==
  /\ Reading
  /\ Writes(Escape(arrow, 1))
  /\ UNCHANGED <<shellVars, queue, termVars>>

CursorForwardSilent ==
  /\ Reading
  /\ cursor' = Least(cursor + 1, Len(buf))
  /\ UNCHANGED <<buf, running, out, queue, termVars>>

CursorForward ==
  /\ Reading
  /\ cursor' = Least(cursor + 1, Len(buf))
  /\ Writes(Escape("C", 1))
  /\ UNCHANGED <<buf, running, queue, termVars>>

CursorBackwardWraps ==
  /\ Reading
  /\ cursor' = cursor - 1
  /\ Writes(Escape("D", 1))
  /\ UNCHANGED <<buf, running, queue, termVars>>

CursorBackward ==
  /\ Reading
  /\ cursor' = Monus(cursor, 1)
  /\ Writes(Escape("D", 1))
  /\ UNCHANGED <<buf, running, queue, termVars>>

(* is_empty compares lengths; a backspace at the prompt does nothing. *)
Backspace ==
  /\ Reading
  /\ Len(buf) # Len(Prompt) /\ cursor > Len(Prompt)
  /\ cursor' = cursor - 1
  /\ buf' = RemoveAt(buf, cursor)
  /\ Writes(Escape("D", 1) \o Reprint(buf') \o Escape("D", Monus(Len(buf'), cursor')))
  /\ UNCHANGED <<running, queue, termVars>>

CarriageReturnKeepsCursor ==
  /\ Reading
  /\ buf' = <<>>
  /\ Writes(<<"cr">>)
  /\ UNCHANGED <<cursor, running, queue, termVars>>

CarriageReturn ==
  /\ Reading
  /\ buf' = <<>> /\ cursor' = 0
  /\ Writes(<<"cr">>)
  /\ UNCHANGED <<running, queue, termVars>>

(* linefeed up to the command, which writes to the same pipe, and from its *)
(* end: newline, carriage_return and inject_prompt.                        *)
Linefeed ==
  /\ Reading
  /\ running' = TRUE
  /\ Writes(<<"lf">>)
  /\ UNCHANGED <<buf, cursor, queue, termVars>>

JobWrites(c) ==
  /\ running /\ Len(screen.line) < MaxShown /\ Len(out) <= MaxPending
  /\ Writes(Encoded(c))
  /\ UNCHANGED <<shellVars, queue, termVars>>

NewPromptKeepsLine ==
  /\ running
  /\ running' = FALSE
  /\ Writes(<<"lf", "cr">> \o PromptBytes)
  /\ buf' = buf \o Prompt /\ cursor' = Least(cursor + Len(Prompt), Len(buf'))
  /\ UNCHANGED <<queue, termVars>>

NewPrompt ==
  /\ running
  /\ running' = FALSE
  /\ Writes(<<"lf", "cr">> \o PromptBytes)
  /\ buf' = Prompt /\ cursor' = Len(Prompt)
  /\ UNCHANGED <<queue, termVars>>

----------------------------------------------------------------------------
(* The parser and TermState's handlers, of one byte.  A parser p is the    *)
(* part of a sequence or a character it has seen, the line it has edited   *)
(* and torn.  A second byte alone is a control that no handler listens to, *)
(* or is shown as the replacement, and so is a lead byte alone.            *)
Typed(l, b) == IF b = Tab THEN PutTab(l) ELSE TypeCell(l, b)

Moved(l, b) ==
  CASE b = "C" -> MoveForward(l, 1)
    [] b = "D" -> MoveBackward(l, 1)
    [] OTHER   -> l

Ground(p, b) ==
  CASE b \in {"esc", "lead"} -> [p EXCEPT !.seen = b]
    [] b = "cr"          -> [p EXCEPT !.line = EmptyLine, !.torn = 0]
    [] b = "lf"          -> [p EXCEPT !.line = EmptyLine]
    [] b \in C1          -> p
    [] b \in Wide \ C1   -> [p EXCEPT !.line = Typed(p.line, Replacement)]
    [] OTHER             -> [p EXCEPT !.line = Typed(p.line, b)]

Parsed(p, b) ==
  CASE p.seen = "none" -> Ground(p, b)
    [] p.seen = "esc"  -> [p EXCEPT !.seen = "csi"]
    [] p.seen = "csi"  -> [p EXCEPT !.seen = "none", !.line = Moved(p.line, b)]
    [] p.seen = "lead" /\ b \in Wide -> [p EXCEPT !.seen = "none", !.line = Typed(p.line, b)]
    [] p.seen = "lead" /\ b \notin Wide ->
         Ground([p EXCEPT !.seen = "none", !.line = Typed(p.line, Replacement)], b)

ParsedPacket(start, packet) ==
  LET after[i \in 0 .. Len(packet)] ==
        IF i = 0 THEN start ELSE Parsed(after[i - 1], packet[i])
  IN  after[Len(packet)]

(* process_events: a new parser for every packet, dropped at its end. *)
Fresh == [seen |-> "none", line |-> screen, torn |-> torn]

Tears(done) == done.torn + (IF done.seen = "none" THEN 0 ELSE 1)

(* stdout_handler: a read returns some of what is there, cut anywhere. *)
ReadStdout ==
  /\ Len(queue) < MaxQueue
  /\ \E n \in 1 .. Len(out) :
       /\ Tears(ParsedPacket(Fresh, SubSeq(out, 1, n))) <= MaxTears
       /\ queue' = Append(queue, SubSeq(out, 1, n))
       /\ out' = SubSeq(out, n + 1, Len(out))
  /\ UNCHANGED <<shellVars, termVars>>

ProcessEvents ==
  /\ queue # <<>>
  /\ LET done == ParsedPacket(Fresh, Head(queue))
     IN  /\ screen' = done.line
         /\ torn' = Tears(done)
  /\ queue' = Tail(queue)
  /\ UNCHANGED <<shellVars, out>>

Keys ==
  \/ \E c \in Letters \cup {Tab} : Input(c)
  \/ \E arrow \in {"A", "B"} : MoveVertically(arrow)
  \/ CursorForward
  \/ CursorBackward
  \/ Backspace
  \/ CarriageReturn
  \/ Linefeed

Next ==
  \/ Keys
  \/ \E c \in Letters \cup {"lf"} : JobWrites(c)
  \/ NewPrompt
  \/ ReadStdout
  \/ ProcessEvents

Spec == Init /\ [][Next]_vars

----------------------------------------------------------------------------
(* Properties *)

(* ShellState's insert and remove never panic: the cursor stays in the     *)
(* line, even when a carriage return has taken the prompt out of it or the *)
(* arrows have moved the cursor into the prompt.                           *)
CursorInLine == cursor <= Len(buf)

(* Everything written has been applied, and the shell reads keys. *)
Settled == out = <<>> /\ queue = <<>> /\ ~running

(* The terminal shows the line the shell edits, whatever was typed and     *)
(* wherever packets were cut: also after a job that left its output        *)
(* without a line feed, and with letters of more than one byte.  A cut     *)
(* inside an escape sequence or a letter garbles the line, whatever is     *)
(* typed into it then, but no longer than to the next carriage return.     *)
EchoedLine == Settled /\ torn = 0 => screen.line = buf

(* The terminal's caret is never behind the shell's cursor (it is ahead    *)
(* after text was inserted in the middle, which reprints the line), so     *)
(* that a character the shell appends is appended on the screen too.       *)
CaretNotBehind == Settled /\ torn = 0 => screen.col \in cursor .. Len(buf)

(* What term/src/main.rs:36 says, "Output of the shell again is parsed as  *)
(* ANSI sequence": no byte of an escape sequence shows as text.  The code  *)
(* breaks this when a packet ends inside a sequence: see the README.       *)
NoEscapeShown ==
  Range(screen.line) \cap (Arrows \cup {"["})
    \subseteq Letters \cup Range(Prompt) \cup Range(Banner)
=============================================================================
