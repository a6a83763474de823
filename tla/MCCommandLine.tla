--------------------------- MODULE MCCommandLine ---------------------------
(* CommandLine for TLC: every short line over the characters the tokenizer *)
(* tells apart, longer ones over those that operators are made of, the     *)
(* forms parse.rs documents, and jobs of one, two and three stages.        *)
EXTENDS CommandLine

Texts4 == SeqOf({"a", "=", "1", "&", ",", "|", ">", "<", " "}, 4)
Odd2 == SeqOf({"a", "|", " ", "wide"}, 2)
Operators6 == SeqOf({"&", "|", "1", ","}, 6)
Phrases ==
  { FlattenSeq(p) : p \in
      SeqOf({ << "a", " " >>, << "a", "=", "a", " " >>, << "|", " " >>, << ">", " " >> }, 6) }

MCLines ==
  Texts4 \cup Odd2 \cup Operators6 \cup Phrases
    \cup { << "a", " " >> \o form \o << " ", "a" >> : form \in FormsOfComment }
    \cup { << "1", "3", "|", "a" >>, << "a", "|", "1", "3" >>, << "1", ">", ">", "a", "<", "a" >> }

A == << "a" >>
B == << "b" >>
X == << "b", "=", "1" >>
Named(forms) == { << [form |-> f, file |-> B] >> : f \in forms }

Start ==
  [ env : {<<>>, << X >>}, bin : {A}, args : {<<>>, << X >>, << B, A >>},
    redirs : {<<>>} \cup Named(RedirForms), pipes : { << p >> : p \in PipeForms } ]
Middle ==
  [ env : {<<>>}, bin : {B}, args : {<<>>}, redirs : { f \in Named(RedirForms) : f[1].form[3] # "read" },
    pipes : { << p, q >> : p, q \in PipeForms } ]
Final ==
  [ env : {<<>>, << X, X >>}, bin : {B}, args : {<<>>, << A >>},
    redirs : {<<>>} \cup { f \o g : f, g \in Named(RedirForms) }, pipes : { <<>> } ]
Simple == { s \in Final : s.env = <<>> /\ s.args = <<>> /\ Len(s.redirs) = 0 }

MCJobs ==
  { << l >> : l \in Final } \cup { << f, l >> : f \in Start, l \in Simple }
    \cup { << f, l >> : f \in {g \in Start : g.args = <<>> /\ g.env = <<>> /\ g.redirs = <<>>}, l \in Final }
    \cup { << f, m, l >> : f \in {g \in Start : g.args = <<>> /\ g.env = <<>> /\ g.redirs = <<>>}, m \in Middle, l \in Simple }
=============================================================================
