---------------------------- MODULE MCWorkingDir ----------------------------
(* WorkingDir for TLC: lines of one and two stages over two names, with cd *)
(* up, down, across and nowhere, dotted and plain programs, redirections   *)
(* and assignments.                                                        *)
EXTENDS WorkingDir, TLC

Cd(arg, file, assigned) == [vars |-> assigned, bin |-> CD, arg |-> arg, file |-> file]
Run(bin, file, assigned) == [vars |-> assigned, bin |-> bin, arg |-> NoPath, file |-> file]

Assigned == {Unset, [v \in {"CWD"} |-> Abs(<<"b">>)], [v \in {"CWDX"} |-> Abs(<<"b">>)]}
F == Rel(<<"..", "b">>)

MCCommands ==
  { << Cd(arg, NoPath, v) >> :
      arg \in {NoPath, Rel(<<"a">>), Rel(<<"b">>), Rel(<<"..">>), Abs(<<"b">>)}, v \in Assigned }
  \cup { << Cd(Rel(<<"a">>), f, Unset), Cd(Rel(<<"..", "b">>), f, Unset) >> : f \in {NoPath, F} }
  \cup { << Cd(Rel(<<"..">>), NoPath, Unset), Run(Rel(bin), F, v) >> :
           v \in Assigned, bin \in { <<".", "a">>, <<".b">>, <<"..", "a">>, <<"a">> } }
  \cup { << Run(Rel(<<"..">>), F, v) >> : v \in Assigned }

MCSearchPath == << Rel(<<".">>), Abs(<<"b">>) >>

FdSymmetry == Permutations(Fds)
=============================================================================
