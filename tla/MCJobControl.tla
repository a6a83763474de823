---------------------------- MODULE MCJobControl ----------------------------
(* JobControl for TLC.  Process ids are interchangeable: nothing compares  *)
(* them but for equality, so the safety run takes them up to symmetry.     *)
EXTENDS JobControl, TLC

PidSymmetry == Permutations(Pids)
=============================================================================
