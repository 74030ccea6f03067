--------------------------- MODULE MCGroupCommit ---------------------------
(* GroupCommit for TLC: the jobs are interchangeable. *)
EXTENDS GroupCommit, TLC

CallerSymmetry == Permutations(Job)
=============================================================================
