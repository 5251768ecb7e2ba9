----------------------------- MODULE MCRunFile -----------------------------
(* Instances of RunFile for TLC.  One inode more than there are processes   *)
(* always leaves a fresh one.                                              *)
EXTENDS RunFile, TLC

Interchangeable == Permutations(Procs) \cup Permutations(Inodes)
=============================================================================
