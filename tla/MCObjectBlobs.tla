--------------------------- MODULE MCObjectBlobs ---------------------------
(* Instances of ObjectBlobs for TLC.  Objects, keys and processes are       *)
(* interchangeable where no liveness property is checked.                  *)
EXTENDS ObjectBlobs, TLC

Interchangeable == Permutations(Objects) \cup Permutations(BlobKeys) \cup Permutations(Procs)
=============================================================================
