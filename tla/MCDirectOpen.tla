---------------------------- MODULE MCDirectOpen ----------------------------
(* Instances of DirectOpen for TLC.                                         *)
EXTENDS DirectOpen
=============================================================================
