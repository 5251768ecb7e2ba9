---------------------------- MODULE MCWorkerPool ----------------------------
(* WorkerPool on small instances.                                          *)
EXTENDS WorkerPool, TLC

CONSTANTS p1, p2, w1, w2

(* One worker in each of two processes.                                     *)
TwoPools == w1 :> p1 @@ w2 :> p2

(* Two workers in one process.                                              *)
OnePool == w1 :> p1 @@ w2 :> p1

(* The least token that is not in S: with interchangeable tokens, one choice *)
(* stands for all.                                                         *)
LeastString(S) == CHOOSE c \in Claims \ S : \A d \in Claims \ S : c <= d

=============================================================================
