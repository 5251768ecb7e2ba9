---------------------------- MODULE ExclusiveRun ----------------------------
(***************************************************************************)
(* What the run lock of `ctxt watch` promises, whatever file it is kept    *)
(* in: a process has it only when no other does, and it is never handed    *)
(* over, only left.                                                        *)
(***************************************************************************)
CONSTANT Procs

VARIABLE holders   \* the processes that believe they have the run lock

Init == holders = {}

Acquire(p) == holders = {} /\ holders' = {p}

Leave(p) == holders = {p} /\ holders' = {}

Next == \E p \in Procs : Acquire(p) \/ Leave(p)

Spec == Init /\ [][Next]_holders

=============================================================================
