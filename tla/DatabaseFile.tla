---------------------------- MODULE DatabaseFile ----------------------------
(***************************************************************************)
(* What direct opens promise of an SQLite database, whatever lock, marker  *)
(* and sidecar files they take: one process at a time has it to write; it  *)
(* is replaced by that process only; whoever serves it as protected finds  *)
(* that on record; and the record is lowered only while nobody has the     *)
(* database.                                                               *)
(***************************************************************************)
EXTENDS Naturals

CONSTANT Procs

VARIABLES
    users,      \* the processes that write the database, or replace it
    served,     \* the class it is served with, private when it is not served
    recorded,   \* the class on record
    version     \* which database it is

vars == <<users, served, recorded, version>>

Init == users = {} /\ served = "private" /\ recorded = "private" /\ version = 0

Enter(p) ==
    /\ users = {} /\ users' = {p}
    /\ served' = "private" \/ (served' = "protected" /\ recorded = "protected")
    /\ UNCHANGED <<recorded, version>>

Leave(p) ==
    /\ users = {p} /\ users' = {}
    /\ served' = "private"
    /\ UNCHANGED <<recorded, version>>

Replace(p) ==
    /\ users = {p}
    /\ version' = version + 1
    /\ UNCHANGED <<users, served, recorded>>

Protect == recorded' = "protected" /\ UNCHANGED <<users, served, version>>

Lower == users = {} /\ recorded' = "private" /\ UNCHANGED <<users, served, version>>

Next == Protect \/ Lower \/ \E p \in Procs : Enter(p) \/ Leave(p) \/ Replace(p)

Spec == Init /\ [][Next]_vars

=============================================================================
