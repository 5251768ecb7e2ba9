-------------------------- MODULE ProjectionUpgrade --------------------------
(***************************************************************************)
(* What the upgrade of a database to a new projection promises, whatever   *)
(* jobs, daemons and retries it takes: rows of the old projection go, one  *)
(* at a time, and none comes; the signature changes once, to that of the   *)
(* new version, on a new database or when the last of those rows is gone.  *)
(***************************************************************************)
VARIABLES
    signature,   \* the stored signature: none, old or current
    old          \* rows of the old projection

vars == <<signature, old>>

Init == signature \in {"none", "old"} /\ (signature = "none" => old = {})

FirstBoot == signature = "none" /\ signature' = "current" /\ UNCHANGED old

(* Re-projected, rewritten or deleted.                                      *)
Replace(o) == o \in old /\ old' = old \ {o} /\ UNCHANGED signature

Finish == signature = "old" /\ old = {} /\ signature' = "current" /\ UNCHANGED old

Next == FirstBoot \/ Finish \/ \E o \in old : Replace(o)

Spec == Init /\ [][Next]_vars

==============================================================================
