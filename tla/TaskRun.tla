------------------------------ MODULE TaskRun ------------------------------
(***************************************************************************)
(* What the job queue promises about a task job, whatever tokens, leases   *)
(* and watchers it takes: one worker at a time has the task, from the      *)
(* start of its handler to the write that settles it; recovery does not    *)
(* take the task from under that worker; and the write that settles it     *)
(* overwrites that worker's own run, or a cancellation, and nothing else.  *)
(* All of it until the exclusivity of the task is broken, by a lease that  *)
(* ran out or an operator who requeued the task, and again from the next   *)
(* claim that finds nobody at work.                                        *)
(***************************************************************************)
EXTENDS Naturals

CONSTANTS Tasks, Workers, MaxRetries

VARIABLES
    state,     \* state[j]: the status an operator sees
    retries,   \* retries[j]: retries spent
    runners,   \* runners[j]: the workers that run j, or are about to settle it
    broken     \* broken[j]: j may have more than one of them

vars == <<state, retries, runners, broken>>

Init ==
    /\ state = [j \in Tasks |-> "absent"]
    /\ retries = [j \in Tasks |-> 0]
    /\ runners = [j \in Tasks |-> {}]
    /\ broken = [j \in Tasks |-> FALSE]

(* Nobody is at work on j who would have to be left alone.                  *)
Free(j) == runners[j] = {} \/ broken[j]

Submit(j) ==
    /\ state[j] = "absent"
    /\ state' = [state EXCEPT ![j] = "pending"]
    /\ UNCHANGED <<retries, runners, broken>>

Claim(j) ==
    /\ state[j] = "pending"
    /\ state' = [state EXCEPT ![j] = "running"]
    /\ broken' = [broken EXCEPT ![j] = @ /\ runners[j] # {}]
    /\ UNCHANGED <<retries, runners>>

Begin(w, j) ==
    /\ state[j] = "running" /\ Free(j)
    /\ runners' = [runners EXCEPT ![j] = @ \cup {w}]
    /\ UNCHANGED <<state, retries, broken>>

(* A worker that could not take the lease settles the task all the same.    *)
BeginBroken(w, j) ==
    /\ state[j] # "absent"
    /\ runners' = [runners EXCEPT ![j] = @ \cup {w}]
    /\ broken' = [broken EXCEPT ![j] = TRUE]
    /\ UNCHANGED <<state, retries>>

(* A settling write of w.                                                   *)
Settles(w, j) ==
    /\ w \in runners[j]
    /\ state[j] # "absent"
    /\ ~broken[j] => runners[j] = {w} /\ state[j] \in {"running", "cancelled"}
    /\ runners' = [runners EXCEPT ![j] = @ \ {w}]
    /\ UNCHANGED broken

Finish(w, j) ==
    /\ Settles(w, j)
    /\ \E s \in {"completed", "failed"} : state' = [state EXCEPT ![j] = s]
    /\ UNCHANGED retries

Requeues(j) ==
    /\ retries[j] < MaxRetries
    /\ retries' = [retries EXCEPT ![j] = @ + 1]
    /\ state' = [state EXCEPT ![j] = "pending"]

TryAgain(w, j) == Settles(w, j) /\ Requeues(j)

(* Workers stop or die, and leave the task to recovery.                     *)
Stop(W) ==
    /\ runners' = [j \in Tasks |-> runners[j] \ W]
    /\ UNCHANGED <<state, retries, broken>>

Recover(S) ==
    /\ \A j \in S : state[j] = "running" /\ Free(j)
    /\ state' = [j \in Tasks |-> IF j \in S THEN "pending" ELSE state[j]]
    /\ UNCHANGED <<retries, runners, broken>>

Lapse(S) ==
    /\ broken' = [j \in Tasks |-> broken[j] \/ j \in S]
    /\ UNCHANGED <<state, retries, runners>>

(* What operators do, in any state of a task.                               *)
Retry(j) ==
    /\ state[j] # "absent"
    /\ Requeues(j)
    /\ broken' = [broken EXCEPT ![j] = @ \/ runners[j] # {}]
    /\ UNCHANGED runners

Cancel(j) ==
    /\ state[j] \in {"pending", "running"}
    /\ state' = [state EXCEPT ![j] = "cancelled"]
    /\ UNCHANGED <<retries, runners, broken>>

Next ==
    \/ \E j \in Tasks : \/ Submit(j) \/ Claim(j) \/ Retry(j) \/ Cancel(j)
                        \/ \E w \in Workers : \/ Begin(w, j) \/ BeginBroken(w, j)
                                              \/ Finish(w, j) \/ TryAgain(w, j)
    \/ \E W \in SUBSET Workers : Stop(W)
    \/ \E S \in SUBSET Tasks : Recover(S) \/ Lapse(S)

Spec == Init /\ [][Next]_vars

=============================================================================
