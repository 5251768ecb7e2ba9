------------------------------ MODULE JobStore ------------------------------
(***************************************************************************)
(* The jobs table and the statements JobStore runs on it                   *)
(* (internal/storage/sqlite/jobs.go and postgres/jobs.go, the same ones).  *)
(* Every method is one SQL statement, so each is one atomic operator here. *)
(*                                                                         *)
(* Time is relative.  lease_expires_at is kept as the time the lease has   *)
(* left (0: run out) and started_at as the age of the claim, so a          *)
(* behaviour can run for ever over finitely many states.                   *)
(***************************************************************************)
EXTENDS Integers, FiniteSets

CONSTANTS
    Tasks,         \* ids of task jobs: their type names a registered handler
    Ingests,       \* ids of ingest jobs: they run a pipeline
    Claims,        \* claim tokens (uuid.NewString)
    NoClaim,       \* the empty claim_token
    MaxRetries,    \* max_retries, the same for every job
    LeaseTTL,      \* leaseTTL, in clock ticks
    StaleTimeout   \* staleTimeout, in clock ticks

Jobs == Tasks \cup Ingests

ASSUME JobsAssumption == Tasks \cap Ingests = {}
ASSUME ClaimsAssumption == NoClaim \notin Claims
ASSUME TimesAssumption == /\ MaxRetries \in Nat
                          /\ LeaseTTL \in Nat \ {0}
                          /\ StaleTimeout \in Nat \ {0}

VARIABLES
    status,    \* status[j]: the status column, "absent" before the INSERT
    retries,   \* retries[j]: retry_count
    claim,     \* claim[j]: claim_token
    lease,     \* lease[j]: time left on the lease, NoLease when NULL
    age,       \* age[j]: time since started_at, capped at StaleTimeout
    created    \* created[j]: created_at, in whole seconds (0: no row)

rowVars == <<status, retries, claim, lease, age, created>>

NoLease == -1

Statuses == {"absent", "pending", "running", "completed", "failed", "cancelled"}
Settled == {"completed", "failed", "cancelled"}

StoreTypeOK ==
    /\ status \in [Jobs -> Statuses]
    /\ retries \in [Jobs -> Nat]
    /\ claim \in [Jobs -> Claims \cup {NoClaim}]
    /\ lease \in [Jobs -> NoLease .. LeaseTTL]
    /\ age \in [Jobs -> 0 .. StaleTimeout]
    /\ created \in [Jobs -> Nat]

StoreInit ==
    /\ status = [j \in Jobs |-> "absent"]
    /\ retries = [j \in Jobs |-> 0]
    /\ claim = [j \in Jobs |-> NoClaim]
    /\ lease = [j \in Jobs |-> NoLease]
    /\ age = [j \in Jobs |-> 0]
    /\ created = [j \in Jobs |-> 0]

----------------------------------------------------------------------------

(* INSERT of a pending job stamped s.  In SQLite created_at has one-second  *)
(* resolution, so s may be the newest second already in the table or a     *)
(* later one; jobs inserted in one second tie.                             *)
Create(j, s) ==
    /\ status[j] = "absent"
    /\ s > 0
    /\ \A k \in Jobs : created[k] <= s
    /\ status' = [status EXCEPT ![j] = "pending"]
    /\ created' = [created EXCEPT ![j] = s]
    /\ UNCHANGED <<retries, claim, lease, age>>

(* Mutation: ties on created_at are never broken.                           *)
OldestStrictly ==
    {j \in Jobs : /\ status[j] = "pending"
                  /\ \A k \in Jobs \ {j} : status[k] = "pending" => created[j] < created[k]}

(* The pending jobs ORDER BY created_at ASC LIMIT 1 may return.             *)
Oldest ==
    {j \in Jobs : /\ status[j] = "pending"
                  /\ \A k \in Jobs : status[k] = "pending" => created[j] <= created[k]}

(* The oldest pending job becomes running under the new claim c, unleased.  *)
AcquireNext(j, c) ==
    /\ j \in Oldest
    /\ status' = [status EXCEPT ![j] = "running"]
    /\ claim' = [claim EXCEPT ![j] = c]
    /\ lease' = [lease EXCEPT ![j] = NoLease]
    /\ age' = [age EXCEPT ![j] = 0]
    /\ UNCHANGED <<retries, created>>

(* WHERE id = ?: neither the status nor the claim is looked at.             *)
Complete(j) ==
    /\ status' = [status EXCEPT ![j] = "completed"]
    /\ UNCHANGED <<retries, claim, lease, age, created>>

Fail(j) ==
    /\ status' = [status EXCEPT ![j] = "failed"]
    /\ UNCHANGED <<retries, claim, lease, age, created>>

(* WHERE retry_count < max_retries: whatever the status and the claim.      *)
CanRetry(j) == retries[j] < MaxRetries

(* Mutation: the UPDATE trusts the check Queue.Retry made before it.        *)
RetryUnchecked(j) ==
    /\ status' = [status EXCEPT ![j] = "pending"]
    /\ retries' = [retries EXCEPT ![j] = @ + 1]
    /\ claim' = [claim EXCEPT ![j] = NoClaim]
    /\ lease' = [lease EXCEPT ![j] = NoLease]
    /\ age' = [age EXCEPT ![j] = 0]
    /\ UNCHANGED created

Retry(j) ==
    /\ CanRetry(j)
    /\ status' = [status EXCEPT ![j] = "pending"]
    /\ retries' = [retries EXCEPT ![j] = @ + 1]
    /\ claim' = [claim EXCEPT ![j] = NoClaim]
    /\ lease' = [lease EXCEPT ![j] = NoLease]
    /\ age' = [age EXCEPT ![j] = 0]
    /\ UNCHANGED created

(* Cancel keeps the claim and the lease.                                    *)
Cancel(j) ==
    /\ status[j] \in {"pending", "running"}
    /\ status' = [status EXCEPT ![j] = "cancelled"]
    /\ UNCHANGED <<retries, claim, lease, age, created>>

(* Mutations: recovery goes by started_at alone; it skips leased jobs.      *)
IsStaleByAge(j, timeout) == status[j] = "running" /\ age[j] >= timeout
IsStaleUnleased(j, timeout) == status[j] = "running" /\ lease[j] = NoLease /\ age[j] >= timeout

(* The rows RecoverStale(timeout) selects: a leased job by its lease, an    *)
(* unleased one by the age of its claim.                                   *)
IsStale(j, timeout) ==
    /\ status[j] = "running"
    /\ IF lease[j] = NoLease THEN age[j] >= timeout ELSE lease[j] = 0

StaleJobs(timeout) == {j \in Jobs : IsStale(j, timeout)}

RecoverStale(timeout) ==
    LET stale == StaleJobs(timeout)
    IN  /\ status' = [j \in Jobs |-> IF j \in stale THEN "pending" ELSE status[j]]
        /\ claim' = [j \in Jobs |-> IF j \in stale THEN NoClaim ELSE claim[j]]
        /\ lease' = [j \in Jobs |-> IF j \in stale THEN NoLease ELSE lease[j]]
        /\ age' = [j \in Jobs |-> IF j \in stale THEN 0 ELSE age[j]]
        /\ UNCHANGED <<retries, created>>

(* Mutation: the fence is gone, any claim will do while the job runs.       *)
HoldsUnfenced(j, c) == c # NoClaim /\ status[j] = "running"

(* Whether job j is running under claim c: the fence of both lease writes.  *)
Holds(j, c) == c # NoClaim /\ claim[j] = c /\ status[j] = "running"

(* Mutation: the ttl is added to the lease instead of to the present.       *)
ExtendLeaseFurther(j, c) ==
    /\ lease' = [lease EXCEPT ![j] = IF ~Holds(j, c) THEN @
                                          ELSE IF @ > 0 THEN @ + LeaseTTL ELSE LeaseTTL]
    /\ UNCHANGED <<status, retries, claim, age, created>>

(* The UPDATE of ExtendLease; its result is Holds(j, c) before the step.    *)
ExtendLease(j, c) ==
    /\ lease' = [lease EXCEPT ![j] = IF Holds(j, c) THEN LeaseTTL ELSE @]
    /\ UNCHANGED <<status, retries, claim, age, created>>

ReleaseLease(j, c) ==
    /\ lease' = [lease EXCEPT ![j] = IF Holds(j, c) THEN NoLease ELSE @]
    /\ UNCHANGED <<status, retries, claim, age, created>>

(* One tick of the clock, for the rows whose times are still read.          *)
Elapse ==
    /\ lease' = [j \in Jobs |-> IF status[j] = "running" /\ lease[j] > 0
                                THEN lease[j] - 1 ELSE lease[j]]
    /\ age' = [j \in Jobs |-> IF status[j] = "running" /\ age[j] < StaleTimeout
                              THEN age[j] + 1 ELSE age[j]]
    /\ UNCHANGED <<status, retries, claim, created>>

=============================================================================
