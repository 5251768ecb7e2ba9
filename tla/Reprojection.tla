---------------------------- MODULE Reprojection ----------------------------
(***************************************************************************)
(* The upgrade of a database whose rows carry an older projection          *)
(* (internal/jobs/reproject.go): a starting daemon verifies the FTS        *)
(* signature and schedules a re-projection job, whose run re-projects the  *)
(* stale rows one transaction each and then stamps the signature.  Runs of *)
(* one daemon, embedding migrations (internal/embeddings/migrate) among    *)
(* them, share its upgrade.Manager, which admits one at a time.            *)
(*                                                                         *)
(* Jobs are requeued when the daemon that runs them is gone, as WorkerPool *)
(* has it in detail; that a lease can lapse under a live run is the same   *)
(* here as two jobs.  A row is its projection stamp, a content is left     *)
(* out.  All daemons are of the new version.                               *)
(***************************************************************************)
EXTENDS Integers, FiniteSets

CONSTANTS
    Objects,        \* object ids, numbers for their order
    Daemons,        \* dpkms processes
    Reprojections,  \* ids of re-projection jobs
    Migrations,     \* ids of embedding migration jobs
    Sites,          \* the deployments an instance may have
    None,           \* no daemon
    Batch,          \* rows per page (200, 100 for a migration)
    MaxRetries      \* retries of a job (3)

ASSUME ObjectsAssumption == Objects \subseteq Nat \ {0}
ASSUME JobsAssumption == Reprojections \cap Migrations = {} /\ None \notin Daemons
ASSUME SitesAssumption ==
    Sites \subseteq [daemons : SUBSET Daemons, migrations : Nat, faults : Nat]
ASSUME LimitsAssumption == Batch \in Nat \ {0} /\ MaxRetries \in Nat

Jobs == Reprojections \cup Migrations

VARIABLES
    site,      \* the daemons (one on SQLite); bounds: migrations asked for, faults
    sig,       \* the stored FTS signature: none, old, or that of this version
    row,       \* row[o]: the projection of o's row, none when there is no row
    ref,       \* rows whose text_content is a blob ref
    vec,       \* rows embedded under the migration's model
    repaired,  \* history: rows stale only because their text was repaired
    daemon,    \* daemon[d]: how far its startup is
    mgr,       \* mgr[d]: the state of its upgrade.Manager
    status, retries,    \* the job rows
    at,        \* at[j]: the daemon that runs j
    pc,        \* pc[j]: the call j's run makes next, off when there is no run
    cursor,    \* cursor[j]: the last object handled
    page,      \* page[j]: objects listed and not handled yet
    failed,    \* failed[j]: some object failed
    migrations, faults

rowVars == <<row, ref, vec, repaired>>
jobVars == <<status, retries>>
runVars == <<at, pc, cursor, page, failed>>
bounds == <<migrations, faults>>
vars == <<site, sig, rowVars, daemon, mgr, jobVars, runVars, bounds>>

Stale == {o \in Objects : row[o] = "stale"}
Rows == {o \in Objects : row[o] # "none"}

(* Rows that still carry an older projection, not the current ones that     *)
(* only wait to be indexed again with their repaired text.                  *)
Old == Stale \ repaired

TypeOK ==
    /\ site \in Sites
    /\ sig \in {"none", "old", "current"}
    /\ row \in [Objects -> {"none", "stale", "current"}]
    /\ ref \subseteq Objects /\ vec \subseteq Objects /\ repaired \subseteq Objects
    /\ daemon \in [Daemons -> {"down", "listrunning", "listpending", "enqueue", "serving"}]
    /\ mgr \in [Daemons -> {"idle", "in_progress", "failed"}]
    /\ status \in [Jobs -> {"none", "pending", "running", "completed", "failed", "cancelled"}]
    /\ retries \in [Jobs -> Nat]
    /\ at \in [Jobs -> Daemons \cup {None}]
    /\ pc \in [Jobs -> {"off", "repair", "begin", "list", "each", "tick", "count", "stamp",
                        "complete", "target", "start", "missing", "embed"}]
    /\ cursor \in [Jobs -> Nat] /\ page \in [Jobs -> SUBSET Objects]
    /\ failed \in [Jobs -> BOOLEAN]
    /\ migrations \in Nat /\ faults \in Nat

(* A new database, or one of an older version that has its signature: one   *)
(* from before the signature table (migration 029) is left out.             *)
Init ==
    /\ site \in Sites
    /\ sig \in {"none", "old"}
    /\ row \in [Objects -> {"none", "stale"}]
    /\ sig = "none" => Stale = {}
    /\ ref \in SUBSET Stale /\ vec = {} /\ repaired = {}
    /\ daemon = [d \in Daemons |-> "down"] /\ mgr = [d \in Daemons |-> "idle"]
    /\ status = [j \in Jobs |-> "none"] /\ retries = [j \in Jobs |-> 0]
    /\ at = [j \in Jobs |-> None] /\ pc = [j \in Jobs |-> "off"]
    /\ cursor = [j \in Jobs |-> 0] /\ page = [j \in Jobs |-> {}]
    /\ failed = [j \in Jobs |-> FALSE]
    /\ migrations = 0 /\ faults = 0

Fault == faults < site.faults /\ faults' = faults + 1

----------------------------------------------------------------------------
(* Objects are written and deleted while daemons serve; every write stamps  *)
(* the row with the current projection, and may embed it under the model of *)
(* a migration, registered just before the first one is asked for.          *)

Write(o) ==
    /\ \E d \in Daemons : daemon[d] = "serving"
    /\ row' = [row EXCEPT ![o] = "current"]
    /\ ref' \in {ref, ref \ {o}}
    /\ vec' = vec \/ (migrations > 0 /\ vec' = vec \cup {o})
    /\ repaired' = repaired \ {o}
    /\ UNCHANGED <<site, sig, daemon, mgr, jobVars, runVars, bounds>>

Delete(o) ==
    /\ \E d \in Daemons : daemon[d] = "serving"
    /\ row[o] # "none"
    /\ row' = [row EXCEPT ![o] = "none"]
    /\ ref' = ref \ {o} /\ vec' = vec \ {o} /\ repaired' = repaired \ {o}
    /\ UNCHANGED <<site, sig, daemon, mgr, jobVars, runVars, bounds>>

----------------------------------------------------------------------------
(* A daemon starts: VerifyFTS, crash recovery, ScheduleReprojection.        *)

To(d, stage) == daemon' = [daemon EXCEPT ![d] = stage]

(* Mutation: the verification records the signature of its own version.     *)
StartStamps(d) ==
    /\ d \in site.daemons /\ daemon[d] = "down"
    /\ sig' = "current"
    /\ To(d, IF sig = "old" THEN "listrunning" ELSE "serving")
    /\ UNCHANGED <<site, rowVars, mgr, jobVars, runVars, bounds>>

Start(d) ==
    /\ d \in site.daemons /\ daemon[d] = "down"
    /\ sig' = IF sig = "none" THEN "current" ELSE sig
    /\ To(d, IF sig = "old" THEN "listrunning" ELSE "serving")
    /\ UNCHANGED <<site, rowVars, mgr, jobVars, runVars, bounds>>

(* Mutation: a job of any status counts as scheduled.                       *)
ListRunningAll(d) ==
    /\ daemon[d] = "listrunning"
    /\ To(d, IF \E j \in Reprojections : status[j] # "none" THEN "serving" ELSE "listpending")
    /\ UNCHANGED <<site, sig, rowVars, mgr, jobVars, runVars, bounds>>

ListRunning(d) ==
    /\ daemon[d] = "listrunning"
    /\ To(d, IF \E j \in Reprojections : status[j] = "running" THEN "serving" ELSE "listpending")
    /\ UNCHANGED <<site, sig, rowVars, mgr, jobVars, runVars, bounds>>

ListPending(d) ==
    /\ daemon[d] = "listpending"
    /\ To(d, IF \E j \in Reprojections : status[j] = "pending" THEN "serving" ELSE "enqueue")
    /\ UNCHANGED <<site, sig, rowVars, mgr, jobVars, runVars, bounds>>

(* A job that is over, and its id with it, is forgotten.                    *)
Enqueued(j) ==
    /\ status[j] \notin {"pending", "running"} /\ pc[j] = "off"
    /\ status' = [status EXCEPT ![j] = "pending"]
    /\ retries' = [retries EXCEPT ![j] = 0]

Enqueue(d) ==
    /\ daemon[d] = "enqueue"
    /\ \E j \in Reprojections : Enqueued(j)
    /\ To(d, "serving")
    /\ UNCHANGED <<site, sig, rowVars, mgr, runVars, bounds>>

(* The verification or the scheduling fails: a warning, and serve goes on.  *)
StartFails(d) ==
    /\ Fault
    /\ d \in site.daemons
    /\ daemon[d] \in {"down", "listrunning", "listpending", "enqueue"}
    /\ To(d, "serving")
    /\ UNCHANGED <<site, sig, rowVars, mgr, jobVars, runVars, migrations>>

(* The runs that StartTarget admitted and that have not ended.              *)
Holding(j) ==
    pc[j] \in {"list", "each", "tick", "count", "stamp", "complete", "missing", "embed"}

(* A failed write of the shadow file has left a status in progress that no  *)
(* run holds.                                                               *)
StatusIsLeaked(d) == mgr[d] = "in_progress" /\ ~ \E j \in Jobs : Holding(j) /\ at[j] = d

RunsAt(d) == {j \in Jobs : pc[j] # "off" /\ at[j] = d}

(* The daemon's memory is gone: its runs, and its manager's state.          *)
Gone(d) ==
    /\ daemon[d] # "down"
    /\ To(d, "down")
    /\ mgr' = [mgr EXCEPT ![d] = "idle"]
    /\ pc' = [j \in Jobs |-> IF j \in RunsAt(d) THEN "off" ELSE pc[j]]
    /\ UNCHANGED <<site, sig, rowVars, jobVars, at, cursor, page, failed, migrations>>

Crash(d) == Fault /\ Gone(d)

(* An operator restarts a daemon that has nothing to do, or one that shows  *)
(* an upgrade in progress that no run is at (runs that wait for its end are *)
(* interrupted, and their jobs left to recovery).                           *)
Quiet == \A j \in Jobs : pc[j] = "off" /\ status[j] \notin {"pending", "running"}
Stop(d) ==
    /\ daemon[d] = "serving"
    /\ Quiet \/ StatusIsLeaked(d)
    /\ Gone(d)
    /\ UNCHANGED faults

----------------------------------------------------------------------------
(* Jobs.                                                                   *)

(* ctxt embeddings migrate, which opens the store itself: while the daemon   *)
(* is down on SQLite, at any time on Postgres.                              *)
EnqueueMigration(j) ==
    /\ migrations < site.migrations
    /\ Rows \ vec # {}
    /\ \A i \in Migrations : status[i] \notin {"pending", "running"}
    /\ migrations' = migrations + 1
    /\ j \in Migrations /\ Enqueued(j)
    /\ UNCHANGED <<site, sig, rowVars, daemon, mgr, runVars, faults>>

Acquire(d, j) ==
    /\ daemon[d] = "serving"
    /\ status[j] = "pending" /\ pc[j] = "off"
    /\ status' = [status EXCEPT ![j] = "running"]
    /\ at' = [at EXCEPT ![j] = d]
    /\ pc' = [pc EXCEPT ![j] = IF j \in Reprojections THEN "repair" ELSE "target"]
    /\ cursor' = [cursor EXCEPT ![j] = 0] /\ page' = [page EXCEPT ![j] = {}]
    /\ failed' = [failed EXCEPT ![j] = FALSE]
    /\ UNCHANGED <<site, sig, rowVars, daemon, mgr, retries, bounds>>

(* RecoverStale: a running job whose run is gone is requeued.               *)
Recover(j) ==
    /\ \E d \in Daemons : daemon[d] # "down"
    /\ status[j] = "running" /\ pc[j] = "off"
    /\ status' = [status EXCEPT ![j] = "pending"]
    /\ UNCHANGED <<site, sig, rowVars, daemon, mgr, retries, runVars, bounds>>

Cancel(j) ==
    /\ status[j] \in {"pending", "running"} /\ Fault
    /\ status' = [status EXCEPT ![j] = "cancelled"]
    /\ UNCHANGED <<site, sig, rowVars, daemon, mgr, retries, runVars, migrations>>

Goes(j, step) ==
    /\ pc' = [pc EXCEPT ![j] = step]
    /\ UNCHANGED jobVars

(* The handler returns: a result, an error, or an error that a retry cannot *)
(* mend.                                                                    *)
ReturnOk(j) ==
    /\ pc' = [pc EXCEPT ![j] = "off"]
    /\ status' = [status EXCEPT ![j] = "completed"]
    /\ UNCHANGED retries

ReturnPermanent(j) ==
    /\ pc' = [pc EXCEPT ![j] = "off"]
    /\ status' = [status EXCEPT ![j] = "failed"]
    /\ UNCHANGED retries

ReturnErr(j) ==
    /\ pc' = [pc EXCEPT ![j] = "off"]
    /\ IF retries[j] < MaxRetries
       THEN /\ status' = [status EXCEPT ![j] = "pending"]
            /\ retries' = [retries EXCEPT ![j] = @ + 1]
       ELSE /\ status' = [status EXCEPT ![j] = "failed"]
            /\ UNCHANGED retries

----------------------------------------------------------------------------
(* upgrade.Manager: StartTarget, Complete and Fail.                         *)

(* Mutation: a run may start beside another.                                *)
IsFreeAlways(d) == TRUE

IsFree(d) == mgr[d] # "in_progress"

StartTarget(j) == IsFree(at[j]) /\ mgr' = [mgr EXCEPT ![at[j]] = "in_progress"]
CompleteRun(j) == mgr' = [mgr EXCEPT ![at[j]] = "idle"]
FailRun(j) == mgr' = [mgr EXCEPT ![at[j]] = "failed"]

(* The first objects of S after the cursor, at most Batch of them.          *)
After(j, S) == {o \in S : o > cursor[j]}
IsPage(P, S) ==
    /\ P \subseteq S
    /\ \A o \in P, q \in S \ P : o < q
    /\ Cardinality(P) <= Batch
    /\ Cardinality(P) < Batch => P = S
IsNext(o, S) == o \in S /\ \A q \in S : o <= q

Handled(j, o) ==
    /\ cursor' = [cursor EXCEPT ![j] = o]
    /\ page' = [page EXCEPT ![j] = @ \ {o}]

----------------------------------------------------------------------------
(* reprojectRun.                                                           *)

(* repairRefText: each row whose text is a ref gets its text and is marked  *)
(* stale, when its blob can be read and the text still is the ref.  What is *)
(* indexed of it stays as it is until the row is re-projected.              *)
RepairRefText(j, o) ==
    /\ pc[j] = "repair" /\ IsNext(o, After(j, ref))
    /\ \/ /\ row' = [row EXCEPT ![o] = "stale"]
          /\ ref' = ref \ {o}
          /\ repaired' = IF row[o] = "stale" THEN repaired ELSE repaired \cup {o}
          /\ UNCHANGED faults
       \/ Fault /\ UNCHANGED <<row, ref, repaired>>
    /\ Handled(j, o)
    /\ UNCHANGED <<site, sig, vec, daemon, mgr, jobVars, at, pc, failed, migrations>>

Repaired(j) ==
    /\ pc[j] = "repair" /\ After(j, ref) = {}
    /\ cursor' = [cursor EXCEPT ![j] = 0]
    /\ Goes(j, "begin")
    /\ UNCHANGED <<site, sig, rowVars, daemon, mgr, at, page, failed, bounds>>

(* While another run has the status, begin polls.  A failed write of the    *)
(* shadow file is an error, after the state has changed.                    *)
Begin(j) ==
    /\ pc[j] = "begin" /\ StartTarget(j)
    /\ \/ Goes(j, "list") /\ UNCHANGED faults
       \/ Fault /\ ReturnErr(j)
    /\ UNCHANGED <<site, sig, rowVars, daemon, at, cursor, page, failed, migrations>>

ListStale(j) ==
    /\ pc[j] = "list"
    /\ \E P \in SUBSET Objects :
        /\ IsPage(P, After(j, Stale))
        /\ page' = [page EXCEPT ![j] = P]
        /\ Goes(j, IF P = {} THEN "count" ELSE "each")
    /\ UNCHANGED <<site, sig, rowVars, daemon, mgr, at, cursor, failed, bounds>>

(* One transaction; a row that was deleted or written since is skipped.     *)
Reproject(j, o) ==
    /\ pc[j] = "each" /\ IsNext(o, page[j])
    /\ \/ /\ row' = [row EXCEPT ![o] = IF @ = "stale" THEN "current" ELSE @]
          /\ repaired' = repaired \ {o}
          /\ UNCHANGED <<failed, faults>>
       \/ /\ Fault
          /\ failed' = [failed EXCEPT ![j] = TRUE]
          /\ UNCHANGED <<row, repaired>>
    /\ Handled(j, o)
    /\ Goes(j, IF page[j] = {o} THEN "tick" ELSE "each")
    /\ UNCHANGED <<site, sig, ref, vec, daemon, mgr, at, migrations>>

(* A tick whose shadow write fails ends the run and leaves the status.      *)
Tick(j) ==
    /\ pc[j] = "tick"
    /\ \/ Goes(j, "list") /\ UNCHANGED faults
       \/ Fault /\ ReturnErr(j)
    /\ UNCHANGED <<site, sig, rowVars, daemon, mgr, at, cursor, page, failed, migrations>>

(* finish counts what is stale.                                             *)

(* Mutation: the end of the run is enough.                                  *)
IsCurrentAlways(j) == TRUE

IsCurrent(j) == Stale = {} /\ ~failed[j]

Count(j) ==
    /\ pc[j] = "count"
    /\ \/ IsCurrent(j) /\ Goes(j, "stamp") /\ UNCHANGED mgr
       \/ ~IsCurrent(j) /\ FailRun(j) /\ ReturnOk(j)
    /\ UNCHANGED <<site, sig, rowVars, daemon, at, cursor, page, failed, bounds>>

Stamp(j) ==
    /\ pc[j] = "stamp"
    /\ sig' = "current"
    /\ Goes(j, "complete")
    /\ UNCHANGED <<site, rowVars, daemon, mgr, at, cursor, page, failed, bounds>>

Complete(j) ==
    /\ pc[j] = "complete" /\ CompleteRun(j)
    /\ \/ ReturnOk(j) /\ UNCHANGED faults
       \/ Fault /\ ReturnErr(j)
    /\ UNCHANGED <<site, sig, rowVars, daemon, at, cursor, page, failed, migrations>>

----------------------------------------------------------------------------
(* migrate.Runner.                                                         *)

(* One migration at a time in a daemon; its model is looked up.             *)
Target(j) ==
    /\ pc[j] = "target"
    /\ \A i \in Migrations \ {j} : at[i] = at[j] => pc[i] \in {"off", "target"}
    /\ \/ Goes(j, "start") /\ UNCHANGED faults
       \/ Fault /\ (ReturnErr(j) \/ ReturnPermanent(j))
    /\ UNCHANGED <<site, sig, rowVars, daemon, mgr, at, cursor, page, failed, migrations>>

StartMigration(j) ==
    /\ pc[j] = "start"
    /\ \/ StartTarget(j) /\ Goes(j, "missing") /\ UNCHANGED faults
       \/ StartTarget(j) /\ Fault /\ ReturnErr(j)
       \/ ~IsFree(at[j]) /\ ReturnErr(j) /\ UNCHANGED <<mgr, faults>>
    /\ UNCHANGED <<site, sig, rowVars, daemon, at, cursor, page, failed, migrations>>

ListMissing(j) ==
    /\ pc[j] = "missing"
    /\ \E P \in SUBSET Objects :
        /\ P # {} /\ IsPage(P, After(j, Rows \ vec))
        /\ page' = [page EXCEPT ![j] = P]
    /\ Goes(j, "embed")
    /\ UNCHANGED <<site, sig, rowVars, daemon, mgr, at, cursor, failed, bounds>>

(* An object that is gone, or has no text, is skipped.  Then TickFailed.    *)
EmbedOne(j, o) ==
    /\ pc[j] = "embed" /\ IsNext(o, page[j])
    /\ \/ vec' \in {vec, vec \cup ({o} \cap Rows)} /\ UNCHANGED <<failed, faults>>
       \/ Fault /\ failed' = [failed EXCEPT ![j] = TRUE] /\ UNCHANGED vec
    /\ Handled(j, o)
    /\ Goes(j, IF page[j] = {o} THEN "missing" ELSE "embed")
    /\ UNCHANGED <<site, sig, row, ref, repaired, daemon, mgr, at, migrations>>

EmbedTickFails(j) ==
    /\ pc[j] = "embed" /\ Fault
    /\ ReturnErr(j)
    /\ UNCHANGED <<site, sig, rowVars, daemon, mgr, at, cursor, page, failed, migrations>>

EndMigration(j) ==
    /\ pc[j] = "missing" /\ After(j, Rows \ vec) = {}
    /\ \/ failed[j] /\ FailRun(j) /\ ReturnOk(j) /\ UNCHANGED faults
       \/ ~failed[j] /\ CompleteRun(j) /\ ReturnOk(j) /\ UNCHANGED faults
       \/ ~failed[j] /\ CompleteRun(j) /\ Fault /\ ReturnErr(j)
    /\ UNCHANGED <<site, sig, rowVars, daemon, at, cursor, page, failed, migrations>>

----------------------------------------------------------------------------
(* Runs that stop early: before StartTarget the status is left alone, after *)
(* it stop sets it to failed.                                               *)

StopStatus(j) == IF Holding(j) THEN FailRun(j) ELSE UNCHANGED mgr

StoreFails(j) ==
    /\ pc[j] \in {"repair", "begin", "list", "count", "stamp", "missing"} /\ Fault
    /\ StopStatus(j) /\ ReturnErr(j)
    /\ UNCHANGED <<site, sig, rowVars, daemon, at, cursor, page, failed, migrations>>

(* The run's context ends because its job was cancelled.                    *)
Interrupt(j) ==
    /\ status[j] = "cancelled"
    /\ pc[j] \notin {"off", "tick", "complete"}
    /\ StopStatus(j)
    /\ Goes(j, "off")
    /\ UNCHANGED <<site, sig, rowVars, daemon, at, cursor, page, failed, bounds>>

----------------------------------------------------------------------------

Startup(d) == Start(d) \/ ListRunning(d) \/ ListPending(d) \/ Enqueue(d)
Run(j) ==
    \/ \E o \in Objects : RepairRefText(j, o) \/ Reproject(j, o) \/ EmbedOne(j, o)
    \/ Repaired(j) \/ Begin(j) \/ ListStale(j) \/ Tick(j) \/ Count(j) \/ Stamp(j)
    \/ Complete(j) \/ Target(j) \/ StartMigration(j) \/ ListMissing(j) \/ EndMigration(j)

Next ==
    \/ \E o \in Objects : Write(o) \/ Delete(o)
    \/ \E d \in Daemons : Startup(d) \/ StartFails(d) \/ Crash(d) \/ Stop(d)
    \/ \E d \in Daemons, j \in Jobs : Acquire(d, j)
    \/ \E j \in Jobs :
        \/ Run(j) \/ EnqueueMigration(j) \/ Recover(j) \/ Cancel(j)
        \/ EmbedTickFails(j) \/ StoreFails(j) \/ Interrupt(j)

(* Goroutines that can run do; a daemon that is down is started; one that   *)
(* has nothing left to do is restarted some day.                            *)
Fairness ==
    /\ \A d \in Daemons : WF_vars(Startup(d)) /\ WF_vars(Stop(d))
    /\ \A j \in Jobs :
        /\ WF_vars(Run(j)) /\ WF_vars(Recover(j)) /\ WF_vars(Interrupt(j))
        /\ WF_vars(\E d \in Daemons : Acquire(d, j))

Spec == Init /\ [][Next]_vars /\ Fairness

----------------------------------------------------------------------------

(* The signature vouches for the rows: once it is this version's, no row of *)
(* an older projection is left, whatever ran, failed or died on the way;    *)
(* only a row whose text a later run repaired can be stale (VerifyFTS,      *)
(* reprojectRun.finish).                                                    *)
SignatureCovers == sig = "current" => Old = {}

(* The upgrade status belongs to one run: a run between its StartTarget and *)
(* its end finds the status in progress, and nobody else in between         *)
(* (upgrade.Manager, with waiting, failing and cancelled runs about).       *)
StatusIsOwn ==
    \A j \in Jobs : Holding(j) =>
        /\ mgr[at[j]] = "in_progress"
        /\ \A i \in Jobs : Holding(i) /\ at[i] = at[j] => i = j

(* "The next dpkms start retries them": as long as daemons are restarted,   *)
(* every row of an older projection is re-projected, rewritten or deleted   *)
(* in the end, across failed rows, failed calls, crashes, cancelled jobs    *)
(* and statuses that a failed shadow write leaves in progress (reprojectRun,*)
(* upgrade.Manager: the status is memory and does not outlive its daemon).  *)
NextStartRetries == <>(Old = {})

----------------------------------------------------------------------------
(* What the upgrade promises.                                              *)

Upgrade == INSTANCE ProjectionUpgrade WITH signature <- sig, old <- Old

(* Daemons, jobs and writers implement ProjectionUpgrade: whatever is cut   *)
(* short, repeated or run twice, no step brings a row of the old projection *)
(* back, and the signature moves once, when none is left (VerifyFTS,        *)
(* reprojectRun.finish, repairRefText).                                     *)
ImplementsUpgrade == Upgrade!Spec

----------------------------------------------------------------------------
(* The inductive invariant.                                                *)

RunHasDaemon == \A j \in Jobs : pc[j] # "off" => at[j] \in Daemons

(* finish saw no old row, and none comes back before it stamps; nor does    *)
(* one come to a database that had none at its first boot.                  *)
NoneOld ==
    /\ \A j \in Jobs : pc[j] = "stamp" => Old = {}
    /\ sig # "old" => Old = {}

ReprojectionInv == RunHasDaemon /\ NoneOld /\ StatusIsOwn
=============================================================================
