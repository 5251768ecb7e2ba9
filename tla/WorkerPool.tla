----------------------------- MODULE WorkerPool -----------------------------
(***************************************************************************)
(* The worker pools of the dpkms processes that share one jobs table       *)
(* (internal/jobs/worker.go, tasks.go, queue.go): workers claim jobs, run  *)
(* ingest jobs through process and task jobs through runTask under a       *)
(* renewed lease, and settle them; recovery, operators, shutdowns, crashes *)
(* and restarts interleave with every step.  Several processes share a     *)
(* Postgres database; a SQLite file has one (internal/dblock).             *)
(*                                                                         *)
(* What a pipeline or a handler does is abstracted to the result it        *)
(* returns.  Each store call is a step of its own.                         *)
(***************************************************************************)
EXTENDS JobStore

CONSTANTS
    Pools,       \* dpkms processes sharing the database
    Workers,     \* worker goroutines of all pools
    PoolOf,      \* PoolOf[w]: the pool worker w belongs to
    NoJob,       \* the job of a worker that has none
    NoWorker,    \* an absent entry of inflight
    NewString(_),\* uuid.NewString: a token that is not in the given set
    DrainSet,    \* jobs.drain_timeout is set; the default, 365 days, is longer
                 \* than a process lives
    MaxFaults    \* bound on crashes, shutdowns, store errors and stalls

ASSUME WorkersAssumption == /\ PoolOf \in [Workers -> Pools]
                            /\ NoWorker \notin Workers
                            /\ NoJob \notin Jobs
ASSUME NewStringAssumption ==
    \A S \in SUBSET Claims : S # Claims => NewString(S) \in Claims \ S
ASSUME DrainSetAssumption == DrainSet \in BOOLEAN
ASSUME MaxFaultsAssumption == MaxFaults \in Nat

VARIABLES
    pool,       \* pool[p]: "down", "up", or "stopping" (acquireCtx is done)
    pc,         \* pc[w]: where worker w is in workerLoop, runTask or process
    job,        \* job[w]: the job w has acquired
    own,        \* own[w]: job.Claim, the claim w acquired its job under
    tok,        \* tok[w]: the token in w's taskClaim, which another worker of
                \* the pool may replace
    watch,      \* watch[w]: where the watchTask goroutine of w's task is
    wtok,       \* wtok[w]: the token the watcher read for this renewal
    cause,      \* cause[w]: context.Cause of the handler's context
    inflight,   \* inflight[p][j]: the worker whose taskClaim is stored
    drained,    \* the pools whose drainCtx is past its deadline
    asked,      \* jobs an operator's Queue.Retry has checked, not yet updated
    faults,     \* faults spent
    lapsed      \* history: lapsed[j], a lease on j was lost or bypassed while
                \* a worker was still running or settling j

workerVars == <<pc, job, own, tok, watch, wtok, cause>>
poolVars == <<pool, inflight, drained>>
vars == <<rowVars, workerVars, poolVars, asked, faults, lapsed>>

(* A worker in one of these runs a handler, or settles the job with a write *)
(* that no claim fences (Complete, Fail, Retry).                           *)
SettlePCs == {"completing", "failing", "retryget", "retrying"}
EngagedPCs == {"running"} \cup SettlePCs

(* Between inflight.LoadOrStore and the deferred inflight.Delete.           *)
TrackedPCs == {"leasing", "running", "releasing", "leaving"} \cup SettlePCs
PCs == {"idle", "processing", "claimed", "takeover"} \cup TrackedPCs

Engaged(j) == \E w \in Workers : job[w] = j /\ pc[w] \in EngagedPCs

WorkerTypeOK ==
    /\ pc \in [Workers -> PCs]
    /\ job \in [Workers -> Jobs \cup {NoJob}]
    /\ own \in [Workers -> Claims \cup {NoClaim}]
    /\ tok \in [Workers -> Claims \cup {NoClaim}]
    /\ watch \in [Workers -> {"off", "wait", "renew", "doubt", "check"}]
    /\ wtok \in [Workers -> Claims \cup {NoClaim}]
    /\ cause \in [Workers -> {"none", "cancelled", "lost", "stopped"}]

PoolTypeOK ==
    /\ pool \in [Pools -> {"down", "up", "stopping"}]
    /\ inflight \in [Pools -> [Jobs -> Workers \cup {NoWorker}]]
    /\ drained \in SUBSET Pools

TypeOK ==
    /\ StoreTypeOK
    /\ WorkerTypeOK
    /\ PoolTypeOK
    /\ asked \in SUBSET Jobs
    /\ faults \in 0 .. MaxFaults
    /\ lapsed \in [Tasks -> BOOLEAN]

Init ==
    /\ StoreInit
    /\ pool = [p \in Pools |-> "down"]
    /\ pc = [w \in Workers |-> "idle"]
    /\ job = [w \in Workers |-> NoJob]
    /\ own = [w \in Workers |-> NoClaim]
    /\ tok = [w \in Workers |-> NoClaim]
    /\ watch = [w \in Workers |-> "off"]
    /\ wtok = [w \in Workers |-> NoClaim]
    /\ cause = [w \in Workers |-> "none"]
    /\ inflight = [p \in Pools |-> [j \in Jobs |-> NoWorker]]
    /\ drained = {}
    /\ asked = {}
    /\ faults = 0
    /\ lapsed = [j \in Tasks |-> FALSE]

Fault == faults < MaxFaults /\ faults' = faults + 1

(* The tokens somebody still remembers; uuid.NewString returns another one. *)
KnownClaims ==
    ({claim[j] : j \in Jobs} \cup {own[w] : w \in Workers}
                             \cup {tok[w] : w \in Workers}
                             \cup {wtok[w] : w \in Workers}) \ {NoClaim}

NewClaim == NewString(KnownClaims)

(* Holds in every state when Claims has one token more than there are jobs  *)
(* and three times the workers.                                            *)
ClaimsLeft == KnownClaims # Claims

----------------------------------------------------------------------------
(* The queue's clients.                                                    *)

(* Queue.Enqueue and EnqueueTask: a new pending row.                        *)
Enqueue(j) ==
    /\ \E k \in Jobs : \E s \in {created[k], created[k] + 1} : Create(j, s)
    /\ UNCHANGED <<workerVars, poolVars, asked, faults, lapsed>>

(* Service.RetryJob is Queue.Retry: Get and check the retries, then the     *)
(* guarded UPDATE, two statements that other steps come between.           *)
RetryCheck(j) ==
    /\ status[j] # "absent"
    /\ CanRetry(j)
    /\ asked' = asked \cup {j}
    /\ UNCHANGED <<rowVars, workerVars, poolVars, faults, lapsed>>

RetryJob(j) ==
    /\ j \in asked
    /\ asked' = asked \ {j}
    /\ \/ /\ Retry(j)
          /\ lapsed' = [k \in Tasks |-> lapsed[k] \/ (k = j /\ Engaged(j))]
       \/ /\ ~CanRetry(j)
          /\ UNCHANGED <<rowVars, lapsed>>
    /\ UNCHANGED <<workerVars, poolVars, faults>>

(* Service.CancelJob.                                                       *)
CancelJob(j) ==
    /\ Cancel(j)
    /\ UNCHANGED <<workerVars, poolVars, asked, faults, lapsed>>

----------------------------------------------------------------------------
(* workerLoop.                                                             *)

(* A new claim starts a new history for its job, unless somebody is still   *)
(* engaged under an older one.                                             *)
ForgetLapse(j) == lapsed' = [k \in Tasks |-> lapsed[k] /\ (k # j \/ Engaged(j))]

Acquire(w) ==
    /\ pc[w] = "idle"
    /\ pool[PoolOf[w]] = "up"
    /\ ClaimsLeft
    /\ \E j \in Jobs :
          /\ AcquireNext(j, NewClaim)
          /\ pc' = [pc EXCEPT ![w] = IF j \in Tasks THEN "claimed" ELSE "processing"]
          /\ job' = [job EXCEPT ![w] = j]
          /\ own' = [own EXCEPT ![w] = NewClaim]
          /\ tok' = [tok EXCEPT ![w] = NewClaim]
          /\ ForgetLapse(j)
    /\ UNCHANGED <<watch, wtok, cause, poolVars, asked, faults>>

(* acquireCtx ends between the claiming UPDATE and the scan of its row:     *)
(* AcquireNext returns an error and the job stays running with no worker.  *)
AcquireInterrupted(w) ==
    /\ pc[w] = "idle"
    /\ pool[PoolOf[w]] = "stopping"
    /\ ClaimsLeft
    /\ \E j \in Jobs : AcquireNext(j, NewClaim) /\ ForgetLapse(j)
    /\ UNCHANGED <<workerVars, poolVars, asked, faults>>

(* Back to the top of the loop.                                             *)
Idle(w) ==
    /\ pc' = [pc EXCEPT ![w] = "idle"]
    /\ job' = [job EXCEPT ![w] = NoJob]
    /\ own' = [own EXCEPT ![w] = NoClaim]
    /\ tok' = [tok EXCEPT ![w] = NoClaim]
    /\ watch' = [watch EXCEPT ![w] = "off"]
    /\ wtok' = [wtok EXCEPT ![w] = NoClaim]
    /\ cause' = [cause EXCEPT ![w] = "none"]

Goto(w, l) ==
    /\ pc' = [pc EXCEPT ![w] = l]
    /\ UNCHANGED <<job, own, tok, watch, wtok, cause>>

(* After settling: runTask still has its deferred calls, process is done.   *)
Return(w) == IF job[w] \in Tasks THEN Goto(w, "leaving") ELSE Idle(w)

----------------------------------------------------------------------------
(* runTask.                                                                *)

(* Mutation: inflight.Store without looking.                                *)
OverwriteInflight(w) ==
    /\ pc[w] = "claimed"
    /\ inflight' = [inflight EXCEPT ![PoolOf[w]][job[w]] = w]
    /\ Goto(w, "leasing")
    /\ UNCHANGED <<rowVars, pool, drained, asked, faults, lapsed>>

(* inflight.LoadOrStore found nothing and stored this worker's claim.       *)
StoreInflight(w) ==
    /\ pc[w] = "claimed"
    /\ inflight[PoolOf[w]][job[w]] = NoWorker
    /\ inflight' = [inflight EXCEPT ![PoolOf[w]][job[w]] = w]
    /\ Goto(w, "leasing")
    /\ UNCHANGED <<rowVars, pool, drained, asked, faults, lapsed>>

(* LoadOrStore found the claim of worker r of this pool: c.set moves r to   *)
(* this worker's token, be it newer than r's or not.  Load and set are one *)
(* step: a set that comes after r has deleted its entry writes a token     *)
(* nobody reads again.                                                     *)
TakeOver(w) ==
    /\ pc[w] = "claimed"
    /\ \E r \in Workers :
          /\ inflight[PoolOf[w]][job[w]] = r
          /\ tok' = [tok EXCEPT ![r] = own[w]]
    /\ pc' = [pc EXCEPT ![w] = "takeover"]
    /\ UNCHANGED <<rowVars, job, own, watch, wtok, cause, poolVars, asked, faults, lapsed>>

(* The lease goes to the running handler's new claim; an error is logged.   *)
LeaseTakenOver(w) ==
    /\ pc[w] = "takeover"
    /\ \/ ExtendLease(job[w], own[w]) /\ UNCHANGED faults
       \/ Fault /\ UNCHANGED rowVars
    /\ Idle(w)
    /\ UNCHANGED <<poolVars, asked, lapsed>>

(* Mutation: held is ignored.                                               *)
RunWithoutLease(w) ==
    /\ pc[w] = "leasing"
    /\ ExtendLease(job[w], own[w])
    /\ pc' = [pc EXCEPT ![w] = "running"]
    /\ watch' = [watch EXCEPT ![w] = "wait"]
    /\ UNCHANGED <<job, own, tok, wtok, cause, poolVars, asked, faults, lapsed>>

(* The first ExtendLease.  Held: start the watcher and the handler; not     *)
(* held (requeued or cancelled since the claim): return.                   *)
LeaseTask(w) ==
    /\ pc[w] = "leasing"
    /\ ExtendLease(job[w], own[w])
    /\ pc' = [pc EXCEPT ![w] = IF Holds(job[w], own[w]) THEN "running" ELSE "leaving"]
    /\ watch' = [watch EXCEPT ![w] = IF Holds(job[w], own[w]) THEN "wait" ELSE "off"]
    /\ UNCHANGED <<job, own, tok, wtok, cause, poolVars, asked, faults, lapsed>>

(* The first ExtendLease fails: retryOrFail, unleased.                      *)
LeaseError(w) ==
    /\ pc[w] = "leasing"
    /\ Fault
    /\ Goto(w, "retryget")
    /\ lapsed' = [k \in Tasks |-> lapsed[k] \/ k = job[w]]
    /\ UNCHANGED <<rowVars, poolVars, asked>>

(* The handler returns and the switch on its error and on context.Cause     *)
(* picks how the job is settled.  A nil error wins over every cause.       *)
SettleAt(res, why) ==
    CASE res = "ok" -> "completing"
      [] res # "ok" /\ why \in {"cancelled", "lost"} -> "leaving"
      [] res # "ok" /\ why = "stopped" -> "releasing"
      [] res = "permanent" /\ why = "none" -> "failing"
      [] res = "transient" /\ why = "none" -> "retryget"

HandlerReturns(w) ==
    /\ pc[w] = "running"
    /\ \E res \in {"ok", "permanent", "transient"} : Goto(w, SettleAt(res, cause[w]))
    /\ UNCHANGED <<rowVars, poolVars, asked, faults, lapsed>>

(* Shutdown leaves the job running and unleased.                            *)
Release(w) ==
    /\ pc[w] = "releasing"
    /\ ReleaseLease(job[w], tok[w])
    /\ Goto(w, "leaving")
    /\ UNCHANGED <<poolVars, asked, faults, lapsed>>

(* The deferred stopWatch, cancel(nil) and inflight.Delete.                 *)
Leave(w) ==
    /\ pc[w] = "leaving"
    /\ inflight' = [inflight EXCEPT ![PoolOf[w]][job[w]] = NoWorker]
    /\ Idle(w)
    /\ UNCHANGED <<rowVars, pool, drained, asked, faults, lapsed>>

----------------------------------------------------------------------------
(* watchTask: a goroutine beside the handler, until stopWatch or a cause.  *)

Watching(w) == pc[w] \in EngagedPCs

StopWith(w, why) ==
    /\ cause' = [cause EXCEPT ![w] = why]
    /\ watch' = [watch EXCEPT ![w] = "off"]
    /\ wtok' = [wtok EXCEPT ![w] = NoClaim]
    /\ UNCHANGED <<rowVars, pc, job, own, tok, poolVars, asked, faults, lapsed>>

(* The watcher goes to l, remembering token t (none once the tick is over). *)
WatchAt(w, l, t) ==
    /\ watch' = [watch EXCEPT ![w] = l]
    /\ wtok' = [wtok EXCEPT ![w] = t]
    /\ UNCHANGED <<pc, job, own, tok, cause, poolVars, asked, lapsed>>

(* The next turn of the watcher's loop.                                     *)
WatchAgain(w) == WatchAt(w, "wait", NoClaim)

(* case <-acquireCtx.Done().                                                *)
WatchPoolStopped(w) ==
    /\ Watching(w) /\ watch[w] = "wait"
    /\ pool[PoolOf[w]] = "stopping"
    /\ StopWith(w, "stopped")

(* case <-poll.C: the row says cancelled.                                   *)
WatchPoll(w) ==
    /\ Watching(w) /\ watch[w] = "wait"
    /\ status[job[w]] = "cancelled"
    /\ StopWith(w, "cancelled")

(* case <-renew.C: token := claim.get().                                    *)
RenewRead(w) ==
    /\ Watching(w) /\ watch[w] = "wait"
    /\ WatchAt(w, "renew", tok[w])
    /\ UNCHANGED <<rowVars, faults>>

(* ExtendLease under the token read: renewed, or not held, or an error that *)
(* the next tick retries.                                                  *)
RenewExtend(w) ==
    /\ Watching(w) /\ watch[w] = "renew"
    /\ \/ /\ ExtendLease(job[w], wtok[w])
          /\ IF Holds(job[w], wtok[w]) THEN WatchAgain(w)
                                       ELSE WatchAt(w, "doubt", wtok[w])
          /\ UNCHANGED faults
       \/ /\ Fault
          /\ WatchAgain(w)
          /\ UNCHANGED rowVars

(* claim.get() != token: this pool re-acquired the job meanwhile.           *)
RenewCompare(w) ==
    /\ Watching(w) /\ watch[w] = "doubt"
    /\ IF tok[w] # wtok[w] THEN WatchAgain(w) ELSE WatchAt(w, "check", wtok[w])
    /\ UNCHANGED <<rowVars, faults>>

(* Mutation: a renewal that finds the job requeued is tried again.          *)
RenewAgain(w) ==
    /\ Watching(w) /\ watch[w] = "check"
    /\ \/ status[job[w]] = "cancelled" /\ StopWith(w, "cancelled")
       \/ status[job[w]] # "cancelled" /\ WatchAgain(w) /\ UNCHANGED <<rowVars, faults>>

(* cancelled() (false when its Get fails), else the lease is lost.          *)
RenewGiveUp(w) ==
    /\ Watching(w) /\ watch[w] = "check"
    /\ \/ status[job[w]] = "cancelled" /\ StopWith(w, "cancelled")
       \/ StopWith(w, "lost")

Watch(w) == \/ WatchPoolStopped(w) \/ WatchPoll(w) \/ RenewRead(w)
            \/ RenewExtend(w) \/ RenewCompare(w) \/ RenewGiveUp(w)

----------------------------------------------------------------------------
(* process, and the settling it shares with runTask.                       *)

(* An ingest runs and settles under drainCtx, whose deadline counts from the *)
(* start of its pool; past it every call fails.  A task settles under a     *)
(* context without a deadline (context.WithoutCancel).                     *)
Expired(w) == job[w] \in Ingests /\ PoolOf[w] \in drained

(* process runs the pipeline and stores the object; what remains of it here *)
(* is which settling call it ends with.  The deadline may pass before, in   *)
(* or after it, so that no call is ruled out by it.                        *)
Process(w) ==
    /\ pc[w] = "processing"
    /\ \E l \in {"completing", "failing", "retryget"} : Goto(w, l)
    /\ UNCHANGED <<rowVars, poolVars, asked, faults, lapsed>>

(* markCompleted, and Complete in runTask.                                  *)
CompleteJob(w) ==
    /\ pc[w] = "completing" /\ ~Expired(w)
    /\ Complete(job[w])
    /\ Return(w)
    /\ UNCHANGED <<poolVars, asked, faults, lapsed>>

(* markFailed, and Fail in runTask.                                         *)
FailJob(w) ==
    /\ pc[w] = "failing" /\ ~Expired(w)
    /\ Fail(job[w])
    /\ Return(w)
    /\ UNCHANGED <<poolVars, asked, faults, lapsed>>

(* retryOrFail: Queue.Retry's Get and check ...                             *)
RetryGet(w) ==
    /\ pc[w] = "retryget" /\ ~Expired(w)
    /\ Goto(w, IF CanRetry(job[w]) THEN "retrying" ELSE "failing")
    /\ UNCHANGED <<rowVars, poolVars, asked, faults, lapsed>>

(* ... then JobStore.Retry, which checks again; an error leads to Fail.     *)
RetryOrFail(w) ==
    /\ pc[w] = "retrying" /\ ~Expired(w)
    /\ \/ Retry(job[w]) /\ Return(w)
       \/ ~CanRetry(job[w]) /\ UNCHANGED rowVars /\ Goto(w, "failing")
    /\ UNCHANGED <<poolVars, asked, faults, lapsed>>

(* The store, or the expired context, rejects a settling call: a rejected   *)
(* retry fails the job, any other rejection is logged and leaves the row   *)
(* to stale recovery.                                                      *)
SettleError(w) ==
    /\ IF Expired(w) THEN UNCHANGED faults ELSE Fault
    /\ \/ pc[w] \in {"retryget", "retrying"} /\ Goto(w, "failing")
       \/ pc[w] \in {"completing", "failing", "releasing"} /\ Return(w)
    /\ UNCHANGED <<rowVars, poolVars, asked, lapsed>>

----------------------------------------------------------------------------
(* Pools and time.                                                         *)

(* serve: RecoverStale(0) requeues every unleased running job, then the     *)
(* pool starts, with a new drainCtx.                                       *)
Start(p) ==
    /\ pool[p] = "down"
    /\ pool' = [pool EXCEPT ![p] = "up"]
    /\ drained' = drained \ {p}
    /\ RecoverStale(0)
    /\ UNCHANGED <<workerVars, inflight, asked, faults, lapsed>>

(* recoverStaleLoop.                                                        *)
Recover(p) ==
    /\ pool[p] = "up"
    /\ StaleJobs(StaleTimeout) # {}
    /\ RecoverStale(StaleTimeout)
    /\ UNCHANGED <<workerVars, poolVars, asked, faults, lapsed>>

(* The timeout of drainCtx: it started with the pool, so it ends in the     *)
(* middle of normal operation as well as while the pool stops.             *)
DrainExpires(p) ==
    /\ DrainSet
    /\ pool[p] # "down"
    /\ p \notin drained
    /\ drained' = drained \cup {p}
    /\ UNCHANGED <<rowVars, workerVars, pool, inflight, asked, faults, lapsed>>

(* acquireCtx is cancelled; in-flight work goes on, an ingest for what is   *)
(* left of drainCtx.                                                       *)
Stop(p) ==
    /\ pool[p] = "up"
    /\ Fault
    /\ pool' = [pool EXCEPT ![p] = "stopping"]
    /\ UNCHANGED <<rowVars, workerVars, inflight, drained, asked, lapsed>>

(* g.Wait returns once every worker has left its loop.                      *)
Exit(p) ==
    /\ pool[p] = "stopping"
    /\ \A w \in Workers : PoolOf[w] = p => pc[w] = "idle"
    /\ pool' = [pool EXCEPT ![p] = "down"]
    /\ UNCHANGED <<rowVars, workerVars, inflight, drained, asked, faults, lapsed>>

(* The process ends: its goroutines and its inflight map are gone, the rows *)
(* stay as they are.                                                       *)
Dies(p) ==
    LET Of(f, x) == [w \in Workers |-> IF PoolOf[w] = p THEN x ELSE f[w]]
    IN  /\ pool' = [pool EXCEPT ![p] = "down"]
        /\ pc' = Of(pc, "idle")
        /\ job' = Of(job, NoJob)
        /\ own' = Of(own, NoClaim)
        /\ tok' = Of(tok, NoClaim)
        /\ watch' = Of(watch, "off")
        /\ wtok' = Of(wtok, NoClaim)
        /\ cause' = Of(cause, "none")
        /\ inflight' = [inflight EXCEPT ![p] = [j \in Jobs |-> NoWorker]]
        /\ UNCHANGED <<rowVars, drained, asked, lapsed>>

Crash(p) == pool[p] # "down" /\ Fault /\ Dies(p)

(* serve waits for the pool only until its own deadline, which counts from  *)
(* the stop, or a second signal; then the process exits under its workers. *)
ExitUndrained(p) == pool[p] = "stopping" /\ Dies(p) /\ UNCHANGED faults

(* The running jobs the next tick makes stale.                              *)
Expiring ==
    {j \in Jobs : /\ status[j] = "running"
                  /\ IF lease[j] = NoLease THEN age[j] = StaleTimeout - 1
                                           ELSE lease[j] = 1}

(* A live worker keeps its job from going stale (it renews every leaseTTL/3 *)
(* and an ingest is far shorter than staleTimeout) unless it stalls, which *)
(* is a fault.                                                             *)
Tick ==
    LET stalled == {j \in Expiring : \E w \in Workers : job[w] = j}
    IN  /\ IF stalled = {} THEN UNCHANGED faults ELSE Fault
        /\ Elapse
        /\ lapsed' = [k \in Tasks |-> lapsed[k] \/ (k \in stalled /\ Engaged(k))]
        /\ UNCHANGED <<workerVars, poolVars, asked>>

----------------------------------------------------------------------------

RunTask(w) == \/ StoreInflight(w) \/ TakeOver(w) \/ LeaseTakenOver(w)
              \/ LeaseTask(w) \/ LeaseError(w) \/ HandlerReturns(w)
              \/ Release(w) \/ Leave(w)

Settle(w) == \/ CompleteJob(w) \/ FailJob(w) \/ RetryGet(w)
             \/ RetryOrFail(w) \/ SettleError(w)

Client(j) == Enqueue(j) \/ RetryCheck(j) \/ RetryJob(j) \/ CancelJob(j)

Lifecycle(p) == \/ Start(p) \/ Recover(p) \/ DrainExpires(p) \/ Stop(p)
                \/ Exit(p) \/ Crash(p) \/ ExitUndrained(p)

Next ==
    \/ \E j \in Jobs : Client(j)
    \/ \E w \in Workers : \/ Acquire(w) \/ AcquireInterrupted(w)
                          \/ RunTask(w) \/ Watch(w) \/ Process(w) \/ Settle(w)
    \/ \E p \in Pools : Lifecycle(p)
    \/ Tick

Spec == Init /\ [][Next]_vars

----------------------------------------------------------------------------
(* Fairness.  The Go scheduler runs every runnable goroutine, a dpkms that *)
(* is down is started again, and the clock goes on.  A job that is again   *)
(* and again the oldest pending one is claimed, though a job that cannot   *)
(* settle is requeued before it all the time: idle workers poll every      *)
(* PollInterval, far more often than jobs go stale.  A handler is free to  *)
(* run for ever until its context is cancelled; that it then returns is    *)
(* what TaskHandler demands of it.  HandlersReturn is that all of them do. *)

Fairness ==
    /\ \A j \in Jobs : SF_vars(\E w \in Workers : Acquire(w) /\ job'[w] = j)
    /\ \A w \in Workers : /\ WF_vars(StoreInflight(w) \/ TakeOver(w))
                          /\ WF_vars(LeaseTakenOver(w))
                          /\ WF_vars(LeaseTask(w))
                          /\ WF_vars(HandlerReturns(w) /\ cause[w] # "none")
                          /\ WF_vars(Release(w) \/ Leave(w))
                          /\ WF_vars(Watch(w))
                          /\ WF_vars(Process(w))
                          /\ WF_vars(Settle(w))
    /\ \A p \in Pools : WF_vars(Start(p)) /\ WF_vars(Recover(p)) /\ WF_vars(Exit(p))
    /\ WF_vars(Tick)

HandlersReturn == \A w \in Workers : WF_vars(HandlerReturns(w))

FairSpec == Spec /\ Fairness

----------------------------------------------------------------------------
(* Properties.                                                             *)

(* While no lease on the job lapsed or was bypassed under the worker that   *)
(* has it, at most one worker of all pools runs or settles a task job: what *)
(* tasks.go calls exclusivity ("no other pool can requeue and run it"),    *)
(* across startup recovery, shutdowns, crashes and cancellations.          *)
LeaseHolderIsAlone ==
    \A j \in Tasks : ~lapsed[j] =>
        \A v, w \in Workers :
            (job[v] = j /\ pc[v] \in EngagedPCs /\ job[w] = j /\ pc[w] \in EngagedPCs)
                => v = w

(* One pool never runs two handlers of one job, whatever happens to its     *)
(* leases: the inflight map hands a re-acquired job to the running handler. *)
OneHandlerPerPool ==
    \A v, w \in Workers :
        (pc[v] = "running" /\ pc[w] = "running" /\ job[v] = job[w] /\ PoolOf[v] = PoolOf[w])
            => v = w

(* A lease that has not run out belongs to the claim of the row; of the     *)
(* workers that run the job's handler at most one, over all pools, can     *)
(* renew it, even after lapses, take-overs and operator retries.           *)
OneRenewer ==
    \A v, w \in Workers :
        (/\ pc[v] = "running" /\ Holds(job[v], tok[v])
         /\ pc[w] = "running" /\ Holds(job[w], tok[w])
         /\ job[v] = job[w]) => v = w

(* The retry budget is never exceeded although an operator's retry and the  *)
(* worker's own both check it one statement before they spend it.          *)
RetryBudget == \A j \in Jobs : retries[j] <= MaxRetries

(* A task job's handler only starts on a row that is running under the      *)
(* claim of the worker that starts it, with a full lease: a job requeued,  *)
(* re-claimed or cancelled between AcquireNext and the lease is not run.   *)
StartsUnderLease ==
    [][\A w \in Workers : (pc[w] # "running" /\ pc'[w] = "running")
          => /\ status'[job[w]] = "running"
             /\ claim'[job[w]] = own[w]
             /\ lease'[job[w]] = LeaseTTL]_vars

(* A handler that can no longer renew (its job was requeued, re-claimed,    *)
(* settled or cancelled) is stopped, though it would otherwise run for     *)
(* ever: the watcher sees it and cancels its context.                      *)
FormerHolderStops ==
    \A w \in Workers :
        (pc[w] = "running" /\ ~Holds(job[w], tok[w]))
            ~> (pc[w] # "running" \/ Holds(job[w], tok[w]))

(* Every enqueued job is eventually settled if handlers return: crashes,    *)
(* shutdowns, stalls and store errors leave no row pending or running for  *)
(* ever, of an ingest if from some time on no pool is past the deadline of *)
(* its drainCtx (a restart gives it a new one).                            *)
EveryJobSettles ==
    HandlersReturn =>
        /\ \A j \in Tasks : (status[j] = "pending") ~> (status[j] \in Settled)
        /\ <>[](drained = {}) =>
              \A j \in Ingests : (status[j] = "pending") ~> (status[j] \in Settled)

(* An ingest is settled in a pool that is not stopped and in which nothing  *)
(* hangs: Start gives in-flight jobs drainTimeout "on cancellation", and   *)
(* says that "the deadline is only reached on hangs".                      *)
IngestsSettle ==
    \A j \in Ingests : (status[j] = "pending") ~> (status[j] \in Settled)

(* The pools implement TaskRun: no interleaving of claims, take-overs,      *)
(* renewals, recoveries (at the start of a process too), shutdowns and      *)
(* crashes starts a second worker on a task, requeues it under its worker, *)
(* or settles anything but that worker's own run, until a lease lapses or   *)
(* an operator requeues the task.                                           *)
Runners == [j \in Tasks |-> {w \in Workers : job[w] = j /\ pc[w] \in EngagedPCs}]

Run == INSTANCE TaskRun WITH
           state <- [j \in Tasks |-> status[j]],
           retries <- [j \in Tasks |-> retries[j]],
           runners <- Runners,
           broken <- lapsed

ImplementsTaskRun == Run!Spec

----------------------------------------------------------------------------
(* The inductive invariant behind LeaseHolderIsAlone, OneHandlerPerPool and *)
(* OneRenewer.                                                             *)

(* What a worker has at each pc.                                            *)
WorkerHasJob ==
    \A w \in Workers :
        /\ pc[w] = "idle" => job[w] = NoJob /\ own[w] = NoClaim
        /\ pc[w] # "idle" => job[w] \in Jobs /\ own[w] # NoClaim
        /\ pc[w] = "processing" => job[w] \in Ingests
        /\ pc[w] \in {"claimed", "takeover"} \cup (TrackedPCs \ SettlePCs) => job[w] \in Tasks

(* A claim is acquired by one worker.                                       *)
OwnUnique == \A v, w \in Workers : own[v] = own[w] /\ own[v] # NoClaim => v = w

(* The inflight entry of a task is the worker that stored it.               *)
InflightOwner ==
    \A w \in Workers : (pc[w] \in TrackedPCs /\ job[w] \in Tasks)
                           => inflight[PoolOf[w]][job[w]] = w

(* A token in another worker's taskClaim was set by its owner, which runs   *)
(* nothing itself; so two taskClaims share a token only then.              *)
TokOwner ==
    \A v, w \in Workers : v # w /\ tok[v] # NoClaim /\ tok[v] = own[w] => pc[w] = "takeover"
TokUnique ==
    \A v, w \in Workers : v # w /\ tok[v] # NoClaim /\ tok[v] = tok[w]
                              => "takeover" \in {pc[v], pc[w]}

(* Until a lapse, the row of a job being run or settled carries the claim   *)
(* of the worker that does, under a lease that has not run out, unless an  *)
(* operator cancelled it.                                                  *)
EngagedHolds ==
    \A w \in Workers :
        (pc[w] \in EngagedPCs /\ job[w] \in Tasks) =>
            \/ lapsed[job[w]]
            \/ /\ claim[job[w]] = own[w]
               /\ \/ status[job[w]] = "cancelled"
                  \/ status[job[w]] = "running" /\ lease[job[w]] > 0

WorkerInv == WorkerHasJob /\ OwnUnique /\ InflightOwner /\ TokOwner /\ TokUnique

LeaseInv == WorkerInv /\ EngagedHolds

(* Operators and workers only have jobs that were inserted.                 *)
Inserted ==
    /\ \A j \in asked : status[j] # "absent"
    /\ \A w \in Workers : pc[w] # "idle" => status[job[w]] # "absent"

=============================================================================
