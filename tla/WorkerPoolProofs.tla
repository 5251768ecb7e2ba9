-------------------------- MODULE WorkerPoolProofs --------------------------
(* Theorems about WorkerPool, for every number of jobs, workers, pools,    *)
(* claims and faults.                                                      *)
EXTENDS WorkerPool, TLAPS

USE JobsAssumption, ClaimsAssumption, TimesAssumption, WorkersAssumption,
    MaxFaultsAssumption

----------------------------------------------------------------------------
(* What the statements of JobStore and the helpers of the pool preserve.   *)

(* Every statement of JobStore keeps the columns within their types.        *)
LEMMA StoreTypes ==
    ASSUME StoreTypeOK
    PROVE  /\ \A j \in Jobs, s \in Nat : Create(j, s) => StoreTypeOK'
           /\ \A j \in Jobs, c \in Claims : AcquireNext(j, c) => StoreTypeOK'
           /\ \A j : Complete(j) => StoreTypeOK'
           /\ \A j : Fail(j) => StoreTypeOK'
           /\ \A j : Retry(j) => StoreTypeOK'
           /\ \A j : Cancel(j) => StoreTypeOK'
           /\ \A t : RecoverStale(t) => StoreTypeOK'
           /\ \A j, c : ExtendLease(j, c) => StoreTypeOK'
           /\ \A j, c : ReleaseLease(j, c) => StoreTypeOK'
           /\ Elapse => StoreTypeOK'
           /\ UNCHANGED rowVars => StoreTypeOK'
<1> USE DEF StoreTypeOK, Statuses, NoLease
<1>1. \A j \in Jobs, s \in Nat : Create(j, s) => StoreTypeOK'
  BY DEF Create
<1>2. \A j \in Jobs, c \in Claims : AcquireNext(j, c) => StoreTypeOK'
  BY DEF AcquireNext
<1>3. \A j : Complete(j) => StoreTypeOK'
  BY DEF Complete
<1>4. \A j : Fail(j) => StoreTypeOK'
  BY DEF Fail
<1>5. \A j : Retry(j) => StoreTypeOK'
  <2> SUFFICES ASSUME NEW j, Retry(j) PROVE StoreTypeOK'
    OBVIOUS
  <2>1. CASE j \in Jobs
    BY <2>1 DEF Retry
  <2>2. CASE j \notin Jobs
    BY <2>2 DEF Retry
  <2> QED
    BY <2>1, <2>2
<1>6. \A j : Cancel(j) => StoreTypeOK'
  BY DEF Cancel
<1>7. \A t : RecoverStale(t) => StoreTypeOK'
  BY DEF RecoverStale
<1>8. \A j, c : ExtendLease(j, c) => StoreTypeOK'
  <2> SUFFICES ASSUME NEW j, NEW c, ExtendLease(j, c) PROVE StoreTypeOK'
    OBVIOUS
  <2>1. CASE j \in Jobs
    BY <2>1 DEF ExtendLease
  <2>2. CASE j \notin Jobs
    BY <2>2 DEF ExtendLease
  <2> QED
    BY <2>1, <2>2
<1>9. \A j, c : ReleaseLease(j, c) => StoreTypeOK'
  <2> SUFFICES ASSUME NEW j, NEW c, ReleaseLease(j, c) PROVE StoreTypeOK'
    OBVIOUS
  <2>1. CASE j \in Jobs
    BY <2>1 DEF ReleaseLease
  <2>2. CASE j \notin Jobs
    BY <2>2 DEF ReleaseLease
  <2> QED
    BY <2>1, <2>2
<1>10. Elapse => StoreTypeOK'
  BY DEF Elapse
<1>11. UNCHANGED rowVars => StoreTypeOK'
  BY DEF rowVars
<1> QED
  BY <1>1, <1>2, <1>3, <1>4, <1>5, <1>6, <1>7, <1>8, <1>9, <1>10, <1>11

(* So do the helpers that move a worker or its watcher.                     *)
LEMMA WorkerTypes ==
    ASSUME WorkerTypeOK, NEW w \in Workers
    PROVE  /\ Idle(w) => WorkerTypeOK'
           /\ \A l \in PCs : Goto(w, l) => WorkerTypeOK'
           /\ Return(w) => WorkerTypeOK'
           /\ \A why \in {"cancelled", "lost", "stopped"} : StopWith(w, why) => WorkerTypeOK'
           /\ \A l \in {"wait", "renew", "doubt", "check"} :
                 \A t \in Claims \cup {NoClaim} : WatchAt(w, l, t) => WorkerTypeOK'
<1> USE DEF WorkerTypeOK
<1>1. Idle(w) => WorkerTypeOK'
  BY DEF Idle, PCs
<1>2. \A l \in PCs : Goto(w, l) => WorkerTypeOK'
  BY DEF Goto
<1>3. Return(w) => WorkerTypeOK'
  BY <1>1, <1>2 DEF Return, PCs, TrackedPCs
<1>4. \A why \in {"cancelled", "lost", "stopped"} : StopWith(w, why) => WorkerTypeOK'
  BY DEF StopWith
<1>5. \A l \in {"wait", "renew", "doubt", "check"} :
         \A t \in Claims \cup {NoClaim} : WatchAt(w, l, t) => WorkerTypeOK'
  BY DEF WatchAt
<1> QED
  BY <1>1, <1>2, <1>3, <1>4, <1>5

(* A step that leaves the workers alone keeps their types.                  *)
LEMMA WorkerStutter == WorkerTypeOK /\ UNCHANGED workerVars => WorkerTypeOK'
BY DEF WorkerTypeOK, workerVars

(* A new token is a claim that no row, worker or watcher knows.             *)
LEMMA NewClaimFresh ==
    ASSUME TypeOK, ClaimsLeft
    PROVE  /\ NewClaim \in Claims
           /\ NewClaim # NoClaim
           /\ \A j \in Jobs : claim[j] # NewClaim
           /\ \A w \in Workers : own[w] # NewClaim /\ tok[w] # NewClaim /\ wtok[w] # NewClaim
<1>1. KnownClaims \in SUBSET Claims
  BY DEF KnownClaims, TypeOK, StoreTypeOK, WorkerTypeOK
<1>2. NewClaim \in Claims \ KnownClaims
  BY <1>1, NewStringAssumption DEF NewClaim, ClaimsLeft
<1> QED
  BY <1>2 DEF KnownClaims

(* Where the switch of runTask leads.                                       *)
LEMMA SettleAtPC ==
    ASSUME NEW res \in {"ok", "permanent", "transient"},
           NEW why \in {"none", "cancelled", "lost", "stopped"}
    PROVE  SettleAt(res, why) \in {"completing", "leaving", "releasing", "failing", "retryget"}
BY DEF SettleAt

----------------------------------------------------------------------------

(* Every column, program counter, token and history flag keeps its type     *)
(* through every step of clients, workers, watchers and processes.         *)
THEOREM TypeCorrect == Spec => []TypeOK
<1>1. Init => TypeOK
  BY DEF Init, TypeOK, WorkerTypeOK, PoolTypeOK, StoreInit, StoreTypeOK, Statuses, NoLease, PCs
<1>2. TypeOK /\ [Next]_vars => TypeOK'
  <2> SUFFICES ASSUME TypeOK, [Next]_vars PROVE TypeOK'
    OBVIOUS
  <2> USE StoreTypes, WorkerTypes, WorkerStutter DEF TypeOK, Fault
  <2>1. ASSUME NEW j \in Jobs, Enqueue(j) PROVE TypeOK'
    BY <2>1 DEF Enqueue, poolVars, PoolTypeOK, StoreTypeOK
  <2>2. ASSUME NEW j \in Jobs, RetryCheck(j) PROVE TypeOK'
    BY <2>2 DEF RetryCheck, poolVars, PoolTypeOK
  <2>3. ASSUME NEW j \in Jobs, RetryJob(j) PROVE TypeOK'
    BY <2>3 DEF RetryJob, poolVars, PoolTypeOK
  <2>4. ASSUME NEW j \in Jobs, CancelJob(j) PROVE TypeOK'
    BY <2>4 DEF CancelJob, poolVars, PoolTypeOK
  <2>5. ASSUME NEW w \in Workers, Acquire(w) PROVE TypeOK'
    <3>1. NewClaim \in Claims
      BY <2>5, NewClaimFresh DEF Acquire
    <3> QED
      BY <2>5, <3>1 DEF Acquire, ForgetLapse, WorkerTypeOK, PCs, poolVars, PoolTypeOK
  <2>6. ASSUME NEW w \in Workers, AcquireInterrupted(w) PROVE TypeOK'
    <3>1. NewClaim \in Claims
      BY <2>6, NewClaimFresh DEF AcquireInterrupted
    <3> QED
      BY <2>6, <3>1 DEF AcquireInterrupted, ForgetLapse, poolVars, PoolTypeOK
  <2>7. ASSUME NEW w \in Workers, StoreInflight(w) PROVE TypeOK'
    BY <2>7 DEF StoreInflight, PCs, TrackedPCs, PoolTypeOK
  <2>8. ASSUME NEW w \in Workers, TakeOver(w) PROVE TypeOK'
    BY <2>8 DEF TakeOver, WorkerTypeOK, PCs, poolVars, PoolTypeOK
  <2>9. ASSUME NEW w \in Workers, LeaseTakenOver(w) PROVE TypeOK'
    BY <2>9 DEF LeaseTakenOver, poolVars, PoolTypeOK
  <2>10. ASSUME NEW w \in Workers, LeaseTask(w) PROVE TypeOK'
    BY <2>10 DEF LeaseTask, WorkerTypeOK, PCs, TrackedPCs, poolVars, PoolTypeOK
  <2>11. ASSUME NEW w \in Workers, LeaseError(w) PROVE TypeOK'
    BY <2>11 DEF LeaseError, PCs, TrackedPCs, SettlePCs, poolVars, PoolTypeOK
  <2>12. ASSUME NEW w \in Workers, HandlerReturns(w) PROVE TypeOK'
    <3>1. PICK res \in {"ok", "permanent", "transient"} : Goto(w, SettleAt(res, cause[w]))
      BY <2>12 DEF HandlerReturns
    <3>2. SettleAt(res, cause[w]) \in PCs
      BY SettleAtPC DEF WorkerTypeOK, PCs, TrackedPCs, SettlePCs
    <3> QED
      BY <2>12, <3>1, <3>2 DEF HandlerReturns, poolVars, PoolTypeOK
  <2>13. ASSUME NEW w \in Workers, Release(w) PROVE TypeOK'
    BY <2>13 DEF Release, PCs, TrackedPCs, poolVars, PoolTypeOK
  <2>14. ASSUME NEW w \in Workers, Leave(w) PROVE TypeOK'
    BY <2>14 DEF Leave, PoolTypeOK
  <2>15. ASSUME NEW w \in Workers, Watch(w) PROVE TypeOK'
    <3> USE DEF poolVars, PoolTypeOK
    <3>1. CASE WatchPoolStopped(w)
      BY <3>1 DEF WatchPoolStopped, StopWith
    <3>2. CASE WatchPoll(w)
      BY <3>2 DEF WatchPoll, StopWith
    <3>3. CASE RenewRead(w)
      BY <3>3 DEF RenewRead, WatchAt, WorkerTypeOK
    <3>4. CASE RenewExtend(w)
      <4>1. wtok[w] \in Claims \cup {NoClaim}
        BY DEF WorkerTypeOK
      <4>2. \E l \in {"wait", "doubt"}, t \in {NoClaim, wtok[w]} : WatchAt(w, l, t)
        BY <3>4 DEF RenewExtend, WatchAgain
      <4>3. WorkerTypeOK' /\ PoolTypeOK' /\ UNCHANGED <<asked, lapsed>>
        BY <4>1, <4>2 DEF WatchAt
      <4>4. StoreTypeOK'
        BY <3>4 DEF RenewExtend
      <4>5. faults' \in 0 .. MaxFaults
        BY <3>4 DEF RenewExtend
      <4> QED
        BY <4>3, <4>4, <4>5
    <3>5. CASE RenewCompare(w)
      BY <3>5 DEF RenewCompare, WatchAgain, WatchAt, WorkerTypeOK
    <3>6. CASE RenewGiveUp(w)
      BY <3>6 DEF RenewGiveUp, StopWith
    <3> QED
      BY <2>15, <3>1, <3>2, <3>3, <3>4, <3>5, <3>6 DEF Watch
  <2>16. ASSUME NEW w \in Workers, Process(w) PROVE TypeOK'
    BY <2>16 DEF Process, PCs, TrackedPCs, SettlePCs, poolVars, PoolTypeOK
  <2>17. ASSUME NEW w \in Workers, CompleteJob(w) PROVE TypeOK'
    BY <2>17 DEF CompleteJob, poolVars, PoolTypeOK
  <2>18. ASSUME NEW w \in Workers, FailJob(w) PROVE TypeOK'
    BY <2>18 DEF FailJob, poolVars, PoolTypeOK
  <2>19. ASSUME NEW w \in Workers, RetryGet(w) PROVE TypeOK'
    BY <2>19 DEF RetryGet, PCs, TrackedPCs, SettlePCs, poolVars, PoolTypeOK
  <2>20. ASSUME NEW w \in Workers, RetryOrFail(w) PROVE TypeOK'
    BY <2>20 DEF RetryOrFail, PCs, TrackedPCs, SettlePCs, poolVars, PoolTypeOK
  <2>21. ASSUME NEW w \in Workers, SettleError(w) PROVE TypeOK'
    BY <2>21 DEF SettleError, PCs, TrackedPCs, SettlePCs, poolVars, PoolTypeOK
  <2>22. ASSUME NEW p \in Pools, Start(p) PROVE TypeOK'
    BY <2>22 DEF Start, PoolTypeOK
  <2>23. ASSUME NEW p \in Pools, Recover(p) PROVE TypeOK'
    BY <2>23 DEF Recover, poolVars, PoolTypeOK
  <2>24. ASSUME NEW p \in Pools, Stop(p) PROVE TypeOK'
    BY <2>24 DEF Stop, PoolTypeOK
  <2>25. ASSUME NEW p \in Pools, Exit(p) PROVE TypeOK'
    BY <2>25 DEF Exit, PoolTypeOK
  <2>26. ASSUME NEW p \in Pools, Crash(p) \/ ExitUndrained(p) PROVE TypeOK'
    <3>1. faults' \in 0 .. MaxFaults
      BY <2>26 DEF Crash, ExitUndrained
    <3>2. Dies(p)
      BY <2>26 DEF Crash, ExitUndrained
    <3> QED
      BY <3>1, <3>2 DEF Dies, WorkerTypeOK, PCs, PoolTypeOK
  <2>27. CASE Tick
    BY <2>27 DEF Tick, poolVars, PoolTypeOK
  <2>28. CASE UNCHANGED vars
    BY <2>28 DEF vars, poolVars, PoolTypeOK
  <2>29. ASSUME NEW p \in Pools, DrainExpires(p) PROVE TypeOK'
    BY <2>29 DEF DrainExpires, PoolTypeOK
  <2> QED
    BY <2>1, <2>2, <2>3, <2>4, <2>5, <2>6, <2>7, <2>8, <2>9, <2>10, <2>11, <2>12, <2>13,
       <2>14, <2>15, <2>16, <2>17, <2>18, <2>19, <2>20, <2>21, <2>22, <2>23, <2>24, <2>25,
       <2>26, <2>27, <2>28, <2>29
       DEF Next, Client, RunTask, Settle, Lifecycle
<1> QED
  BY <1>1, <1>2, PTL DEF Spec

----------------------------------------------------------------------------
(* The inductive invariant LeaseInv.  WorkerInv is about the workers alone  *)
(* and changes only when they move; EngagedHolds ties them to the rows.    *)

(* Settling a job moves its worker to Fail, to runTask's deferred calls, or *)
(* (an ingest) back to the loop.                                           *)
LEMMA SettleMoves ==
    ASSUME WorkerInv, NEW w \in Workers, Settle(w)
    PROVE  /\ pc[w] \in SettlePCs \cup {"releasing"}
           /\ UNCHANGED inflight
           /\ \/ \E l \in {"failing", "retrying"} : Goto(w, l)
              \/ job[w] \in Tasks /\ Goto(w, "leaving")
              \/ job[w] \in Ingests /\ Idle(w)
<1>1. pc[w] \in SettlePCs \cup {"releasing"} /\ UNCHANGED inflight
  BY DEF Settle, CompleteJob, FailJob, RetryGet, RetryOrFail, SettleError, SettlePCs, poolVars
<1>2. job[w] \in Jobs
  BY <1>1 DEF WorkerInv, WorkerHasJob, SettlePCs
<1>3. Return(w) \/ \E l \in {"failing", "retrying"} : Goto(w, l)
  BY DEF Settle, CompleteJob, FailJob, RetryGet, RetryOrFail, SettleError
<1> QED
  BY <1>1, <1>2, <1>3 DEF Return, Jobs

(* Every step of a worker, a watcher or a crash keeps what workers know of  *)
(* each other: one owner for a claim, one for an inflight entry.           *)
LEMMA WorkerInvStep == TypeOK /\ WorkerInv /\ [Next]_vars => WorkerInv'
<1> SUFFICES ASSUME TypeOK, WorkerInv, [Next]_vars PROVE WorkerInv'
  OBVIOUS
<1> USE DEF TypeOK, WorkerTypeOK, PoolTypeOK, WorkerInv, WorkerHasJob, OwnUnique, InflightOwner,
            TokOwner, TokUnique, TrackedPCs, SettlePCs, PCs, Jobs
<1>1. CASE UNCHANGED <<pc, job, own, tok, inflight>>
  BY <1>1
<1>2. ASSUME NEW w \in Workers, Acquire(w) PROVE WorkerInv'
  <2>1. PICK j \in Jobs :
           /\ pc' = [pc EXCEPT ![w] = IF j \in Tasks THEN "claimed" ELSE "processing"]
           /\ job' = [job EXCEPT ![w] = j]
           /\ own' = [own EXCEPT ![w] = NewClaim]
           /\ tok' = [tok EXCEPT ![w] = NewClaim]
           /\ UNCHANGED inflight
    BY <1>2 DEF Acquire, poolVars
  <2>2. NewClaim # NoClaim /\ \A x \in Workers : own[x] # NewClaim /\ tok[x] # NewClaim
    BY <1>2, NewClaimFresh DEF Acquire
  <2>3. WorkerHasJob' /\ InflightOwner'
    BY <2>1, <2>2
  <2>4. OwnUnique'
    BY <2>1, <2>2
  <2>5. TokOwner' /\ TokUnique'
    BY <2>1, <2>2
  <2> QED
    BY <2>3, <2>4, <2>5
<1>3. ASSUME NEW w \in Workers, StoreInflight(w) PROVE WorkerInv'
  BY <1>3 DEF StoreInflight, Goto
<1>4. ASSUME NEW w \in Workers, TakeOver(w) PROVE WorkerInv'
  <2>1. PICK r \in Workers : tok' = [tok EXCEPT ![r] = own[w]]
    BY <1>4 DEF TakeOver
  <2>2. /\ pc[w] = "claimed"
        /\ pc' = [pc EXCEPT ![w] = "takeover"]
        /\ UNCHANGED <<job, own, inflight>>
    BY <1>4 DEF TakeOver, poolVars
  <2> QED
    BY <2>1, <2>2
<1>5. ASSUME NEW w \in Workers, LeaseTakenOver(w) PROVE WorkerInv'
  BY <1>5 DEF LeaseTakenOver, Idle, poolVars
<1>6. ASSUME NEW w \in Workers, LeaseTask(w) PROVE WorkerInv'
  BY <1>6 DEF LeaseTask, poolVars
<1>7. ASSUME NEW w \in Workers, LeaseError(w) PROVE WorkerInv'
  BY <1>7 DEF LeaseError, Goto, poolVars
<1>8. ASSUME NEW w \in Workers, HandlerReturns(w) PROVE WorkerInv'
  <2>1. PICK res \in {"ok", "permanent", "transient"} : Goto(w, SettleAt(res, cause[w]))
    BY <1>8 DEF HandlerReturns
  <2>2. SettleAt(res, cause[w]) \in {"completing", "leaving", "releasing", "failing", "retryget"}
    BY SettleAtPC
  <2> QED
    BY <1>8, <2>1, <2>2 DEF HandlerReturns, Goto, poolVars
<1>9. ASSUME NEW w \in Workers, Release(w) PROVE WorkerInv'
  BY <1>9 DEF Release, Goto, poolVars
<1>10. ASSUME NEW w \in Workers, Leave(w) PROVE WorkerInv'
  BY <1>10 DEF Leave, Idle
<1>11. ASSUME NEW w \in Workers, Process(w) PROVE WorkerInv'
  BY <1>11 DEF Process, Goto, poolVars
<1>12. ASSUME NEW w \in Workers, Settle(w) PROVE WorkerInv'
  <2>1. /\ pc[w] \in SettlePCs \cup {"releasing"}
        /\ UNCHANGED inflight
        /\ \/ \E l \in {"failing", "retrying"} : Goto(w, l)
           \/ job[w] \in Tasks /\ Goto(w, "leaving")
           \/ job[w] \in Ingests /\ Idle(w)
    BY <1>12, SettleMoves
  <2>2. CASE \E l \in {"failing", "retrying"} : Goto(w, l)
    BY <2>1, <2>2 DEF Goto
  <2>3. CASE job[w] \in Tasks /\ Goto(w, "leaving")
    BY <2>1, <2>3 DEF Goto
  <2>4. CASE job[w] \in Ingests /\ Idle(w)
    BY <2>1, <2>4 DEF Idle
  <2> QED
    BY <2>1, <2>2, <2>3, <2>4
<1>13. ASSUME NEW p \in Pools, Crash(p) \/ ExitUndrained(p) PROVE WorkerInv'
  <2>1. Dies(p)
    BY <1>13 DEF Crash, ExitUndrained
  <2> QED
    BY <2>1 DEF Dies
<1>14. ASSUME NEW j \in Jobs, Client(j) PROVE WorkerInv'
  BY <1>1, <1>14 DEF Client, Enqueue, RetryCheck, RetryJob, CancelJob, workerVars, poolVars
<1>15. ASSUME NEW w \in Workers, AcquireInterrupted(w) PROVE WorkerInv'
  BY <1>1, <1>15 DEF AcquireInterrupted, workerVars, poolVars
<1>16. ASSUME NEW w \in Workers, Watch(w) PROVE WorkerInv'
  BY <1>1, <1>16 DEF Watch, WatchPoolStopped, WatchPoll, RenewRead, RenewExtend, RenewCompare,
                     RenewGiveUp, StopWith, WatchAt, WatchAgain, poolVars
<1>17. ASSUME NEW p \in Pools, Start(p) \/ Recover(p) \/ DrainExpires(p) \/ Stop(p) \/ Exit(p)
       PROVE  WorkerInv'
  BY <1>1, <1>17 DEF Start, Recover, DrainExpires, Stop, Exit, workerVars, poolVars
<1>18. CASE Tick
  BY <1>1, <1>18 DEF Tick, workerVars, poolVars
<1>19. CASE UNCHANGED vars
  BY <1>1, <1>19 DEF vars, workerVars, poolVars
<1> QED
  BY <1>2, <1>3, <1>4, <1>5, <1>6, <1>7, <1>8, <1>9, <1>10, <1>11, <1>12, <1>13, <1>14, <1>15,
     <1>16, <1>17, <1>18, <1>19 DEF Next, RunTask, Lifecycle

(* A lease write leaves every lease that is running at least as it was.     *)
LEMMA ExtendKeepsLeases ==
    ASSUME TypeOK, NEW j, NEW c, NEW k \in Jobs, ExtendLease(j, c)
    PROVE  /\ UNCHANGED <<status, claim>>
           /\ lease[k] > 0 => lease'[k] > 0
BY DEF ExtendLease, TypeOK, StoreTypeOK

(* Every step keeps the row of an engaged worker claimed and leased, or     *)
(* records the lapse.                                                      *)
LEMMA EngagedHoldsStep == TypeOK /\ LeaseInv /\ [Next]_vars => EngagedHolds'
<1> SUFFICES ASSUME TypeOK, LeaseInv, [Next]_vars,
                    NEW v \in Workers, pc'[v] \in EngagedPCs, job'[v] \in Tasks,
                    ~lapsed'[job'[v]]
             PROVE  /\ claim'[job'[v]] = own'[v]
                    /\ \/ status'[job'[v]] = "cancelled"
                       \/ status'[job'[v]] = "running" /\ lease'[job'[v]] > 0
  BY DEF EngagedHolds
<1> DEFINE Held == /\ claim[job[v]] = own[v]
                   /\ \/ status[job[v]] = "cancelled"
                      \/ status[job[v]] = "running" /\ lease[job[v]] > 0
           Same == pc[v] \in EngagedPCs /\ job'[v] = job[v] /\ own'[v] = own[v]
<1>0. Same /\ ~lapsed[job[v]] => Held
  BY DEF LeaseInv, EngagedHolds
<1> USE DEF EngagedPCs, SettlePCs, Jobs
<1>1. ASSUME NEW j \in Jobs, Enqueue(j) PROVE Held'
  BY <1>0, <1>1 DEF Enqueue, Create, workerVars, TypeOK, StoreTypeOK
<1>2. ASSUME NEW j \in Jobs, RetryCheck(j) PROVE Held'
  BY <1>0, <1>2 DEF RetryCheck, workerVars, rowVars
<1>3. ASSUME NEW j \in Jobs, RetryJob(j) PROVE Held'
  <2>1. Same
    BY <1>3 DEF RetryJob, workerVars
  <2>2. CASE Retry(j) /\ lapsed' = [k \in Tasks |-> lapsed[k] \/ (k = j /\ Engaged(j))]
    <3>1. job[v] # j /\ ~lapsed[job[v]]
      BY <2>1, <2>2 DEF Engaged
    <3> QED
      BY <1>0, <2>1, <2>2, <3>1 DEF Retry, TypeOK, StoreTypeOK
  <2>3. CASE UNCHANGED <<rowVars, lapsed>>
    BY <1>0, <2>1, <2>3 DEF rowVars
  <2> QED
    BY <1>3, <2>2, <2>3 DEF RetryJob
<1>4. ASSUME NEW j \in Jobs, CancelJob(j) PROVE Held'
  BY <1>0, <1>4 DEF CancelJob, Cancel, workerVars, TypeOK, StoreTypeOK
<1>5. ASSUME NEW w \in Workers, Acquire(w) \/ AcquireInterrupted(w) PROVE Held'
  <2>1. PICK j \in Jobs : AcquireNext(j, NewClaim) /\ ForgetLapse(j)
    BY <1>5 DEF Acquire, AcquireInterrupted
  <2>2. Same
    BY <1>5 DEF Acquire, AcquireInterrupted, workerVars, TypeOK, WorkerTypeOK
  <2>3. ~lapsed[job[v]]
    BY <2>1, <2>2 DEF ForgetLapse, Engaged
  <2>4. job[v] # j
    BY <1>0, <2>1, <2>2, <2>3 DEF AcquireNext, Oldest
  <2> QED
    BY <1>0, <2>1, <2>2, <2>3, <2>4 DEF AcquireNext, TypeOK, StoreTypeOK
<1>6. ASSUME NEW w \in Workers, StoreInflight(w) PROVE Held'
  BY <1>0, <1>6 DEF StoreInflight, Goto, rowVars, TypeOK, WorkerTypeOK
<1>7. ASSUME NEW w \in Workers, TakeOver(w) PROVE Held'
  BY <1>0, <1>7 DEF TakeOver, rowVars, TypeOK, WorkerTypeOK
<1>8. ASSUME NEW w \in Workers, LeaseTakenOver(w) PROVE Held'
  <2>1. Same /\ ~lapsed[job[v]]
    BY <1>8 DEF LeaseTakenOver, Idle, TypeOK, WorkerTypeOK
  <2>2. CASE ExtendLease(job[w], own[w])
    BY <1>0, <2>1, <2>2, ExtendKeepsLeases
  <2>3. CASE UNCHANGED rowVars
    BY <1>0, <2>1, <2>3 DEF rowVars
  <2> QED
    BY <1>8, <2>2, <2>3 DEF LeaseTakenOver
<1>9. ASSUME NEW w \in Workers, LeaseTask(w) PROVE Held'
  <2>1. ExtendLease(job[w], own[w]) /\ job' = job /\ own' = own /\ lapsed' = lapsed
    BY <1>9 DEF LeaseTask
  <2>2. CASE v = w
    <3>1. Holds(job[w], own[w])
      BY <1>9, <2>2 DEF LeaseTask, TypeOK, WorkerTypeOK
    <3> QED
      BY <2>1, <2>2, <3>1 DEF ExtendLease, Holds, TypeOK, StoreTypeOK
  <2>3. CASE v # w
    <3>1. Same /\ ~lapsed[job[v]]
      BY <1>9, <2>1, <2>3 DEF LeaseTask, TypeOK, WorkerTypeOK
    <3> QED
      BY <1>0, <2>1, <3>1, ExtendKeepsLeases
  <2> QED
    BY <2>2, <2>3
<1>10. ASSUME NEW w \in Workers, LeaseError(w) PROVE Held'
  <2>1. job' = job /\ own' = own /\ UNCHANGED rowVars
    BY <1>10 DEF LeaseError, Goto
  <2>2. v # w /\ ~lapsed[job[v]]
    BY <1>10, <2>1 DEF LeaseError
  <2>3. Same
    BY <1>10, <2>1, <2>2 DEF LeaseError, Goto, TypeOK, WorkerTypeOK
  <2> QED
    BY <1>0, <2>1, <2>2, <2>3 DEF rowVars
<1>11. ASSUME NEW w \in Workers, HandlerReturns(w) PROVE Held'
  <2>1. Same /\ ~lapsed[job[v]]
    BY <1>11 DEF HandlerReturns, Goto, TypeOK, WorkerTypeOK
  <2> QED
    BY <1>0, <1>11, <2>1 DEF HandlerReturns, rowVars
<1>12. ASSUME NEW w \in Workers, Release(w) PROVE Held'
  <2>1. Same /\ ~lapsed[job[v]] /\ v # w
    BY <1>12 DEF Release, Goto, TypeOK, WorkerTypeOK
  <2>2. job[w] = job[v] => ~Holds(job[w], tok[w])
    BY <1>0, <2>1 DEF Holds, LeaseInv, WorkerInv, TokOwner
  <2> QED
    BY <1>0, <1>12, <2>1, <2>2 DEF Release, ReleaseLease, TypeOK, StoreTypeOK
<1>13. ASSUME NEW w \in Workers, Leave(w) PROVE Held'
  BY <1>0, <1>13 DEF Leave, Idle, rowVars, TypeOK, WorkerTypeOK
<1>14. ASSUME NEW w \in Workers, Watch(w) PROVE Held'
  <2>1. Same /\ ~lapsed[job[v]]
    BY <1>14 DEF Watch, WatchPoolStopped, WatchPoll, RenewRead, RenewExtend, RenewCompare,
                 RenewGiveUp, StopWith, WatchAt, WatchAgain
  <2>2. ExtendLease(job[w], wtok[w]) \/ UNCHANGED rowVars
    BY <1>14 DEF Watch, WatchPoolStopped, WatchPoll, RenewRead, RenewExtend, RenewCompare,
                 RenewGiveUp, StopWith
  <2>3. CASE ExtendLease(job[w], wtok[w])
    BY <1>0, <2>1, <2>3, ExtendKeepsLeases
  <2>4. CASE UNCHANGED rowVars
    BY <1>0, <2>1, <2>4 DEF rowVars
  <2> QED
    BY <2>2, <2>3, <2>4
<1>15. ASSUME NEW w \in Workers, Process(w) PROVE Held'
  <2>1. Same /\ ~lapsed[job[v]]
    BY <1>15 DEF Process, Goto, TypeOK, WorkerTypeOK, LeaseInv, WorkerInv, WorkerHasJob
  <2> QED
    BY <1>0, <1>15, <2>1 DEF Process, rowVars
<1>16. ASSUME NEW w \in Workers, Settle(w) PROVE Held'
  <2>1. Same /\ ~lapsed[job[v]]
    <3>1. lapsed' = lapsed /\ (pc[w] \in SettlePCs \/ Return(w))
      BY <1>16 DEF Settle, CompleteJob, FailJob, RetryGet, RetryOrFail, SettleError
    <3>2. \/ \E l \in {"failing", "retrying", "leaving"} : Goto(w, l)
          \/ Idle(w)
      BY <1>16, SettleMoves DEF LeaseInv
    <3>3. v # w => Same
      BY <3>2 DEF Goto, Idle, TypeOK, WorkerTypeOK
    <3>4. pc'[w] \in EngagedPCs => \E l \in {"failing", "retrying"} : Goto(w, l)
      BY <3>2 DEF Goto, Idle, TypeOK, WorkerTypeOK
    <3>5. v = w => pc[w] \in SettlePCs
      BY <3>1 DEF Return, Goto, Idle, TypeOK, WorkerTypeOK
    <3> QED
      BY <3>1, <3>3, <3>4, <3>5 DEF Goto
  <2>2. pc[w] \in EngagedPCs /\ job[w] = job[v] => v = w
    BY <1>0, <2>1 DEF LeaseInv, EngagedHolds, WorkerInv, OwnUnique, WorkerHasJob
  <2>3. CASE CompleteJob(w) \/ FailJob(w)
    <3>1. v # w
      BY <2>3 DEF CompleteJob, FailJob, Return, Goto, Idle, TypeOK, WorkerTypeOK
    <3> QED
      BY <1>0, <2>1, <2>2, <2>3, <3>1
         DEF CompleteJob, FailJob, Complete, Fail, TypeOK, StoreTypeOK
  <2>4. CASE RetryOrFail(w) /\ Retry(job[w]) /\ Return(w)
    <3>1. v # w
      BY <2>4 DEF RetryOrFail, Return, Goto, Idle, TypeOK, WorkerTypeOK
    <3> QED
      BY <1>0, <2>1, <2>2, <2>4, <3>1 DEF RetryOrFail, Retry, TypeOK, StoreTypeOK
  <2>5. CASE UNCHANGED rowVars
    BY <1>0, <2>1, <2>5 DEF rowVars
  <2> QED
    BY <1>16, <2>3, <2>4, <2>5 DEF Settle, RetryGet, RetryOrFail, SettleError
<1>17. ASSUME NEW p \in Pools, Start(p) \/ Recover(p) PROVE Held'
  <2>1. Same /\ ~lapsed[job[v]]
    BY <1>17 DEF Start, Recover, workerVars
  <2>2. PICK t : RecoverStale(t)
    BY <1>17 DEF Start, Recover
  <2>3. job[v] \notin StaleJobs(t)
    BY <1>0, <2>1 DEF StaleJobs, IsStale, NoLease
  <2> QED
    BY <1>0, <2>1, <2>2, <2>3 DEF RecoverStale
<1>18. ASSUME NEW p \in Pools, DrainExpires(p) \/ Stop(p) \/ Exit(p) PROVE Held'
  BY <1>0, <1>18 DEF DrainExpires, Stop, Exit, workerVars, rowVars
<1>19. ASSUME NEW p \in Pools, Crash(p) \/ ExitUndrained(p) PROVE Held'
  <2>1. Dies(p)
    BY <1>19 DEF Crash, ExitUndrained
  <2> QED
    BY <1>0, <2>1 DEF Dies, rowVars
<1>20. CASE Tick
  <2>1. Same /\ ~lapsed[job[v]]
    BY <1>20 DEF Tick, workerVars
  <2>2. ~(job[v] \in Expiring)
    BY <1>20, <2>1 DEF Tick, Engaged, Expiring
  <2> QED
    BY <1>0, <1>20, <2>1, <2>2 DEF Tick, Elapse, Expiring, NoLease, TypeOK, StoreTypeOK
<1>21. CASE UNCHANGED vars
  BY <1>0, <1>21 DEF vars, workerVars, rowVars
<1> QED
  BY <1>1, <1>2, <1>3, <1>4, <1>5, <1>6, <1>7, <1>8, <1>9, <1>10, <1>11, <1>12, <1>13, <1>14,
     <1>15, <1>16, <1>17, <1>18, <1>19, <1>20, <1>21 DEF Next, Client, RunTask, Lifecycle

(* LeaseInv holds in every reachable state.                                 *)
THEOREM LeaseInvariant == Spec => []LeaseInv
<1>1. Init => LeaseInv
  BY DEF Init, LeaseInv, WorkerInv, WorkerHasJob, OwnUnique, InflightOwner, TokOwner, TokUnique,
         EngagedHolds, TrackedPCs, SettlePCs, EngagedPCs
<1>2. TypeOK /\ LeaseInv /\ [Next]_vars => LeaseInv'
  BY WorkerInvStep, EngagedHoldsStep DEF LeaseInv
<1> QED
  BY <1>1, <1>2, TypeCorrect, PTL DEF Spec

(* At most one worker of all pools runs or settles a task job as long as    *)
(* its lease has not lapsed under it: startup recovery, shutdown, crash    *)
(* and cancel never hand the job to a second one.                          *)
THEOREM Exclusive == Spec => []LeaseHolderIsAlone
<1>1. LeaseInv => LeaseHolderIsAlone
  BY DEF LeaseInv, EngagedHolds, WorkerInv, OwnUnique, WorkerHasJob, LeaseHolderIsAlone,
         EngagedPCs, SettlePCs
<1> QED
  BY <1>1, LeaseInvariant, PTL

(* The inflight map keeps a pool from running two handlers of one job, even *)
(* after its lease lapsed.                                                 *)
THEOREM PoolRunsJobOnce == Spec => []OneHandlerPerPool
<1>1. LeaseInv => OneHandlerPerPool
  BY DEF LeaseInv, WorkerInv, InflightOwner, WorkerHasJob, OneHandlerPerPool, TrackedPCs, SettlePCs
<1> QED
  BY <1>1, LeaseInvariant, PTL

(* Of all handlers running a job, at most one can renew its lease.          *)
THEOREM RenewerUnique == Spec => []OneRenewer
<1>1. LeaseInv => OneRenewer
  BY DEF LeaseInv, WorkerInv, TokUnique, OneRenewer, Holds
<1> QED
  BY <1>1, LeaseInvariant, PTL

----------------------------------------------------------------------------

(* No interleaving of operator and worker retries spends more than          *)
(* max_retries.                                                            *)
THEOREM RetriesBounded == Spec => []RetryBudget
<1>1. Init => RetryBudget
  BY DEF Init, StoreInit, RetryBudget
<1>2. TypeOK /\ RetryBudget /\ [Next]_vars => RetryBudget'
  <2> SUFFICES ASSUME TypeOK, RetryBudget, [Next]_vars PROVE RetryBudget'
    OBVIOUS
  <2>1. CASE UNCHANGED retries
    BY <2>1 DEF RetryBudget
  <2>2. ASSUME NEW j, Retry(j) PROVE RetryBudget'
    BY <2>2 DEF Retry, CanRetry, RetryBudget, TypeOK, StoreTypeOK
  <2>3. ASSUME NEW j \in Jobs, Client(j) PROVE RetryBudget'
    BY <2>1, <2>2, <2>3 DEF Client, Enqueue, Create, RetryCheck, RetryJob, CancelJob, Cancel, rowVars
  <2>4. ASSUME NEW w \in Workers, Acquire(w) \/ AcquireInterrupted(w) PROVE RetryBudget'
    BY <2>1, <2>4 DEF Acquire, AcquireInterrupted, AcquireNext
  <2>5. ASSUME NEW w \in Workers, RunTask(w) \/ Process(w) PROVE RetryBudget'
    BY <2>1, <2>5 DEF RunTask, Process, StoreInflight, TakeOver, LeaseTakenOver, LeaseTask, LeaseError,
                      HandlerReturns, Release, Leave, ExtendLease, ReleaseLease, rowVars
  <2>6. ASSUME NEW w \in Workers, Watch(w) PROVE RetryBudget'
    BY <2>1, <2>6 DEF Watch, WatchPoolStopped, WatchPoll, RenewRead, RenewExtend, RenewCompare,
                      RenewGiveUp, StopWith, ExtendLease, rowVars
  <2>7. ASSUME NEW w \in Workers, Settle(w) PROVE RetryBudget'
    BY <2>1, <2>2, <2>7 DEF Settle, CompleteJob, FailJob, RetryGet, RetryOrFail, SettleError,
                            Complete, Fail, rowVars
  <2>8. ASSUME NEW p \in Pools, Lifecycle(p) PROVE RetryBudget'
    BY <2>1, <2>8 DEF Lifecycle, Start, Recover, DrainExpires, Stop, Exit, Crash, ExitUndrained,
                            Dies, RecoverStale, rowVars
  <2>9. CASE Tick
    BY <2>1, <2>9 DEF Tick, Elapse
  <2>10. CASE UNCHANGED vars
    BY <2>1, <2>10 DEF vars, rowVars
  <2> QED
    BY <2>3, <2>4, <2>5, <2>6, <2>7, <2>8, <2>9, <2>10 DEF Next
<1> QED
  BY <1>1, <1>2, TypeCorrect, PTL DEF Spec

(* A handler starts only on a row that runs under its worker's claim with a *)
(* full lease.                                                             *)
THEOREM HandlerStartsLeased == Spec => StartsUnderLease
<1> DEFINE Started(w) == pc[w] # "running" /\ pc'[w] = "running"
           Leased(w) == /\ status'[job[w]] = "running"
                        /\ claim'[job[w]] = own[w]
                        /\ lease'[job[w]] = LeaseTTL
<1>1. TypeOK /\ LeaseInv /\ [Next]_vars => \A w \in Workers : Started(w) => Leased(w)
  <2> SUFFICES ASSUME TypeOK, LeaseInv, [Next]_vars, NEW w \in Workers, Started(w) PROVE Leased(w)
    OBVIOUS
  <2>1. LeaseTask(w)
    <3> USE DEF TypeOK, WorkerTypeOK, workerVars, Goto, Idle
    <3>1. ASSUME NEW j \in Jobs, Client(j) PROVE FALSE
      BY <3>1 DEF Client, Enqueue, RetryCheck, RetryJob, CancelJob
    <3>2. ASSUME NEW u \in Workers, Acquire(u) \/ AcquireInterrupted(u) PROVE FALSE
      BY <3>2 DEF Acquire, AcquireInterrupted
    <3>3. ASSUME NEW u \in Workers, RunTask(u) PROVE LeaseTask(w)
      <4>1. CASE HandlerReturns(u)
        BY <4>1, SettleAtPC DEF HandlerReturns
      <4> QED
        BY <3>3, <4>1 DEF RunTask, StoreInflight, TakeOver, LeaseTakenOver, LeaseTask, LeaseError,
                          Release, Leave
    <3>4. ASSUME NEW u \in Workers, Process(u) PROVE FALSE
      BY <3>4 DEF Process
    <3>5. ASSUME NEW u \in Workers, Watch(u) PROVE FALSE
      BY <3>5 DEF Watch, WatchPoolStopped, WatchPoll, RenewRead, RenewExtend, RenewCompare,
                  RenewGiveUp, StopWith, WatchAt, WatchAgain
    <3>6. ASSUME NEW u \in Workers, Settle(u) PROVE FALSE
      BY <3>6, SettleMoves DEF LeaseInv
    <3>7. ASSUME NEW p \in Pools, Lifecycle(p) PROVE FALSE
      BY <3>7 DEF Lifecycle, Start, Recover, DrainExpires, Stop, Exit, Crash, ExitUndrained, Dies
    <3> QED
      BY <3>1, <3>2, <3>3, <3>4, <3>5, <3>6, <3>7 DEF Next, Tick, vars
  <2>2. Holds(job[w], own[w])
    BY <2>1 DEF LeaseTask, TypeOK, WorkerTypeOK
  <2> QED
    BY <2>1, <2>2 DEF LeaseTask, ExtendLease, Holds, TypeOK, StoreTypeOK, LeaseInv, WorkerInv, WorkerHasJob
<1> QED
  BY <1>1, TypeCorrect, LeaseInvariant, PTL DEF Spec, StartsUnderLease

=============================================================================
