--------------------------- MODULE TaskRunProofs ---------------------------
(* The worker pools implement TaskRun, for every number of jobs, workers,  *)
(* pools, claims and faults.                                               *)
EXTENDS WorkerPoolProofs

USE JobsAssumption, WorkersAssumption

----------------------------------------------------------------------------
(* Jobs that operators and workers have exist.                             *)

(* No statement of JobStore takes a row away, and each leaves alone the     *)
(* rows it does not name.                                                  *)
LEMMA RowsStay ==
    ASSUME TypeOK, [Next]_vars, NEW j \in Jobs, status[j] # "absent"
    PROVE  status'[j] # "absent"
<1> USE DEF TypeOK, StoreTypeOK
<1>1. CASE UNCHANGED status
  BY <1>1
<1>2. ASSUME NEW k \in Jobs, Client(k) PROVE status'[j] # "absent"
  BY <1>1, <1>2 DEF Client, Enqueue, Create, RetryCheck, RetryJob, Retry, CancelJob, Cancel, rowVars
<1>3. ASSUME NEW w \in Workers, Acquire(w) \/ AcquireInterrupted(w) PROVE status'[j] # "absent"
  BY <1>3 DEF Acquire, AcquireInterrupted, AcquireNext
<1>4. ASSUME NEW w \in Workers, RunTask(w) \/ Process(w) PROVE status'[j] # "absent"
  BY <1>1, <1>4 DEF RunTask, Process, StoreInflight, TakeOver, LeaseTakenOver, LeaseTask, LeaseError,
                    HandlerReturns, Release, Leave, ExtendLease, ReleaseLease, rowVars
<1>5. ASSUME NEW w \in Workers, Watch(w) PROVE status'[j] # "absent"
  BY <1>1, <1>5 DEF Watch, WatchPoolStopped, WatchPoll, RenewRead, RenewExtend, RenewCompare,
                    RenewGiveUp, StopWith, ExtendLease, rowVars
<1>6. ASSUME NEW w \in Workers, Settle(w) PROVE status'[j] # "absent"
  BY <1>1, <1>6 DEF Settle, CompleteJob, FailJob, RetryGet, RetryOrFail, SettleError,
                    Complete, Fail, Retry, rowVars
<1>7. ASSUME NEW p \in Pools, Lifecycle(p) PROVE status'[j] # "absent"
  BY <1>1, <1>7 DEF Lifecycle, Start, Recover, DrainExpires, Stop, Exit, Crash, ExitUndrained, Dies,
                    RecoverStale, rowVars
<1>8. CASE Tick
  BY <1>1, <1>8 DEF Tick, Elapse
<1>9. CASE UNCHANGED vars
  BY <1>1, <1>9 DEF vars, rowVars
<1> QED
  BY <1>2, <1>3, <1>4, <1>5, <1>6, <1>7, <1>8, <1>9 DEF Next

(* A worker keeps its job until it is idle again, and gets one only from    *)
(* AcquireNext, which makes it running.                                    *)
LEMMA JobsAreAcquired ==
    ASSUME TypeOK, WorkerInv, [Next]_vars, NEW v \in Workers, pc'[v] # "idle"
    PROVE  \/ pc[v] # "idle" /\ job'[v] = job[v]
           \/ job'[v] \in Jobs /\ status'[job'[v]] = "running"
<1> USE DEF TypeOK, WorkerTypeOK, StoreTypeOK
<1>1. CASE UNCHANGED <<pc, job>>
  BY <1>1
<1>2. ASSUME NEW w \in Workers, Acquire(w) PROVE \/ pc[v] # "idle" /\ job'[v] = job[v]
                                                 \/ job'[v] \in Jobs /\ status'[job'[v]] = "running"
  BY <1>2 DEF Acquire, AcquireNext
<1> DEFINE Keeps == pc[v] # "idle" /\ job'[v] = job[v]
<1>3. ASSUME NEW w \in Workers, RunTask(w) \/ Process(w) PROVE Keeps
  BY <1>3 DEF RunTask, Process, StoreInflight, TakeOver, LeaseTakenOver, LeaseTask, LeaseError,
              HandlerReturns, Release, Leave, Goto, Idle
<1>4. ASSUME NEW w \in Workers, Settle(w) PROVE Keeps
  BY <1>4, SettleMoves DEF Goto, Idle, SettlePCs
<1>5. ASSUME NEW p \in Pools, Crash(p) \/ ExitUndrained(p) PROVE Keeps
  BY <1>5 DEF Crash, ExitUndrained, Dies
<1>6. ASSUME NEW j \in Jobs, Client(j) PROVE UNCHANGED <<pc, job>>
  BY <1>6 DEF Client, Enqueue, RetryCheck, RetryJob, CancelJob, workerVars
<1>7. ASSUME NEW w \in Workers, AcquireInterrupted(w) \/ Watch(w) PROVE UNCHANGED <<pc, job>>
  BY <1>7 DEF AcquireInterrupted, Watch, WatchPoolStopped, WatchPoll, RenewRead, RenewExtend,
              RenewCompare, RenewGiveUp, StopWith, WatchAt, WatchAgain, workerVars
<1>8. ASSUME NEW p \in Pools, Start(p) \/ Recover(p) \/ DrainExpires(p) \/ Stop(p) \/ Exit(p)
      PROVE  UNCHANGED <<pc, job>>
  BY <1>8 DEF Start, Recover, DrainExpires, Stop, Exit, workerVars
<1>9. CASE Tick \/ UNCHANGED vars
  BY <1>1, <1>9 DEF Tick, vars, workerVars
<1> QED
  BY <1>1, <1>2, <1>3, <1>4, <1>5, <1>6, <1>7, <1>8, <1>9 DEF Next, Lifecycle

(* An operator asks for the retry of a row that is there.                   *)
LEMMA AskedExist ==
    ASSUME TypeOK, [Next]_vars, NEW j \in asked', j \notin asked
    PROVE  j \in Jobs /\ status[j] # "absent"
<1>1. ASSUME NEW k \in Jobs, Client(k) PROVE j \in Jobs /\ status[j] # "absent"
  BY <1>1 DEF Client, Enqueue, RetryCheck, RetryJob, CancelJob
<1>2. ASSUME NEW w \in Workers, Acquire(w) \/ AcquireInterrupted(w) \/ Process(w) PROVE FALSE
  BY <1>2 DEF Acquire, AcquireInterrupted, Process
<1>3. ASSUME NEW w \in Workers, RunTask(w) \/ Watch(w) \/ Settle(w) PROVE FALSE
  BY <1>3 DEF RunTask, StoreInflight, TakeOver, LeaseTakenOver, LeaseTask, LeaseError,
              HandlerReturns, Release, Leave, Watch, WatchPoolStopped, WatchPoll, RenewRead,
              RenewExtend, RenewCompare, RenewGiveUp, StopWith, WatchAt, WatchAgain,
              Settle, CompleteJob, FailJob, RetryGet, RetryOrFail, SettleError
<1>4. ASSUME NEW p \in Pools, Lifecycle(p) PROVE FALSE
  BY <1>4 DEF Lifecycle, Start, Recover, DrainExpires, Stop, Exit, Crash, ExitUndrained, Dies
<1>5. ~(Tick \/ UNCHANGED vars)
  BY DEF Tick, vars
<1> QED
  BY <1>1, <1>2, <1>3, <1>4, <1>5 DEF Next

(* The jobs operators ask about and workers have are rows of the table.     *)
LEMMA InsertedAlways == Spec => []Inserted
<1>1. Init => Inserted
  BY DEF Init, Inserted
<1>2. TypeOK /\ LeaseInv /\ Inserted /\ [Next]_vars => Inserted'
  <2> SUFFICES ASSUME TypeOK, LeaseInv, Inserted, [Next]_vars PROVE Inserted'
    OBVIOUS
  <2>1. ASSUME NEW j \in asked' PROVE status'[j] # "absent"
    BY <2>1, RowsStay, AskedExist DEF Inserted, TypeOK
  <2>2. ASSUME NEW v \in Workers, pc'[v] # "idle" PROVE status'[job'[v]] # "absent"
    BY <2>2, RowsStay, JobsAreAcquired DEF Inserted, LeaseInv, WorkerInv, WorkerHasJob
  <2> QED
    BY <2>1, <2>2 DEF Inserted
<1> QED
  BY <1>1, <1>2, TypeCorrect, LeaseInvariant, PTL DEF Spec

----------------------------------------------------------------------------
(* The mapping.  A worker is one of a task's runners while it is engaged    *)
(* with it, so a step moves at most the worker that takes it.              *)

(* The job w is engaged with.                                               *)
Busy(w) == IF pc[w] \in EngagedPCs THEN job[w] ELSE NoJob

(* What a step of one worker does to the runners.                           *)
LEMMA RunnersMove ==
    ASSUME NEW w \in Workers, \A v \in Workers \ {w} : Busy(v)' = Busy(v)
    PROVE  /\ Busy(w)' = Busy(w) => Runners' = Runners
           /\ Busy(w)' \notin Tasks => Runners' = [k \in Tasks |-> Runners[k] \ {w}]
           /\ \A j \in Tasks : Busy(w) = j /\ Busy(w)' \notin Tasks
                 => Runners' = [Runners EXCEPT ![j] = @ \ {w}]
           /\ \A j \in Tasks : Busy(w) \notin Tasks /\ Busy(w)' = j
                 => Runners' = [Runners EXCEPT ![j] = @ \cup {w}]
<1>1. Runners = [k \in Tasks |-> {v \in Workers : Busy(v) = k}]
  BY DEF Runners, Busy, Jobs
<1>2. Runners' = [k \in Tasks |-> {v \in Workers : Busy(v)' = k}]
  BY DEF Runners, Busy, Jobs
<1> HIDE DEF Busy
<1>3. Busy(w)' = Busy(w) => Runners' = Runners
  BY <1>1, <1>2
<1>4. Busy(w)' \notin Tasks => Runners' = [k \in Tasks |-> Runners[k] \ {w}]
  BY <1>1, <1>2
<1>5. ASSUME NEW j \in Tasks, Busy(w) = j, Busy(w)' \notin Tasks
      PROVE  Runners' = [Runners EXCEPT ![j] = @ \ {w}]
  <2>1. Runners'[j] = Runners[j] \ {w}
    BY <1>1, <1>2, <1>5
  <2>2. \A k \in Tasks \ {j} : Runners'[k] = Runners[k]
    BY <1>1, <1>2, <1>5
  <2> HIDE DEF Runners
  <2> QED
    BY <1>1, <1>2, <2>1, <2>2
<1>6. ASSUME NEW j \in Tasks, Busy(w) \notin Tasks, Busy(w)' = j
      PROVE  Runners' = [Runners EXCEPT ![j] = @ \cup {w}]
  <2>1. Runners'[j] = Runners[j] \cup {w}
    BY <1>1, <1>2, <1>6
  <2>2. \A k \in Tasks \ {j} : Runners'[k] = Runners[k]
    BY <1>1, <1>2, <1>6
  <2> HIDE DEF Runners
  <2> QED
    BY <1>1, <1>2, <2>1, <2>2
<1> QED
  BY <1>3, <1>4, <1>5, <1>6

(* A step that engages and disengages nobody leaves the runners alone.      *)
LEMMA RunnersStay == (\A v \in Workers : Busy(v)' = Busy(v)) => Runners' = Runners
<1> SUFFICES ASSUME \A v \in Workers : Busy(v)' = Busy(v) PROVE Runners' = Runners
  OBVIOUS
<1>1. \A v \in Workers, k \in Tasks :
         (job[v] = k /\ pc[v] \in EngagedPCs) <=> (job'[v] = k /\ pc'[v] \in EngagedPCs)
  BY DEF Busy, Jobs
<1> QED
  BY <1>1 DEF Runners

(* Who is a runner of j.                                                    *)
LEMMA RunnersAre ==
    ASSUME NEW j \in Tasks, NEW w
    PROVE  w \in Runners[j] <=> w \in Workers /\ Busy(w) = j
BY DEF Runners, Busy, Jobs

(* Until a lapse, an engaged worker is the only one, and its row is running *)
(* under its claim, or cancelled.                                          *)
LEMMA RunnerHolds ==
    ASSUME LeaseInv, NEW w \in Workers, NEW j \in Tasks, Busy(w) = j, ~lapsed[j]
    PROVE  /\ Runners[j] = {w}
           /\ claim[j] = own[w]
           /\ status[j] \in {"running", "cancelled"}
           /\ status[j] = "running" => lease[j] > 0
<1>1. \A v \in Workers : Busy(v) = j =>
         /\ claim[j] = own[v] /\ own[v] # NoClaim
         /\ status[j] \in {"running", "cancelled"}
         /\ status[j] = "running" => lease[j] > 0
  BY DEF Busy, LeaseInv, EngagedHolds, WorkerInv, WorkerHasJob, EngagedPCs, SettlePCs, Jobs
<1>2. \A v \in Workers : Busy(v) = j => v = w
  BY <1>1 DEF LeaseInv, WorkerInv, OwnUnique
<1> QED
  BY <1>1, <1>2, RunnersAre DEF Runners

----------------------------------------------------------------------------
(* Every step of the pools is a step of TaskRun or none.                   *)

(* A step that leaves statuses, retries, lapses and engagements alone.      *)
LEMMA RunStutters ==
    ASSUME UNCHANGED <<status, retries, lapsed>>, \A v \in Workers : Busy(v)' = Busy(v)
    PROVE  UNCHANGED Run!vars
BY RunnersStay DEF Run!vars

(* Clients: inserts, operators' retries and cancels.                        *)
LEMMA ClientRun ==
    ASSUME TypeOK, Inserted, NEW j \in Jobs, Client(j)
    PROVE  [Run!Next]_Run!vars
<1> DEFINE S == [k \in Tasks |-> status[k]]
           R == [k \in Tasks |-> retries[k]]
<1>1. Runners' = Runners
  BY RunnersStay DEF Client, Enqueue, RetryCheck, RetryJob, CancelJob, workerVars, Busy
<1>2. CASE j \notin Tasks
  <2>1. S' = S /\ R' = R /\ lapsed' = lapsed
    BY <1>2 DEF Client, Enqueue, Create, RetryCheck, RetryJob, Retry, CancelJob, Cancel, rowVars,
                TypeOK, StoreTypeOK, Jobs
  <2> QED
    BY <1>1, <2>1 DEF Run!vars
<1>3. ASSUME j \in Tasks, Enqueue(j) PROVE Run!Submit(j)
  BY <1>1, <1>3 DEF Enqueue, Create, Run!Submit, TypeOK, StoreTypeOK, Jobs
<1>4. ASSUME j \in Tasks, CancelJob(j) PROVE Run!Cancel(j)
  BY <1>1, <1>4 DEF CancelJob, Cancel, Run!Cancel, TypeOK, StoreTypeOK, Jobs
<1>5. ASSUME j \in Tasks, RetryJob(j), Retry(j) PROVE Run!Retry(j)
  <2>1. Run!Requeues(j)
    BY <1>5 DEF Retry, CanRetry, Run!Requeues, TypeOK, StoreTypeOK, Jobs
  <2>2. Engaged(j) <=> Runners[j] # {}
    BY <1>5 DEF Engaged, Runners
  <2>3. lapsed' = [lapsed EXCEPT ![j] = @ \/ Runners[j] # {}]
    BY <1>5, <2>2 DEF RetryJob, Retry, CanRetry, TypeOK
  <2>4. status[j] # "absent"
    BY <1>5 DEF RetryJob, Inserted
  <2> QED
    BY <1>1, <1>5, <2>1, <2>3, <2>4 DEF Run!Retry
<1>6. ASSUME RetryCheck(j) \/ (RetryJob(j) /\ ~Retry(j)) PROVE UNCHANGED Run!vars
  BY <1>1, <1>6 DEF RetryCheck, RetryJob, rowVars, Run!vars
<1> QED
  BY <1>2, <1>3, <1>4, <1>5, <1>6 DEF Client, Run!Next

(* AcquireNext claims a task, whether or not its worker hears of it.        *)
LEMMA ClaimRun ==
    ASSUME TypeOK, LeaseInv, NEW w \in Workers, Acquire(w) \/ AcquireInterrupted(w)
    PROVE  [Run!Next]_Run!vars
<1>1. PICK j \in Jobs : AcquireNext(j, NewClaim) /\ ForgetLapse(j)
  BY DEF Acquire, AcquireInterrupted
<1>2. Runners' = Runners
  BY RunnersStay DEF Acquire, AcquireInterrupted, workerVars, Busy, TypeOK, WorkerTypeOK,
                     EngagedPCs, SettlePCs
<1>3. CASE j \in Tasks
  <2>1. Engaged(j) <=> Runners[j] # {}
    BY <1>3 DEF Engaged, Runners
  <2>2. lapsed' = [lapsed EXCEPT ![j] = @ /\ Runners[j] # {}]
    BY <1>1, <1>3, <2>1 DEF ForgetLapse, TypeOK
  <2>3. Run!Claim(j)
    BY <1>1, <1>2, <1>3, <2>2 DEF AcquireNext, Oldest, Run!Claim, TypeOK, StoreTypeOK, Jobs
  <2> QED
    BY <1>3, <2>3 DEF Run!Next
<1>4. CASE j \notin Tasks
  <2>1. lapsed' = lapsed
    BY <1>1, <1>4 DEF ForgetLapse, TypeOK
  <2> QED
    BY <1>1, <1>2, <1>4, <2>1 DEF AcquireNext, Run!vars, TypeOK, StoreTypeOK, Jobs
<1> QED
  BY <1>3, <1>4

(* The start of a handler, its end, and everything before and between.      *)
LEMMA TaskStepRun ==
    ASSUME TypeOK, LeaseInv, Inserted, NEW w \in Workers, RunTask(w) \/ Process(w) \/ Watch(w)
    PROVE  [Run!Next]_Run!vars
<1> USE DEF TypeOK, WorkerTypeOK, EngagedPCs, SettlePCs
<1>1. \A v \in Workers \ {w} : Busy(v)' = Busy(v)
  BY DEF RunTask, Process, StoreInflight, TakeOver, LeaseTakenOver, LeaseTask, LeaseError,
         HandlerReturns, Release, Leave, Watch, WatchPoolStopped, WatchPoll, RenewRead, RenewExtend,
         RenewCompare, RenewGiveUp, StopWith, WatchAt, WatchAgain, Goto, Idle, Busy
<1>2. UNCHANGED <<status, retries>>
  BY DEF RunTask, Process, StoreInflight, TakeOver, LeaseTakenOver, LeaseTask, LeaseError,
         HandlerReturns, Release, Leave, Watch, WatchPoolStopped, WatchPoll, RenewRead, RenewExtend,
         RenewCompare, RenewGiveUp, StopWith, ExtendLease, ReleaseLease, rowVars
<1>3. ASSUME Busy(w)' = Busy(w), UNCHANGED lapsed PROVE UNCHANGED Run!vars
  BY <1>1, <1>2, <1>3, RunStutters
<1>4. CASE StoreInflight(w) \/ TakeOver(w) \/ LeaseTakenOver(w) \/ Release(w) \/ Leave(w)
  BY <1>3, <1>4 DEF StoreInflight, TakeOver, LeaseTakenOver, Release, Leave, Goto, Idle, Busy
<1>5. CASE Watch(w)
  BY <1>3, <1>5 DEF Watch, WatchPoolStopped, WatchPoll, RenewRead, RenewExtend,
                    RenewCompare, RenewGiveUp, StopWith, WatchAt, WatchAgain, Busy
<1>6. CASE Process(w)
  <2>1. job[w] \notin Tasks /\ UNCHANGED <<job, lapsed>>
    BY <1>6 DEF Process, Goto, LeaseInv, WorkerInv, WorkerHasJob
  <2>2. Busy(w) \notin Tasks /\ Busy(w)' \notin Tasks
    BY <2>1 DEF Busy, Jobs
  <2>3. Runners' = Runners
    BY <1>1, <2>2 DEF Runners, Busy, Jobs
  <2> QED
    BY <1>2, <2>1, <2>3 DEF Run!vars
<1>7. CASE LeaseTask(w)
  <2>1. job[w] \in Tasks /\ UNCHANGED <<job, lapsed>>
    BY <1>7 DEF LeaseTask, LeaseInv, WorkerInv, WorkerHasJob, TrackedPCs
  <2>2. CASE Holds(job[w], own[w])
    <3>1. status[job[w]] = "running" /\ claim[job[w]] = own[w] /\ own[w] # NoClaim
      BY <2>2 DEF Holds
    <3>2. Busy(w) = NoJob /\ Busy(w)' = job[w]
      BY <1>7, <2>1, <2>2 DEF LeaseTask, Busy
    <3>3. ASSUME NEW v \in Workers, Busy(v) = job[w], ~lapsed[job[w]] PROVE FALSE
      <4>1. own[v] = own[w]
        BY <2>1, <3>1, <3>3, RunnerHolds
      <4> QED
        BY <2>1, <3>1, <3>2, <3>3, <4>1 DEF LeaseInv, WorkerInv, OwnUnique, Jobs
    <3>4. Run!Free(job[w])
      BY <2>1, <3>3, RunnersAre DEF Run!Free, Runners
    <3>5. Runners' = [Runners EXCEPT ![job[w]] = @ \cup {w}]
      BY <1>1, <2>1, <3>2, RunnersMove DEF Jobs
    <3>6. Run!Begin(w, job[w])
      BY <1>2, <2>1, <3>1, <3>4, <3>5 DEF Run!Begin
    <3> QED
      BY <2>1, <3>6 DEF Run!Next
  <2>3. CASE ~Holds(job[w], own[w])
    BY <1>3, <1>7, <2>1, <2>3 DEF LeaseTask, Busy
  <2> QED
    BY <2>2, <2>3
<1>8. CASE LeaseError(w)
  <2>1. job[w] \in Tasks /\ UNCHANGED job /\ status[job[w]] # "absent"
    BY <1>8 DEF LeaseError, Goto, LeaseInv, WorkerInv, WorkerHasJob, TrackedPCs, Inserted
  <2>2. Busy(w) = NoJob /\ Busy(w)' = job[w]
    BY <1>8, <2>1 DEF LeaseError, Goto, Busy
  <2>3. Runners' = [Runners EXCEPT ![job[w]] = @ \cup {w}]
    BY <1>1, <2>1, <2>2, RunnersMove DEF Jobs
  <2>4. lapsed' = [lapsed EXCEPT ![job[w]] = TRUE]
    BY <1>8, <2>1 DEF LeaseError
  <2>5. Run!BeginBroken(w, job[w])
    BY <1>2, <2>1, <2>3, <2>4 DEF Run!BeginBroken
  <2> QED
    BY <2>1, <2>5 DEF Run!Next
<1>9. CASE HandlerReturns(w)
  <2>1. job[w] \in Tasks /\ UNCHANGED <<job, lapsed>> /\ Busy(w) = job[w]
    BY <1>9 DEF HandlerReturns, Goto, LeaseInv, WorkerInv, WorkerHasJob, TrackedPCs, Busy
  <2>2. CASE pc'[w] \in EngagedPCs
    BY <1>3, <2>1, <2>2 DEF Busy
  <2>3. CASE pc'[w] \notin EngagedPCs
    <3>1. Busy(w)' \notin Tasks
      BY <2>3 DEF Busy, Jobs
    <3>2. Runners' = [k \in Tasks |-> Runners[k] \ {w}]
      BY <1>1, <3>1, RunnersMove
    <3>3. Run!Stop({w})
      BY <1>2, <2>1, <3>2 DEF Run!Stop
    <3> QED
      BY <3>3 DEF Run!Next
  <2> QED
    BY <2>2, <2>3
<1> QED
  BY <1>4, <1>5, <1>6, <1>7, <1>8, <1>9 DEF RunTask

(* The settling writes: of a task they overwrite the run of their own       *)
(* worker, as long as nothing has lapsed.                                  *)
LEMMA SettleRun ==
    ASSUME TypeOK, LeaseInv, Inserted, NEW w \in Workers, Settle(w)
    PROVE  [Run!Next]_Run!vars
<1> PICK j : j = job[w]
  OBVIOUS
<1> USE DEF TypeOK, WorkerTypeOK, EngagedPCs, SettlePCs
<1>1. /\ pc[w] \in SettlePCs \cup {"releasing"}
      /\ \/ \E l \in {"failing", "retrying"} : Goto(w, l)
         \/ j \in Tasks /\ Goto(w, "leaving")
         \/ j \in Ingests /\ Idle(w)
  BY SettleMoves DEF LeaseInv
<1>2. /\ \A v \in Workers \ {w} : Busy(v)' = Busy(v)
      /\ UNCHANGED lapsed
  BY <1>1 DEF Busy, Goto, Idle, Settle, CompleteJob, FailJob, RetryGet, RetryOrFail, SettleError
<1>3. j \in Jobs /\ status[j] # "absent"
  BY <1>1 DEF Inserted, LeaseInv, WorkerInv, WorkerHasJob
<1>4. CASE j \notin Tasks
  <2>1. Busy(w) \notin Tasks /\ Busy(w)' \notin Tasks
    BY <1>1, <1>4 DEF Busy, Jobs, Goto, Idle
  <2>2. Runners' = Runners
    BY <1>2, <2>1 DEF Runners, Busy, Jobs
  <2>3. \A k \in Tasks : status'[k] = status[k] /\ retries'[k] = retries[k]
    BY <1>3, <1>4 DEF Settle, CompleteJob, Complete, FailJob, Fail, RetryGet, RetryOrFail, Retry,
                      SettleError, rowVars, StoreTypeOK, Jobs
  <2> QED
    BY <1>2, <2>2, <2>3 DEF Run!vars
<1>5. CASE j \in Tasks /\ pc'[w] \in EngagedPCs
  <2>1. \E l \in {"failing", "retrying"} : Goto(w, l)
    BY <1>1, <1>5 DEF Goto, Idle
  <2>2. UNCHANGED rowVars /\ pc[w] \in SettlePCs
    BY <1>1, <1>5, <2>1 DEF Settle, CompleteJob, FailJob, RetryGet, RetryOrFail, SettleError,
                            Return, Goto, Idle
  <2>3. Busy(w)' = Busy(w)
    BY <2>1, <2>2 DEF Busy, Goto
  <2> QED
    BY <1>2, <2>2, <2>3, RunStutters DEF rowVars
<1>6. CASE j \in Tasks /\ pc'[w] \notin EngagedPCs
  <2>1. Busy(w)' \notin Tasks
    BY <1>6 DEF Busy, Jobs
  <2>2. CASE UNCHANGED rowVars
    <3>1. Runners' = [k \in Tasks |-> Runners[k] \ {w}]
      BY <1>2, <2>1, RunnersMove
    <3>2. Run!Stop({w})
      BY <1>2, <2>2, <3>1 DEF rowVars, Run!Stop
    <3> QED
      BY <3>2 DEF Run!Next
  <2>3. CASE pc[w] \in SettlePCs
    <3>1. Busy(w) = j
      BY <2>3 DEF Busy
    <3>2. w \in Runners[j] /\ Runners' = [Runners EXCEPT ![j] = @ \ {w}]
      BY <1>2, <1>6, <2>1, <3>1, RunnersAre, RunnersMove
    <3>3. ~lapsed[j] => Runners[j] = {w} /\ status[j] \in {"running", "cancelled"}
      BY <1>6, <3>1, RunnerHolds
    <3>4. Run!Settles(w, j)
      BY <1>2, <1>3, <1>6, <3>2, <3>3 DEF Run!Settles
    <3>5. CASE CompleteJob(w) \/ FailJob(w)
      <4>1. Run!Finish(w, j)
        BY <1>3, <1>6, <3>4, <3>5 DEF CompleteJob, Complete, FailJob, Fail, Run!Finish, StoreTypeOK, Jobs
      <4> QED
        BY <1>6, <4>1 DEF Run!Next
    <3>6. CASE Retry(j)
      <4>1. Run!TryAgain(w, j)
        BY <1>3, <1>6, <3>4, <3>6 DEF Retry, CanRetry, Run!TryAgain, Run!Requeues, StoreTypeOK, Jobs
      <4> QED
        BY <1>6, <4>1 DEF Run!Next
    <3> QED
      BY <2>2, <3>5, <3>6 DEF Settle, RetryGet, RetryOrFail, SettleError
  <2> QED
    BY <1>1, <2>2, <2>3 DEF Settle, CompleteJob, FailJob, RetryGet, RetryOrFail, SettleError
<1> QED
  BY <1>4, <1>5, <1>6

(* Recovery, at startup and later, requeues only tasks that nobody is left  *)
(* alone with; a process that ends takes its runners with it.              *)
LEMMA LifecycleRun ==
    ASSUME TypeOK, LeaseInv, NEW p \in Pools, Lifecycle(p)
    PROVE  [Run!Next]_Run!vars
<1>1. CASE Start(p) \/ Recover(p)
  <2>1. PICK t : RecoverStale(t)
    BY <1>1 DEF Start, Recover
  <2>2. Runners' = Runners /\ UNCHANGED lapsed
    BY <1>1, RunnersStay DEF Start, Recover, workerVars, Busy
  <2> PICK S : S = StaleJobs(t) \cap Tasks
    OBVIOUS
  <2>3. ASSUME NEW j \in S PROVE status[j] = "running" /\ Run!Free(j)
    <3>1. j \in Tasks /\ status[j] = "running" /\ ~(lease[j] > 0)
      BY <2>3 DEF StaleJobs, IsStale, NoLease
    <3>2. ASSUME NEW w \in Workers, Busy(w) = j, ~lapsed[j] PROVE FALSE
      BY <3>1, <3>2, RunnerHolds
    <3> QED
      BY <3>1, <3>2, RunnersAre DEF Run!Free, Runners
  <2>4. Run!Recover(S)
    BY <2>1, <2>2, <2>3 DEF RecoverStale, Run!Recover, Jobs
  <2>5. S \in SUBSET Tasks
    OBVIOUS
  <2> QED
    BY <2>4, <2>5 DEF Run!Next
<1>2. CASE Dies(p)
  <2> DEFINE W == {w \in Workers : PoolOf[w] = p}
  <2>1. Runners' = [k \in Tasks |-> Runners[k] \ W]
    BY <1>2 DEF Dies, Runners, EngagedPCs, SettlePCs, TypeOK, WorkerTypeOK
  <2>2. Run!Stop(W)
    BY <1>2, <2>1 DEF Dies, rowVars, Run!Stop
  <2> QED
    BY <2>2 DEF Run!Next
<1>3. CASE DrainExpires(p) \/ Stop(p) \/ Exit(p)
  BY <1>3, RunStutters DEF DrainExpires, Stop, Exit, workerVars, rowVars, Busy
<1> QED
  BY <1>1, <1>2, <1>3 DEF Lifecycle, Crash, ExitUndrained

(* The pools implement what TaskRun promises of a task: one worker from the *)
(* start of its handler to the write that settles it, no recovery under     *)
(* it, no write over anybody else's run, within the retry budget.           *)
THEOREM TaskRunImplemented == Spec => ImplementsTaskRun
<1>1. Init => Run!Init
  BY DEF Init, StoreInit, Run!Init, Runners, EngagedPCs, SettlePCs, Jobs
<1>2. TypeOK /\ LeaseInv /\ Inserted /\ [Next]_vars => [Run!Next]_Run!vars
  <2> SUFFICES ASSUME TypeOK, LeaseInv, Inserted, [Next]_vars PROVE [Run!Next]_Run!vars
    OBVIOUS
  <2>1. CASE Tick
    <3>1. Runners' = Runners
      BY <2>1, RunnersStay DEF Tick, workerVars, Busy
    <3>2. PICK S \in SUBSET Tasks : lapsed' = [k \in Tasks |-> lapsed[k] \/ k \in S]
      <4> DEFINE T == {k \in Tasks : lapsed'[k]}
      <4>1. lapsed' = [k \in Tasks |-> lapsed[k] \/ k \in T]
        BY <2>1 DEF Tick, TypeOK
      <4> QED
        BY <4>1
    <3>3. Run!Lapse(S)
      BY <2>1, <3>1, <3>2 DEF Tick, Elapse, Run!Lapse
    <3> QED
      BY <3>3 DEF Run!Next
  <2>2. CASE UNCHANGED vars
    BY <2>2, RunStutters DEF vars, workerVars, rowVars, Busy
  <2> QED
    BY <2>1, <2>2, ClientRun, ClaimRun, TaskStepRun, SettleRun, LifecycleRun DEF Next
<1> QED
  BY <1>1, <1>2, TypeCorrect, LeaseInvariant, InsertedAlways, PTL DEF Spec, ImplementsTaskRun, Run!Spec

----------------------------------------------------------------------------
(* What TaskRun says by itself.                                            *)

(* Workers as TaskRun sees them: lapsed is all it knows of leases.          *)
RunInv == lapsed \in [Tasks -> BOOLEAN] /\ LeaseHolderIsAlone

LEMMA AloneIs ==
    LeaseHolderIsAlone <=> \A j \in Tasks : ~lapsed[j] => \A v, w \in Runners[j] : v = w
BY DEF LeaseHolderIsAlone, Runners

(* Of tasks, workers and retries TaskRun promises exclusivity: whatever     *)
(* implements it, runs a task on one worker until its lease lapses or is    *)
(* bypassed, and from its next claim on.                                    *)
THEOREM TaskRunExcludes == ImplementsTaskRun => []LeaseHolderIsAlone
<1>1. Run!Init => RunInv
  BY AloneIs DEF Run!Init, RunInv
<1>2. RunInv /\ [Run!Next]_Run!vars => RunInv'
  <2> SUFFICES ASSUME RunInv, [Run!Next]_Run!vars PROVE RunInv'
    OBVIOUS
  <2> DEFINE One(j) == ~lapsed[j] => \A v, w \in Runners[j] : v = w
  <2>1. \A j \in Tasks : One(j)
    BY AloneIs DEF RunInv
  <2>2. SUFFICES lapsed' \in [Tasks -> BOOLEAN] /\ \A j \in Tasks : One(j)'
    BY DEF RunInv, LeaseHolderIsAlone, Runners
  <2> USE DEF RunInv
  <2>3. Runners = [j \in Tasks |-> Runners[j]]
    BY DEF Runners
  <2>4. ASSUME NEW j \in Tasks,
               Run!Submit(j) \/ Run!Claim(j) \/ Run!Retry(j) \/ Run!Cancel(j)
        PROVE  lapsed' \in [Tasks -> BOOLEAN] /\ \A k \in Tasks : One(k)'
    BY <2>1, <2>4 DEF Run!Submit, Run!Claim, Run!Retry, Run!Cancel
  <2>5. ASSUME NEW j \in Tasks, NEW w \in Workers,
               Run!Begin(w, j) \/ Run!BeginBroken(w, j)
        PROVE  lapsed' \in [Tasks -> BOOLEAN] /\ \A k \in Tasks : One(k)'
    BY <2>1, <2>3, <2>5 DEF Run!Begin, Run!BeginBroken, Run!Free
  <2>6. ASSUME NEW j \in Tasks, NEW w \in Workers,
               Run!Finish(w, j) \/ Run!TryAgain(w, j)
        PROVE  lapsed' \in [Tasks -> BOOLEAN] /\ \A k \in Tasks : One(k)'
    BY <2>1, <2>3, <2>6 DEF Run!Finish, Run!TryAgain, Run!Settles
  <2>7. ASSUME NEW W \in SUBSET Workers, Run!Stop(W)
        PROVE  lapsed' \in [Tasks -> BOOLEAN] /\ \A k \in Tasks : One(k)'
    BY <2>1, <2>7 DEF Run!Stop
  <2>8. ASSUME NEW S \in SUBSET Tasks, Run!Recover(S) \/ Run!Lapse(S)
        PROVE  lapsed' \in [Tasks -> BOOLEAN] /\ \A k \in Tasks : One(k)'
    BY <2>1, <2>8 DEF Run!Recover, Run!Lapse
  <2>9. CASE UNCHANGED Run!vars
    BY <2>1, <2>9 DEF Run!vars
  <2> QED
    BY <2>4, <2>5, <2>6, <2>7, <2>8, <2>9 DEF Run!Next
<1> QED
  BY <1>1, <1>2, PTL DEF ImplementsTaskRun, Run!Spec, RunInv

=============================================================================
