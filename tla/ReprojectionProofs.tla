------------------------- MODULE ReprojectionProofs -------------------------
(***************************************************************************)
(* Reprojection for any objects, daemons, jobs and deployments: its types, *)
(* that the signature vouches for the rows, and that the upgrade status    *)
(* belongs to one run.                                                     *)
(***************************************************************************)
EXTENDS Reprojection, TLAPS

USE ObjectsAssumption, JobsAssumption, SitesAssumption, LimitsAssumption

(* What a run does next, by what it leaves alone.                           *)
RowStep(j) == \E o \in Objects : RepairRefText(j, o) \/ Reproject(j, o)
LoopStep(j) ==
    \/ Repaired(j) \/ ListStale(j) \/ Tick(j) \/ Target(j) \/ ListMissing(j)
    \/ EmbedTickFails(j) \/ \E o \in Objects : EmbedOne(j, o)
StatusStep(j) ==
    \/ Begin(j) \/ Count(j) \/ Complete(j) \/ StartMigration(j) \/ EndMigration(j)
    \/ StoreFails(j) \/ Interrupt(j)
JobStep(j) ==
    \/ EnqueueMigration(j) \/ Recover(j) \/ Cancel(j) \/ \E d \in Daemons : Acquire(d, j)
DaemonStep(d) ==
    \/ Start(d) \/ ListRunning(d) \/ ListPending(d) \/ Enqueue(d) \/ StartFails(d)
    \/ Crash(d) \/ Stop(d)

LEMMA Cases ==
    ASSUME Next
    PROVE  \/ \E o \in Objects : Write(o) \/ Delete(o)
           \/ \E d \in Daemons : DaemonStep(d)
           \/ \E j \in Jobs : RowStep(j) \/ LoopStep(j) \/ StatusStep(j) \/ JobStep(j)
                              \/ Stamp(j)
BY DEF Next, Startup, Run, DaemonStep, RowStep, LoopStep, StatusStep, JobStep

USE DEF rowVars, jobVars, runVars, bounds

----------------------------------------------------------------------------
(* Types.                                                                  *)

LEMMA ReturnType ==
    ASSUME TypeOK, NEW j \in Jobs,
           ReturnOk(j) \/ ReturnPermanent(j) \/ ReturnErr(j)
    PROVE  /\ pc' = [pc EXCEPT ![j] = "off"]
           /\ status' \in [Jobs -> {"none", "pending", "running", "completed", "failed",
                                    "cancelled"}]
           /\ retries' \in [Jobs -> Nat]
BY DEF TypeOK, ReturnOk, ReturnPermanent, ReturnErr

LEMMA HandledType ==
    ASSUME TypeOK, NEW j \in Jobs, NEW o \in Objects, Handled(j, o)
    PROVE  cursor' \in [Jobs -> Nat] /\ page' \in [Jobs -> SUBSET Objects]
<1>1. o \in Nat
  OBVIOUS
<1>2. page[j] \ {o} \in SUBSET Objects
  BY DEF TypeOK
<1> QED
  BY <1>1, <1>2 DEF TypeOK, Handled

LEMMA FaultType == ASSUME TypeOK, Fault PROVE faults' \in Nat
BY DEF TypeOK, Fault

LEMMA TypeStep ==
    ASSUME TypeOK, [Next]_vars
    PROVE  TypeOK'
<1> USE DEF TypeOK
<1>1. ASSUME NEW o \in Objects, Write(o) \/ Delete(o)
      PROVE  TypeOK'
  <2>1. CASE Write(o)
    <3>1. vec' = vec \/ vec' = vec \cup {o}
      BY <2>1 DEF Write
    <3>2. row' = [row EXCEPT ![o] = "current"] /\ ref' \in {ref, ref \ {o}}
          /\ repaired' = repaired \ {o}
      BY <2>1 DEF Write
    <3>3. /\ row' \in [Objects -> {"none", "stale", "current"}]
          /\ ref' \subseteq Objects /\ vec' \subseteq Objects /\ repaired' \subseteq Objects
      BY <3>1, <3>2
    <3> QED
      BY <2>1, <3>3 DEF Write
  <2>2. CASE Delete(o)
    BY <2>2 DEF Delete
  <2> QED
    BY <1>1, <2>1, <2>2
<1>2. ASSUME NEW d \in Daemons, DaemonStep(d)
      PROVE  TypeOK'
  <2>1. CASE Start(d)
    BY <2>1 DEF Start, To
  <2>2. CASE ListRunning(d)
    BY <2>2 DEF ListRunning, To
  <2>3. CASE ListPending(d)
    BY <2>3 DEF ListPending, To
  <2>4. CASE Enqueue(d)
    BY <2>4 DEF Enqueue, Enqueued, To, Jobs
  <2>5. CASE StartFails(d)
    BY <2>5 DEF StartFails, To, Fault
  <2>6. CASE Crash(d)
    BY <2>6 DEF Crash, Gone, To, Fault
  <2>7. CASE Stop(d)
    BY <2>7 DEF Stop, Gone, To
  <2> QED
    BY <1>2, <2>1, <2>2, <2>3, <2>4, <2>5, <2>6, <2>7 DEF DaemonStep
<1>3. ASSUME NEW j \in Jobs, NEW o \in Objects, RepairRefText(j, o)
      PROVE  TypeOK'
  BY <1>3, HandledType, FaultType DEF RepairRefText
<1>4. ASSUME NEW j \in Jobs, NEW o \in Objects, Reproject(j, o)
      PROVE  TypeOK'
  <2>1. row' \in [Objects -> {"none", "stale", "current"}]
    <3>1. (IF row[o] = "stale" THEN "current" ELSE row[o]) \in {"none", "stale", "current"}
      OBVIOUS
    <3> QED
      BY <1>4, <3>1 DEF Reproject
  <2>2. cursor' \in [Jobs -> Nat] /\ page' \in [Jobs -> SUBSET Objects]
    BY <1>4, HandledType DEF Reproject
  <2> QED
    BY <1>4, <2>1, <2>2, FaultType DEF Reproject, Goes
<1>5. ASSUME NEW j \in Jobs, LoopStep(j)
      PROVE  TypeOK'
  <2>1. CASE Repaired(j)
    BY <2>1 DEF Repaired, Goes
  <2>2. CASE ListStale(j)
    BY <2>2 DEF ListStale, Goes
  <2>3. CASE Tick(j)
    BY <2>3, ReturnType DEF Tick, Goes, Fault
  <2>4. CASE Target(j)
    BY <2>4, ReturnType DEF Target, Goes, Fault
  <2>5. CASE ListMissing(j)
    BY <2>5 DEF ListMissing, Goes
  <2>6. CASE EmbedTickFails(j)
    BY <2>6, ReturnType DEF EmbedTickFails, Fault
  <2>7. ASSUME NEW o \in Objects, EmbedOne(j, o)
        PROVE  TypeOK'
    BY <2>7, HandledType, FaultType DEF EmbedOne, Goes
  <2> QED
    BY <1>5, <2>1, <2>2, <2>3, <2>4, <2>5, <2>6, <2>7 DEF LoopStep
<1>6. ASSUME NEW j \in Jobs, StatusStep(j)
      PROVE  TypeOK'
  <2>1. CASE Begin(j)
    BY <2>1, ReturnType, FaultType DEF Begin, StartTarget, Goes
  <2>2. CASE Count(j)
    BY <2>2, ReturnType DEF Count, FailRun, Goes
  <2>3. CASE Complete(j)
    BY <2>3, ReturnType, FaultType DEF Complete, CompleteRun
  <2>4. CASE StartMigration(j)
    BY <2>4, ReturnType DEF StartMigration, StartTarget, Goes, Fault
  <2>5. CASE EndMigration(j)
    BY <2>5, ReturnType DEF EndMigration, FailRun, CompleteRun, Fault
  <2>6. CASE StoreFails(j)
    BY <2>6, ReturnType DEF StoreFails, StopStatus, FailRun, Fault
  <2>7. CASE Interrupt(j)
    BY <2>7 DEF Interrupt, StopStatus, FailRun, Goes
  <2> QED
    BY <1>6, <2>1, <2>2, <2>3, <2>4, <2>5, <2>6, <2>7 DEF StatusStep
<1>7. ASSUME NEW j \in Jobs, JobStep(j)
      PROVE  TypeOK'
  <2>1. CASE EnqueueMigration(j)
    BY <2>1 DEF EnqueueMigration, Enqueued
  <2>2. CASE Recover(j)
    BY <2>2 DEF Recover
  <2>3. CASE Cancel(j)
    BY <2>3 DEF Cancel, Fault
  <2>4. ASSUME NEW d \in Daemons, Acquire(d, j)
        PROVE  TypeOK'
    BY <2>4 DEF Acquire
  <2> QED
    BY <1>7, <2>1, <2>2, <2>3, <2>4 DEF JobStep
<1>8. ASSUME NEW j \in Jobs, Stamp(j)
      PROVE  TypeOK'
  BY <1>8 DEF Stamp, Goes
<1>9. CASE UNCHANGED vars
  BY <1>9 DEF vars
<1> QED
  BY <1>1, <1>2, <1>3, <1>4, <1>5, <1>6, <1>7, <1>8, <1>9, Cases DEF RowStep

----------------------------------------------------------------------------
(* No row of an older projection comes back.                               *)

LEMMA OldShrinks ==
    ASSUME TypeOK, [Next]_vars
    PROVE  Old' \subseteq Old
<1> USE DEF TypeOK, Old, Stale
<1>1. ASSUME NEW o \in Objects, Write(o) \/ Delete(o)
      PROVE  Old' \subseteq Old
  BY <1>1 DEF Write, Delete
<1>2. ASSUME NEW j \in Jobs, NEW o \in Objects, RepairRefText(j, o)
      PROVE  Old' \subseteq Old
  BY <1>2 DEF RepairRefText
<1>3. ASSUME NEW j \in Jobs, NEW o \in Objects, Reproject(j, o)
      PROVE  Old' \subseteq Old
  BY <1>3 DEF Reproject
<1>4. ASSUME UNCHANGED <<row, repaired>>
      PROVE  Old' \subseteq Old
  BY <1>4
<1>5. ASSUME NEW d \in Daemons, DaemonStep(d)
      PROVE  UNCHANGED <<row, repaired>>
  BY <1>5 DEF DaemonStep, Start, ListRunning, ListPending, Enqueue, StartFails, Crash, Stop, Gone
<1>6. ASSUME NEW j \in Jobs, LoopStep(j) \/ Stamp(j)
      PROVE  UNCHANGED <<row, repaired>>
  BY <1>6 DEF LoopStep, Stamp, Repaired, ListStale, Tick, Target, ListMissing, EmbedTickFails,
              EmbedOne
<1>7. ASSUME NEW j \in Jobs, StatusStep(j)
      PROVE  UNCHANGED <<row, repaired>>
  BY <1>7 DEF StatusStep, Begin, Count, Complete, StartMigration, EndMigration, StoreFails,
              Interrupt
<1>8. ASSUME NEW j \in Jobs, JobStep(j)
      PROVE  UNCHANGED <<row, repaired>>
  BY <1>8 DEF JobStep, EnqueueMigration, Recover, Cancel, Acquire
<1>9. CASE UNCHANGED vars
  BY <1>9 DEF vars
<1> QED
  BY <1>1, <1>2, <1>3, <1>4, <1>5, <1>6, <1>7, <1>8, <1>9, Cases DEF RowStep

(* Only finish, having counted, goes on to stamp, and only it or a first    *)
(* boot changes the signature.                                              *)
LEMMA NoneOldStep ==
    ASSUME TypeOK, NoneOld, [Next]_vars
    PROVE  NoneOld'
<1> USE DEF TypeOK
<1>1. Old' \subseteq Old /\ site' = site
  <2>1. site' = site
    BY Cases DEF vars, DaemonStep, RowStep, LoopStep, StatusStep, JobStep, Write, Delete,
       Start, ListRunning, ListPending, Enqueue, StartFails, Crash, Stop, Gone, RepairRefText,
       Reproject, Stamp, Repaired, ListStale, Tick, Target, ListMissing, EmbedTickFails,
       EmbedOne, Begin, Count, Complete, StartMigration, EndMigration, StoreFails, Interrupt,
       EnqueueMigration, Recover, Cancel, Acquire
  <2> QED
    BY <2>1, OldShrinks
<1>2. SUFFICES /\ \A j \in Jobs : pc'[j] = "stamp" => pc[j] = "stamp" \/ Old = {}
               /\ sig' # "old" => sig # "old" \/ Old = {}
  BY <1>1 DEF NoneOld
<1>3. ASSUME NEW o \in Objects, Write(o) \/ Delete(o)
      PROVE  UNCHANGED <<pc, sig>>
  BY <1>3 DEF Write, Delete
<1>4. ASSUME NEW d \in Daemons, DaemonStep(d)
      PROVE  /\ \A j \in Jobs : pc'[j] = "stamp" => pc[j] = "stamp"
             /\ sig' # "old" => sig # "old"
  BY <1>4 DEF DaemonStep, Start, ListRunning, ListPending, Enqueue, StartFails, Crash, Stop, Gone
<1>5. ASSUME NEW i \in Jobs, RowStep(i) \/ LoopStep(i)
      PROVE  /\ \A j \in Jobs : pc'[j] = "stamp" => pc[j] = "stamp"
             /\ sig' = sig
  <2>1. sig' = sig /\ \E c \in {"off", "repair", "begin", "list", "each", "tick", "count",
                              "start", "missing", "embed"} :
                      pc' = pc \/ pc' = [pc EXCEPT ![i] = c]
    BY <1>5 DEF RowStep, LoopStep, RepairRefText, Reproject, Repaired, ListStale, Tick, Target,
                ListMissing, EmbedTickFails, EmbedOne, Goes, ReturnErr, ReturnPermanent
  <2> QED
    BY <2>1
<1>6. ASSUME NEW i \in Jobs, Count(i)
      PROVE  /\ \A j \in Jobs : pc'[j] = "stamp" => pc[j] = "stamp" \/ Old = {}
             /\ sig' = sig
  BY <1>6 DEF Count, IsCurrent, Old, Stale, Goes, ReturnOk
<1>7. ASSUME NEW i \in Jobs, StatusStep(i), ~Count(i)
      PROVE  /\ \A j \in Jobs : pc'[j] = "stamp" => pc[j] = "stamp"
             /\ sig' = sig
  <2>1. sig' = sig /\ \E c \in {"off", "list", "missing"} : pc' = [pc EXCEPT ![i] = c]
    BY <1>7 DEF StatusStep, Begin, Complete, StartMigration, EndMigration, StoreFails,
                Interrupt, Goes, ReturnErr, ReturnOk
  <2> QED
    BY <2>1
<1>8. ASSUME NEW i \in Jobs, JobStep(i)
      PROVE  /\ \A j \in Jobs : pc'[j] = "stamp" => pc[j] = "stamp"
             /\ sig' = sig
  BY <1>8 DEF JobStep, EnqueueMigration, Recover, Cancel, Acquire
<1>9. ASSUME NEW i \in Jobs, Stamp(i)
      PROVE  Old = {} /\ \A j \in Jobs : pc'[j] = "stamp" => pc[j] = "stamp"
  BY <1>9 DEF Stamp, Goes, NoneOld
<1>10. CASE UNCHANGED vars
  BY <1>10 DEF vars
<1> QED
  BY <1>3, <1>4, <1>5, <1>6, <1>7, <1>8, <1>9, <1>10, Cases

----------------------------------------------------------------------------
(* The status and its run.                                                 *)

LEMMA RunHasDaemonStep ==
    ASSUME TypeOK, RunHasDaemon, [Next]_vars
    PROVE  RunHasDaemon'
<1> USE DEF TypeOK, RunHasDaemon
<1>1. ASSUME NEW i \in Jobs, NEW d \in Daemons, Acquire(d, i)
      PROVE  RunHasDaemon'
  BY <1>1 DEF Acquire
<1>2. ASSUME at' = at, \A j \in Jobs : pc'[j] # "off" => pc[j] # "off"
      PROVE  RunHasDaemon'
  BY <1>2
<1>3. ASSUME NEW o \in Objects, Write(o) \/ Delete(o)
      PROVE  UNCHANGED <<at, pc>>
  BY <1>3 DEF Write, Delete
<1>4. ASSUME NEW d \in Daemons, DaemonStep(d)
      PROVE  at' = at /\ \A j \in Jobs : pc'[j] # "off" => pc[j] # "off"
  BY <1>4 DEF DaemonStep, Start, ListRunning, ListPending, Enqueue, StartFails, Crash, Stop, Gone
<1>5. ASSUME NEW i \in Jobs, RowStep(i) \/ LoopStep(i) \/ StatusStep(i) \/ Stamp(i)
      PROVE  at' = at /\ \A j \in Jobs : pc'[j] # "off" => pc[j] # "off"
  <2>1. at' = at /\ pc[i] # "off"
    BY <1>5 DEF RowStep, LoopStep, StatusStep, Stamp, RepairRefText, Reproject, Repaired,
       ListStale, Tick, Target, ListMissing, EmbedTickFails, EmbedOne, Begin, Count, Complete,
       StartMigration, EndMigration, StoreFails, Interrupt
  <2>2. pc' = pc \/ \E c : pc' = [pc EXCEPT ![i] = c]
    BY <1>5 DEF RowStep, LoopStep, StatusStep, Stamp, RepairRefText, Reproject, Repaired,
       ListStale, Tick, Target, ListMissing, EmbedTickFails, EmbedOne, Begin, Count, Complete,
       StartMigration, EndMigration, StoreFails, Interrupt, Goes, ReturnOk, ReturnErr,
       ReturnPermanent
  <2> QED
    BY <2>1, <2>2
<1>6. ASSUME NEW i \in Jobs, EnqueueMigration(i) \/ Recover(i) \/ Cancel(i)
      PROVE  UNCHANGED <<at, pc>>
  BY <1>6 DEF EnqueueMigration, Recover, Cancel
<1>7. CASE UNCHANGED vars
  BY <1>7 DEF vars
<1> QED
  BY <1>1, <1>2, <1>3, <1>4, <1>5, <1>6, <1>7, Cases DEF JobStep

(* A run that stays as it was and whose status stays in progress.           *)
LEMMA HolderKept ==
    ASSUME TypeOK, RunHasDaemon, StatusIsOwn, at' = at,
           \A j \in Jobs : Holding(j)' => Holding(j) /\ mgr'[at[j]] = "in_progress"
    PROVE  StatusIsOwn'
BY DEF StatusIsOwn

(* i ends, and its status with it: no other run of that daemon held it.     *)
LEMMA HolderEnds ==
    ASSUME TypeOK, RunHasDaemon, StatusIsOwn, NEW i \in Jobs, Holding(i), at' = at,
           pc' = [pc EXCEPT ![i] = "off"],
           FailRun(i) \/ CompleteRun(i)
    PROVE  StatusIsOwn'
<1>1. \A j \in Jobs : Holding(j)' => Holding(j) /\ j # i
  BY DEF Holding, TypeOK
<1>2. \A j \in Jobs : Holding(j) /\ j # i => at[j] # at[i] /\ mgr[at[j]] = "in_progress"
  BY DEF StatusIsOwn
<1>3. \A j \in Jobs : Holding(j) => at[j] \in Daemons
  BY DEF RunHasDaemon, Holding
<1>4. \A j \in Jobs : Holding(j)' => mgr'[at[j]] = "in_progress"
  BY <1>1, <1>2, <1>3 DEF FailRun, CompleteRun, TypeOK
<1> QED
  BY <1>1, <1>4, HolderKept

(* i starts where no run held the status, or fails to and leaves it.        *)
LEMMA HolderStarts ==
    ASSUME TypeOK, RunHasDaemon, StatusIsOwn, NEW i \in Jobs, pc[i] # "off", ~Holding(i),
           at' = at, NEW c, pc' = [pc EXCEPT ![i] = c], StartTarget(i)
    PROVE  StatusIsOwn'
<1>1. at[i] \in Daemons /\ mgr' = [mgr EXCEPT ![at[i]] = "in_progress"]
  BY DEF RunHasDaemon, StartTarget
<1>2. \A j \in Jobs : Holding(j) => at[j] \in Daemons /\ mgr[at[j]] = "in_progress"
  BY DEF RunHasDaemon, StatusIsOwn, Holding
<1>3. \A j \in Jobs : Holding(j) => at[j] # at[i]
  BY <1>2 DEF StartTarget, IsFree
<1>4. \A j \in Jobs : Holding(j)' => j = i \/ Holding(j)
  BY DEF Holding, TypeOK
<1>5. \A j \in Jobs : Holding(j)' => mgr'[at[j]] = "in_progress"
  BY <1>1, <1>2, <1>3, <1>4 DEF TypeOK
<1>6. \A j, k \in Jobs : Holding(j)' /\ Holding(k)' /\ at[j] = at[k] => j = k
  BY <1>3, <1>4 DEF StatusIsOwn
<1> QED
  BY <1>5, <1>6 DEF StatusIsOwn

(* Every step keeps the status with the run that holds it.                  *)
LEMMA StatusIsOwnStep ==
    ASSUME TypeOK, RunHasDaemon, StatusIsOwn, [Next]_vars
    PROVE  StatusIsOwn'
<1> USE DEF TypeOK
<1>1. ASSUME UNCHANGED <<pc, at, mgr>>
      PROVE  StatusIsOwn'
  BY <1>1 DEF StatusIsOwn, Holding
<1>2. ASSUME NEW o \in Objects, Write(o) \/ Delete(o)
      PROVE  UNCHANGED <<pc, at, mgr>>
  BY <1>2 DEF Write, Delete
<1>3. ASSUME NEW d \in Daemons, DaemonStep(d)
      PROVE  StatusIsOwn'
  <2>1. CASE Gone(d)
    <3>1. \A j \in Jobs : Holding(j)' => Holding(j) /\ at[j] # d
      BY <2>1 DEF Gone, RunsAt, Holding
    <3>2. \A j \in Jobs : Holding(j)' => mgr'[at[j]] = "in_progress"
      BY <2>1, <3>1 DEF Gone, StatusIsOwn, RunHasDaemon, Holding
    <3> QED
      BY <2>1, <3>1, <3>2, HolderKept DEF Gone
  <2>2. CASE ~Gone(d)
    BY <1>1, <1>3, <2>2 DEF DaemonStep, Start, ListRunning, ListPending, Enqueue, StartFails,
       Crash, Stop
  <2> QED
    BY <2>1, <2>2
<1>4. ASSUME NEW i \in Jobs, RowStep(i) \/ LoopStep(i) \/ Stamp(i)
      PROVE  StatusIsOwn'
  <2>1. at' = at /\ mgr' = mgr
    BY <1>4 DEF RowStep, LoopStep, Stamp, RepairRefText, Reproject, Repaired, ListStale, Tick,
       Target, ListMissing, EmbedTickFails, EmbedOne
  <2>2. \E c : (pc' = pc \/ pc' = [pc EXCEPT ![i] = c])
               /\ (c \in {"off", "begin", "start"} \/ Holding(i))
    BY <1>4 DEF RowStep, LoopStep, Stamp, RepairRefText, Reproject, Repaired, ListStale, Tick,
       Target, ListMissing, EmbedTickFails, EmbedOne, Goes, ReturnErr, ReturnPermanent, Holding
  <2>3. \A j \in Jobs : Holding(j)' => Holding(j)
    BY <2>2 DEF Holding
  <2>4. \A j \in Jobs : Holding(j)' => mgr'[at[j]] = "in_progress"
    BY <2>1, <2>3 DEF StatusIsOwn
  <2> QED
    BY <2>1, <2>3, <2>4, HolderKept
<1>5. ASSUME NEW i \in Jobs, StatusStep(i)
      PROVE  StatusIsOwn'
  <2>1. CASE Begin(i)
    <3>1. pc[i] # "off" /\ ~Holding(i) /\ at' = at /\ StartTarget(i)
      BY <2>1 DEF Begin, Holding
    <3>2. \E c : pc' = [pc EXCEPT ![i] = c]
      BY <2>1 DEF Begin, Goes, ReturnErr
    <3> QED
      BY <3>1, <3>2, HolderStarts
  <2>2. CASE StartMigration(i)
    <3>1. pc[i] # "off" /\ ~Holding(i) /\ at' = at
      BY <2>2 DEF StartMigration, Holding
    <3>2. CASE StartTarget(i)
      <4>1. \E c : pc' = [pc EXCEPT ![i] = c]
        BY <2>2 DEF StartMigration, Goes, ReturnErr
      <4> QED
        BY <3>1, <3>2, <4>1, HolderStarts
    <3>3. CASE ~StartTarget(i)
      <4>1. mgr' = mgr /\ pc' = [pc EXCEPT ![i] = "off"]
        BY <2>2, <3>3 DEF StartMigration, ReturnErr
      <4>2. \A j \in Jobs : Holding(j)' => Holding(j)
        BY <4>1 DEF Holding
      <4> QED
        BY <3>1, <4>1, <4>2, HolderKept DEF StatusIsOwn
    <3> QED
      BY <3>2, <3>3
  <2>3. CASE Count(i)
    <3>1. Holding(i) /\ at' = at
      BY <2>3 DEF Count, Holding
    <3>2. CASE mgr' = mgr /\ Goes(i, "stamp")
      <4>1. \A j \in Jobs : Holding(j)' => Holding(j)
        BY <3>1, <3>2 DEF Goes, Holding
      <4> QED
        BY <3>1, <3>2, <4>1, HolderKept DEF StatusIsOwn
    <3>3. CASE FailRun(i) /\ ReturnOk(i)
      BY <3>1, <3>3, HolderEnds DEF ReturnOk
    <3> QED
      BY <2>3, <3>2, <3>3 DEF Count
  <2>4. CASE Complete(i) \/ EndMigration(i)
    <3>1. Holding(i) /\ at' = at /\ pc' = [pc EXCEPT ![i] = "off"]
      BY <2>4 DEF Complete, EndMigration, Holding, ReturnOk, ReturnErr
    <3>2. FailRun(i) \/ CompleteRun(i)
      BY <2>4 DEF Complete, EndMigration
    <3> QED
      BY <3>1, <3>2, HolderEnds
  <2>5. CASE StoreFails(i) \/ Interrupt(i)
    <3>1. at' = at /\ pc' = [pc EXCEPT ![i] = "off"] /\ StopStatus(i)
      BY <2>5 DEF StoreFails, Interrupt, Goes, ReturnErr
    <3>2. CASE Holding(i)
      BY <3>1, <3>2, HolderEnds DEF StopStatus
    <3>3. CASE ~Holding(i)
      <4>1. mgr' = mgr /\ \A j \in Jobs : Holding(j)' => Holding(j)
        BY <3>1, <3>3 DEF StopStatus, Holding
      <4> QED
        BY <3>1, <4>1, HolderKept DEF StatusIsOwn
    <3> QED
      BY <3>2, <3>3
  <2> QED
    BY <1>5, <2>1, <2>2, <2>3, <2>4, <2>5 DEF StatusStep
<1>6. ASSUME NEW i \in Jobs, NEW d \in Daemons, Acquire(d, i)
      PROVE  StatusIsOwn'
  <2>1. \A j \in Jobs : Holding(j)' => j # i /\ Holding(j) /\ at'[j] = at[j]
    BY <1>6 DEF Acquire, Holding
  <2> QED
    BY <1>6, <2>1 DEF Acquire, StatusIsOwn
<1>7. ASSUME NEW i \in Jobs, EnqueueMigration(i) \/ Recover(i) \/ Cancel(i)
      PROVE  UNCHANGED <<pc, at, mgr>>
  BY <1>7 DEF EnqueueMigration, Recover, Cancel
<1>8. CASE UNCHANGED vars
  BY <1>1, <1>8 DEF vars
<1> QED
  BY <1>1, <1>2, <1>3, <1>4, <1>5, <1>6, <1>7, <1>8, Cases DEF JobStep

----------------------------------------------------------------------------
(* Theorems.                                                               *)

LEMMA ReprojectionInit ==
    ASSUME Init
    PROVE  TypeOK /\ ReprojectionInv
<1>1. TypeOK
  BY DEF Init, TypeOK, Stale
<1>2. RunHasDaemon /\ StatusIsOwn
  BY DEF Init, RunHasDaemon, StatusIsOwn, Holding
<1>3. NoneOld
  BY DEF Init, NoneOld, Old
<1> QED
  BY <1>1, <1>2, <1>3 DEF ReprojectionInv

(* The inductive invariant of Reprojection: types, a daemon for every run,  *)
(* no old row between finish's count and its stamp, a status of its own for *)
(* every run past StartTarget.                                              *)
THEOREM ReprojectionInvariant == Spec => [](TypeOK /\ ReprojectionInv)
<1>1. Init => TypeOK /\ ReprojectionInv
  BY ReprojectionInit
<1>2. TypeOK /\ ReprojectionInv /\ [Next]_vars => (TypeOK /\ ReprojectionInv)'
  BY TypeStep, RunHasDaemonStep, NoneOldStep, StatusIsOwnStep DEF ReprojectionInv
<1> QED
  BY <1>1, <1>2, PTL DEF Spec

(* The signature vouches for the rows (VerifyFTS, reprojectRun.finish), for *)
(* any number of daemons, jobs, rows and faults.                            *)
THEOREM SignatureVouches == Spec => []SignatureCovers
<1>1. ReprojectionInv => SignatureCovers
  BY DEF ReprojectionInv, NoneOld, SignatureCovers
<1> QED
  BY <1>1, ReprojectionInvariant, PTL

(* A run past StartTarget has the upgrade status to itself.                 *)
THEOREM StatusExclusive == Spec => []StatusIsOwn
<1>1. ReprojectionInv => StatusIsOwn
  BY DEF ReprojectionInv
<1> QED
  BY <1>1, ReprojectionInvariant, PTL


----------------------------------------------------------------------------
(* The upgrade as a whole.                                                 *)

(* A step that touches one row and leaves it other than old.                *)
LEMMA OneRowOut ==
    ASSUME NEW o \in Objects,
           \A q \in Objects \ {o} : row'[q] = row[q] /\ (q \in repaired' <=> q \in repaired),
           row'[o] # "stale" \/ o \in repaired'
    PROVE  Old' = Old \ {o}
<1>1. o \notin Old'
  BY DEF Old, Stale
<1>2. \A q \in Objects \ {o} : q \in Old' <=> q \in Old
  BY DEF Old, Stale
<1>3. Old \subseteq Objects /\ Old' \subseteq Objects
  BY DEF Old, Stale
<1> QED
  BY <1>1, <1>2, <1>3

(* A step on one row takes that row, or none, out of the old ones.          *)
LEMMA RowLeaves ==
    ASSUME NEW o, Old' = Old \/ Old' = Old \ {o}, UNCHANGED sig
    PROVE  [Upgrade!Next]_Upgrade!vars
<1>1. CASE o \in Old /\ Old' = Old \ {o}
  <2>1. Upgrade!Replace(o)
    BY <1>1 DEF Upgrade!Replace
  <2> QED
    BY <1>1, <2>1 DEF Upgrade!Next
<1>2. CASE Old' = Old
  BY <1>2 DEF Upgrade!vars
<1> QED
  BY <1>1, <1>2

(* The system implements ProjectionUpgrade, whatever the objects, daemons,  *)
(* jobs and bounds.                                                         *)
THEOREM UpgradeImplemented == Spec => ImplementsUpgrade
<1>1. Init => Upgrade!Init
  BY DEF Init, Upgrade!Init, Old
<1>2. TypeOK /\ ReprojectionInv /\ [Next]_vars => [Upgrade!Next]_Upgrade!vars
  <2> SUFFICES ASSUME TypeOK, ReprojectionInv, [Next]_vars
               PROVE  [Upgrade!Next]_Upgrade!vars
    OBVIOUS
  <2> USE DEF TypeOK
  <2>1. ASSUME UNCHANGED <<row, repaired, sig>>
        PROVE  [Upgrade!Next]_Upgrade!vars
    BY <2>1 DEF Upgrade!vars, Old, Stale
  <2>2. ASSUME NEW o \in Objects, Write(o) \/ Delete(o)
        PROVE  [Upgrade!Next]_Upgrade!vars
    <3>1. Old' = Old \ {o} /\ UNCHANGED sig
      BY <2>2, OneRowOut DEF Write, Delete
    <3> QED
      BY <3>1, RowLeaves
  <2>3. ASSUME NEW j \in Jobs, NEW o \in Objects, RepairRefText(j, o) \/ Reproject(j, o)
        PROVE  [Upgrade!Next]_Upgrade!vars
    <3>1. UNCHANGED sig
      BY <2>3 DEF RepairRefText, Reproject
    <3>2. CASE RepairRefText(j, o)
      <4>1. CASE row[o] = "stale" \/ UNCHANGED <<row, repaired>>
        <5>1. repaired' = repaired /\ \A q \in Objects : row'[q] = row[q]
          BY <3>2, <4>1 DEF RepairRefText
        <5>2. Old' = Old
          BY <5>1 DEF Old, Stale
        <5> QED
          BY <3>1, <5>2, RowLeaves
      <4>2. CASE row[o] # "stale" /\ ~UNCHANGED <<row, repaired>>
        <5>1. Old' = Old \ {o}
          BY <3>2, <4>2, OneRowOut DEF RepairRefText
        <5> QED
          BY <3>1, <5>1, RowLeaves
      <4> QED
        BY <4>1, <4>2
    <3>3. CASE Reproject(j, o)
      <4>1. Old' = Old \/ Old' = Old \ {o}
        BY <3>3, OneRowOut DEF Reproject, Old, Stale
      <4> QED
        BY <3>1, <4>1, RowLeaves
    <3> QED
      BY <2>3, <3>2, <3>3
  <2>4. ASSUME NEW d \in Daemons, DaemonStep(d)
        PROVE  [Upgrade!Next]_Upgrade!vars
    <3>1. CASE Start(d) /\ sig = "none"
      <4>1. Upgrade!FirstBoot
        BY <3>1 DEF Start, Upgrade!FirstBoot, Old, Stale
      <4> QED
        BY <4>1 DEF Upgrade!Next
    <3>2. CASE ~(Start(d) /\ sig = "none")
      BY <2>1, <2>4, <3>2 DEF DaemonStep, Start, ListRunning, ListPending, Enqueue, StartFails,
                              Crash, Stop, Gone
    <3> QED
      BY <3>1, <3>2
  <2>5. ASSUME NEW j \in Jobs, LoopStep(j)
        PROVE  [Upgrade!Next]_Upgrade!vars
    BY <2>1, <2>5 DEF LoopStep, Repaired, ListStale, Tick, Target, ListMissing, EmbedTickFails,
                      EmbedOne
  <2>6. ASSUME NEW j \in Jobs, StatusStep(j)
        PROVE  [Upgrade!Next]_Upgrade!vars
    BY <2>1, <2>6 DEF StatusStep, Begin, Count, Complete, StartMigration, EndMigration,
                      StoreFails, Interrupt
  <2>7. ASSUME NEW j \in Jobs, JobStep(j)
        PROVE  [Upgrade!Next]_Upgrade!vars
    BY <2>1, <2>7 DEF JobStep, EnqueueMigration, Recover, Cancel, Acquire
  <2>8. ASSUME NEW j \in Jobs, Stamp(j)
        PROVE  [Upgrade!Next]_Upgrade!vars
    <3>1. Old = {} /\ Old' = Old /\ sig' = "current"
      BY <2>8 DEF Stamp, ReprojectionInv, NoneOld, Old, Stale
    <3>2. Upgrade!FirstBoot \/ Upgrade!Finish \/ UNCHANGED Upgrade!vars
      BY <3>1 DEF Upgrade!FirstBoot, Upgrade!Finish, Upgrade!vars
    <3> QED
      BY <3>2 DEF Upgrade!Next
  <2>9. CASE UNCHANGED vars
    BY <2>1, <2>9 DEF vars
  <2> QED
    BY <2>2, <2>3, <2>4, <2>5, <2>6, <2>7, <2>8, <2>9, Cases DEF RowStep
<1> QED
  BY <1>1, <1>2, ReprojectionInvariant, PTL DEF Spec, ImplementsUpgrade, Upgrade!Spec
=============================================================================
