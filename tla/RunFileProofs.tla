---------------------------- MODULE RunFileProofs ----------------------------
(***************************************************************************)
(* Proofs about RunFile, for any number of processes and inodes.           *)
(*                                                                         *)
(* A process past its inode check has the exclusive lock of the inode at   *)
(* the path.  An inode has one exclusive holder, so two such processes     *)
(* would be one.  The path changes only at the hands of such a process     *)
(* (which is alone, so it disturbs nobody), or from nothing to an inode    *)
(* nobody has open.                                                        *)
(***************************************************************************)
EXTENDS RunFile, TLAPS

USE NoneAssumption, TriesAssumption

(* The sets of control points a step moves between.                         *)
LEMMA PCSets ==
    /\ PCs = {"idle", "open", "lock", "check", "truncate", "write", "running", "unlock",
              "rlock", "runlock", "rread", "slock", "scheck", "sremove", "sunlock", "held"}
    /\ OpenPCs = PCs \ {"idle", "open", "held"}
BY DEF PCs, OpenPCs, AcquirePCs, ReleasePCs, ReadPCs, RemovePCs

(* Closing a file keeps the types and the invariant of the other processes. *)
LEMMA ReturnStep ==
    ASSUME TypeOK, RunInv, NEW p \in Procs, Return(p), UNCHANGED <<path, text>>
    PROVE  TypeOK' /\ RunInv'
<1> USE PCSets DEF Return, Unlocked, LockedPCs, AtPathPCs
<1>1. TypeOK'
  BY DEF TypeOK
<1>2. HasLock'
  BY DEF TypeOK, RunInv, HasLock
<1>3. LockIsOpen'
  BY DEF TypeOK, RunInv, LockIsOpen
<1>4. AtPath'
  BY DEF TypeOK, RunInv, AtPath
<1>5. Written' /\ TriesLeft'
  BY DEF TypeOK, RunInv, Written, TriesLeft
<1> QED BY <1>1, <1>2, <1>3, <1>4, <1>5 DEF RunInv

(* Every step keeps the types and the inductive invariant.                  *)
LEMMA RunInvStep == TypeOK /\ RunInv /\ [Next]_vars => TypeOK' /\ RunInv'
<1> SUFFICES ASSUME TypeOK, RunInv, [Next]_vars
             PROVE  TypeOK' /\ RunInv'
  OBVIOUS
<1> USE PCSets DEF LockedPCs, AtPathPCs
<1>1. CASE UNCHANGED vars
  BY <1>1 DEF vars, fileVars, procVars, TypeOK, RunInv, HasLock, LockIsOpen, AtPath, Written, TriesLeft
<1>2. ASSUME NEW p \in Procs, Step(p)
      PROVE  TypeOK' /\ RunInv'
  <2>1. CASE Start(p)
    <3> USE <2>1 DEF Start, Goto, fileVars
    <3>1. TypeOK'
      BY DEF TypeOK, RunInv, TriesLeft
    <3>2. HasLock'
      BY DEF TypeOK, RunInv, HasLock, LockIsOpen
    <3>3. LockIsOpen'
      BY DEF TypeOK, RunInv, HasLock, LockIsOpen
    <3>4. AtPath'
      BY DEF TypeOK, RunInv, HasLock, LockIsOpen, AtPath
    <3>5. Written'
      BY DEF TypeOK, RunInv, HasLock, LockIsOpen, AtPath, Written
    <3>6. TriesLeft'
      BY DEF TypeOK, RunInv, TriesLeft
    <3> QED BY <3>1, <3>2, <3>3, <3>4, <3>5, <3>6 DEF RunInv
  <2>2. CASE OpenFile(p)
    <3> USE <2>2 DEF OpenFile, Open, Fresh, fileVars
    <3>1. TypeOK'
      BY DEF TypeOK, RunInv, TriesLeft
    <3>2. HasLock'
      BY DEF TypeOK, RunInv, HasLock, LockIsOpen
    <3>3. LockIsOpen'
      BY DEF TypeOK, RunInv, HasLock, LockIsOpen
    <3>4. AtPath'
      BY DEF TypeOK, RunInv, HasLock, LockIsOpen, AtPath
    <3>5. Written'
      BY DEF TypeOK, RunInv, HasLock, LockIsOpen, AtPath, Written
    <3>6. TriesLeft'
      BY DEF TypeOK, RunInv, TriesLeft
    <3> QED BY <3>1, <3>2, <3>3, <3>4, <3>5, <3>6 DEF RunInv
  <2>3. CASE TryLock(p)
    <3>0. CASE Return(p) /\ UNCHANGED <<path, text>>
      BY <3>0, ReturnStep
    <3>0a. CASE ~(Return(p) /\ UNCHANGED <<path, text>>)
      <4> USE <2>3, <3>0a DEF TryLock, Goto, Free, Open, fileVars
      <4>1. TypeOK'
        BY DEF TypeOK, RunInv, TriesLeft
      <4>2. HasLock'
        BY DEF TypeOK, RunInv, HasLock, LockIsOpen
      <4>3. LockIsOpen'
        BY DEF TypeOK, RunInv, HasLock, LockIsOpen
      <4>4. AtPath'
        BY DEF TypeOK, RunInv, HasLock, LockIsOpen, AtPath
      <4>5. Written'
        BY DEF TypeOK, RunInv, HasLock, LockIsOpen, AtPath, Written
      <4>6. TriesLeft'
        BY DEF TypeOK, RunInv, TriesLeft
      <4> QED BY <4>1, <4>2, <4>3, <4>4, <4>5, <4>6 DEF RunInv
    <3> QED BY <3>0, <3>0a
  <2>4. CASE CheckPath(p)
    <3>0. CASE Return(p) /\ UNCHANGED <<path, text>>
      BY <3>0, ReturnStep
    <3>0a. CASE ~(Return(p) /\ UNCHANGED <<path, text>>)
      <4> USE <2>4, <3>0a DEF CheckPath, Goto, SamePath, Open, Unlocked, fileVars
      <4>1. TypeOK'
        BY DEF TypeOK, RunInv, TriesLeft
      <4>2. HasLock'
        BY DEF TypeOK, RunInv, HasLock, LockIsOpen
      <4>3. LockIsOpen'
        BY DEF TypeOK, RunInv, HasLock, LockIsOpen
      <4>4. AtPath'
        BY DEF TypeOK, RunInv, HasLock, LockIsOpen, AtPath
      <4>5. Written'
        BY DEF TypeOK, RunInv, HasLock, LockIsOpen, AtPath, Written
      <4>6. TriesLeft'
        BY DEF TypeOK, RunInv, TriesLeft
      <4> QED BY <4>1, <4>2, <4>3, <4>4, <4>5, <4>6 DEF RunInv
    <3> QED BY <3>0, <3>0a
  <2>5. CASE Truncate(p)
    <3> USE <2>5 DEF Truncate, Goto, fileVars
    <3>1. TypeOK'
      BY DEF TypeOK, RunInv, TriesLeft
    <3>2. HasLock'
      BY DEF TypeOK, RunInv, HasLock, LockIsOpen
    <3>3. LockIsOpen'
      BY DEF TypeOK, RunInv, HasLock, LockIsOpen
    <3>4. AtPath'
      BY DEF TypeOK, RunInv, HasLock, LockIsOpen, AtPath
    <3>5. Written'
      BY DEF TypeOK, RunInv, HasLock, LockIsOpen, AtPath, Written
    <3>6. TriesLeft'
      BY DEF TypeOK, RunInv, TriesLeft
    <3> QED BY <3>1, <3>2, <3>3, <3>4, <3>5, <3>6 DEF RunInv
  <2>6. CASE WriteInfo(p)
    <3> USE <2>6 DEF WriteInfo, fileVars
    <3>0. text' \in [Inodes -> Procs \cup {None}] /\ pc' \in [Procs -> PCs]
      BY DEF TypeOK
    <3>0a. 0 \in 0 .. MaxTries
      OBVIOUS
    <3>0b. tries' \in [Procs -> 0 .. MaxTries]
      BY <3>0a DEF TypeOK
    <3>1. TypeOK'
      BY <3>0, <3>0b DEF TypeOK
    <3>2. HasLock'
      BY DEF TypeOK, RunInv, HasLock, LockIsOpen
    <3>3. LockIsOpen'
      BY DEF TypeOK, RunInv, HasLock, LockIsOpen
    <3>4. AtPath'
      BY DEF TypeOK, RunInv, HasLock, LockIsOpen, AtPath
    <3>5. Written'
      BY DEF TypeOK, RunInv, HasLock, LockIsOpen, AtPath, Written
    <3>6. TriesLeft'
      BY DEF TypeOK, RunInv, TriesLeft
    <3> QED BY <3>1, <3>2, <3>3, <3>4, <3>5, <3>6 DEF RunInv
  <2>7. CASE Release(p)
    <3> USE <2>7 DEF Release, Goto, fileVars
    <3>1. TypeOK'
      BY DEF TypeOK, RunInv, TriesLeft
    <3>2. HasLock'
      BY DEF TypeOK, RunInv, HasLock, LockIsOpen
    <3>3. LockIsOpen'
      BY DEF TypeOK, RunInv, HasLock, LockIsOpen
    <3>4. AtPath'
      BY DEF TypeOK, RunInv, HasLock, LockIsOpen, AtPath
    <3>5. Written'
      BY DEF TypeOK, RunInv, HasLock, LockIsOpen, AtPath, Written
    <3>6. TriesLeft'
      BY DEF TypeOK, RunInv, TriesLeft
    <3> QED BY <3>1, <3>2, <3>3, <3>4, <3>5, <3>6 DEF RunInv
  <2>8. CASE Unlock(p)
    BY <2>8, ReturnStep DEF Unlock
  <2>9. CASE Read(p)
    <3> USE <2>9 DEF Read, Open, fileVars
    <3>1. TypeOK'
      BY DEF TypeOK, RunInv, TriesLeft
    <3>2. HasLock'
      BY DEF TypeOK, RunInv, HasLock, LockIsOpen
    <3>3. LockIsOpen'
      BY DEF TypeOK, RunInv, HasLock, LockIsOpen
    <3>4. AtPath'
      BY DEF TypeOK, RunInv, HasLock, LockIsOpen, AtPath
    <3>5. Written'
      BY DEF TypeOK, RunInv, HasLock, LockIsOpen, AtPath, Written
    <3>6. TriesLeft'
      BY DEF TypeOK, RunInv, TriesLeft
    <3> QED BY <3>1, <3>2, <3>3, <3>4, <3>5, <3>6 DEF RunInv
  <2>9a. CASE ReadMissing(p)
    BY <2>9a, ReturnStep DEF ReadMissing
  <2>10. CASE TryRLock(p)
    <3> USE <2>10 DEF TryRLock, fileVars
    <3>0. shared' \in [Inodes -> SUBSET Procs]
      BY DEF TypeOK
    <3>0a. alive' \in [Procs -> BOOLEAN] /\ pc' \in [Procs -> PCs]
      BY DEF TypeOK
    <3>1. TypeOK'
      BY <3>0, <3>0a DEF TypeOK
    <3>2. HasLock'
      BY DEF TypeOK, RunInv, HasLock, LockIsOpen
    <3>3. LockIsOpen'
      BY DEF TypeOK, RunInv, HasLock, LockIsOpen
    <3>4. AtPath'
      BY DEF TypeOK, RunInv, HasLock, LockIsOpen, AtPath
    <3>5. Written'
      BY DEF TypeOK, RunInv, HasLock, LockIsOpen, AtPath, Written
    <3>6. TriesLeft'
      BY DEF TypeOK, RunInv, TriesLeft
    <3> QED BY <3>1, <3>2, <3>3, <3>4, <3>5, <3>6 DEF RunInv
  <2>11. CASE RUnlock(p)
    <3> USE <2>11 DEF RUnlock, Goto, fileVars
    <3>1. TypeOK'
      BY DEF TypeOK, RunInv, TriesLeft
    <3>2. HasLock'
      BY DEF TypeOK, RunInv, HasLock, LockIsOpen
    <3>3. LockIsOpen'
      BY DEF TypeOK, RunInv, HasLock, LockIsOpen
    <3>4. AtPath'
      BY DEF TypeOK, RunInv, HasLock, LockIsOpen, AtPath
    <3>5. Written'
      BY DEF TypeOK, RunInv, HasLock, LockIsOpen, AtPath, Written
    <3>6. TriesLeft'
      BY DEF TypeOK, RunInv, TriesLeft
    <3> QED BY <3>1, <3>2, <3>3, <3>4, <3>5, <3>6 DEF RunInv
  <2>12. CASE ReadInfo(p)
    BY <2>12, ReturnStep DEF ReadInfo
  <2>13. CASE Stale(p)
    <3> USE <2>13 DEF Stale, Open, fileVars
    <3>1. TypeOK'
      BY DEF TypeOK, RunInv, TriesLeft
    <3>2. HasLock'
      BY DEF TypeOK, RunInv, HasLock, LockIsOpen
    <3>3. LockIsOpen'
      BY DEF TypeOK, RunInv, HasLock, LockIsOpen
    <3>4. AtPath'
      BY DEF TypeOK, RunInv, HasLock, LockIsOpen, AtPath
    <3>5. Written'
      BY DEF TypeOK, RunInv, HasLock, LockIsOpen, AtPath, Written
    <3>6. TriesLeft'
      BY DEF TypeOK, RunInv, TriesLeft
    <3> QED BY <3>1, <3>2, <3>3, <3>4, <3>5, <3>6 DEF RunInv
  <2>14. CASE TryLockStale(p)
    <3>0. CASE Return(p) /\ UNCHANGED <<path, text>>
      BY <3>0, ReturnStep
    <3>0a. CASE ~(Return(p) /\ UNCHANGED <<path, text>>)
      <4> USE <2>14, <3>0a DEF TryLockStale, Goto, Free, fileVars
      <4>1. TypeOK'
        BY DEF TypeOK, RunInv, TriesLeft
      <4>2. HasLock'
        BY DEF TypeOK, RunInv, HasLock, LockIsOpen
      <4>3. LockIsOpen'
        BY DEF TypeOK, RunInv, HasLock, LockIsOpen
      <4>4. AtPath'
        BY DEF TypeOK, RunInv, HasLock, LockIsOpen, AtPath
      <4>5. Written'
        BY DEF TypeOK, RunInv, HasLock, LockIsOpen, AtPath, Written
      <4>6. TriesLeft'
        BY DEF TypeOK, RunInv, TriesLeft
      <4> QED BY <4>1, <4>2, <4>3, <4>4, <4>5, <4>6 DEF RunInv
    <3> QED BY <3>0, <3>0a
  <2>15. CASE CheckStale(p)
    <3>0. CASE Return(p) /\ UNCHANGED <<path, text>>
      BY <3>0, ReturnStep
    <3>0a. CASE ~(Return(p) /\ UNCHANGED <<path, text>>)
      <4> USE <2>15, <3>0a DEF CheckStale, Goto, SamePath, fileVars
      <4>1. TypeOK'
        BY DEF TypeOK, RunInv, TriesLeft
      <4>2. HasLock'
        BY DEF TypeOK, RunInv, HasLock, LockIsOpen
      <4>3. LockIsOpen'
        BY DEF TypeOK, RunInv, HasLock, LockIsOpen
      <4>4. AtPath'
        BY DEF TypeOK, RunInv, HasLock, LockIsOpen, AtPath
      <4>5. Written'
        BY DEF TypeOK, RunInv, HasLock, LockIsOpen, AtPath, Written
      <4>6. TriesLeft'
        BY DEF TypeOK, RunInv, TriesLeft
      <4> QED BY <4>1, <4>2, <4>3, <4>4, <4>5, <4>6 DEF RunInv
    <3> QED BY <3>0, <3>0a
  <2>16. CASE RemoveStale(p)
    <3> USE <2>16 DEF RemoveStale, Goto, fileVars
    <3>1. TypeOK'
      BY DEF TypeOK, RunInv, TriesLeft
    <3>2. HasLock'
      BY DEF TypeOK, RunInv, HasLock, LockIsOpen
    <3>3. LockIsOpen'
      BY DEF TypeOK, RunInv, HasLock, LockIsOpen
    <3>4. AtPath'
      BY DEF TypeOK, RunInv, HasLock, LockIsOpen, AtPath
    <3>5. Written'
      BY DEF TypeOK, RunInv, HasLock, LockIsOpen, AtPath, Written
    <3>6. TriesLeft'
      BY DEF TypeOK, RunInv, TriesLeft
    <3> QED BY <3>1, <3>2, <3>3, <3>4, <3>5, <3>6 DEF RunInv
  <2>17. CASE UnlockStale(p)
    BY <2>17, ReturnStep DEF UnlockStale
  <2>18. CASE Crash(p)
    BY <2>18, ReturnStep DEF Crash
  <2> QED BY <1>2, <2>1, <2>2, <2>3, <2>4, <2>5, <2>6, <2>7, <2>8, <2>9, <2>9a, <2>10, <2>11, <2>12, <2>13, <2>14, <2>15, <2>16, <2>17, <2>18 DEF Step
<1> QED BY <1>1, <1>2 DEF Next

(* Every behaviour of the run file protocol keeps the types and the         *)
(* inductive invariant: past TryLock the lock is had, past the inode check *)
(* the locked inode is the one at the path.                                *)
THEOREM RunInvariant == Spec => [](TypeOK /\ RunInv)
<1>1. Init => TypeOK /\ RunInv
  BY PCSets DEF Init, TypeOK, RunInv, HasLock, LockIsOpen, AtPath, Written, TriesLeft,
                LockedPCs, AtPathPCs
<1>2. TypeOK /\ RunInv /\ [Next]_vars => (TypeOK /\ RunInv)'
  BY RunInvStep
<1> QED BY <1>1, <1>2, PTL DEF Spec

(* AcquireRun admits one watcher at a time, however many processes start,   *)
(* stop, crash and remove stale files at once: what their system calls     *)
(* make of the run lock are steps of ExclusiveRun, or none.                *)
THEOREM RunLockImplemented == Spec => ImplementsRunLock
<1> DEFINE H == {p \in Procs : Holding(p)}
<1>1. Init => Run!Init
  BY DEF Init, Run!Init, Holding
<1>2. TypeOK /\ RunInv /\ (TypeOK /\ RunInv)' /\ [Next]_vars => [Run!Next]_H
  <2> SUFFICES ASSUME TypeOK, RunInv, TypeOK', RunInv', [Next]_vars
               PROVE  [Run!Next]_H
    OBVIOUS
  <2>1. /\ \A p, q \in Procs : Holding(p) /\ Holding(q) => p = q
        /\ \A p, q \in Procs : Holding(p)' /\ Holding(q)' => p = q
    BY PCSets DEF TypeOK, RunInv, HasLock, AtPath, Holding, LockedPCs, AtPathPCs
  <2>2. CASE UNCHANGED vars
    BY <2>2 DEF vars, procVars, Holding
  <2>3. ASSUME NEW p \in Procs, \A q \in Procs \ {p} : pc'[q] = pc[q]
        PROVE  [Run!Next]_H
    <3>1. \A q \in Procs \ {p} : Holding(q)' <=> Holding(q)
      BY <2>3 DEF Holding
    <3>2. CASE Holding(p)' <=> Holding(p)
      BY <3>1, <3>2
    <3>3. CASE Holding(p)' /\ ~Holding(p)
      <4>1. H = {} /\ H' = {p}
        BY <2>1, <3>1, <3>3
      <4> QED BY <4>1 DEF Run!Next, Run!Acquire
    <3>4. CASE ~Holding(p)' /\ Holding(p)
      <4>1. H = {p} /\ H' = {}
        BY <2>1, <3>1, <3>4
      <4> QED BY <4>1 DEF Run!Next, Run!Leave
    <3> QED BY <3>2, <3>3, <3>4
  <2>4. ASSUME NEW p \in Procs, Step(p)
        PROVE  \A q \in Procs \ {p} : pc'[q] = pc[q]
    BY <2>4 DEF TypeOK, Step, Goto, Open, Return, Start, OpenFile, TryLock, CheckPath, Truncate,
                WriteInfo, Release, Unlock, Read, ReadMissing, TryRLock, RUnlock, ReadInfo,
                Stale, TryLockStale, CheckStale, RemoveStale, UnlockStale, Crash
  <2> QED BY <2>2, <2>3, <2>4 DEF Next
<1> QED BY <1>1, <1>2, RunInvariant, PTL DEF Spec, ImplementsRunLock, Run!Spec

(* No Release and no RemoveStale takes the run file of a live watcher, and  *)
(* none overwrites its pid.                                                *)
THEOREM WatcherStaysListed == Spec => []WatcherIsListed
<1>1. TypeOK /\ RunInv => WatcherIsListed
  BY PCSets DEF TypeOK, RunInv, HasLock, AtPath, Written, WatcherIsListed, LockedPCs, AtPathPCs
<1> QED BY <1>1, RunInvariant, PTL

=============================================================================
