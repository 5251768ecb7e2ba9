-------------------------- MODULE DirectOpenProofs --------------------------
(***************************************************************************)
(* Proofs about DirectOpen: one writer at a time, on the file that is at   *)
(* the path, with the class on record and no WAL but its own.              *)
(***************************************************************************)
EXTENDS DirectOpen, TLAPS

(* Labels at which a process holds the lock.                                *)
LockedPcs == {"truncate", "body", "record", "opening", "bind", "open", "mark", "release",
              "probing", "copy", "remove"}

(* Who is between taking the lock and releasing it is its holder.           *)
LockIsHeld == \A p \in Procs : pc[p] \in LockedPcs => lock = p

(* The class is on record from before the open.                             *)
ClassIsRecorded ==
    \A p \in Daemons : pc[p] \in {"opening", "bind", "open"} /\ class[p] = "protected"
                          => marker = "protected"

(* A set-access that has closed its audit log knows the class to record.    *)
MarkHasClass == \A p \in Procs : pc[p] = "mark" => class[p] # None

(* The WAL beside the database is its own, but for a restore at work or one *)
(* that was cut short.                                                      *)
WalIsOwn == ~cut => wal \in {None, file} \/ \E r \in Procs : pc[r] = "remove"

DirectOpenInv == /\ LockIsHeld /\ WriterHasTheFile /\ ClassIsRecorded /\ WalIsOwn
                 /\ ReplaysOwnWal /\ MarkHasClass

(* A step keeps the types.                                                 *)
LEMMA TypeStep == TypeOK /\ DirectOpenInv /\ [Next]_vars => TypeOK'
<1> SUFFICES ASSUME TypeOK, MarkHasClass, [Next]_vars PROVE TypeOK'
  BY DEF DirectOpenInv
<1> USE NoneAssumption DEF Procs, Writers, Classes, To, Return, Fault, Connect,
        Disconnect, Checkpoint, Recorded, files, handles, TypeOK
<1>1. ASSUME NEW p \in Procs, Begin(p) \/ Step(p) \/ Crash(p) PROVE TypeOK'
  <2>1. CASE TryLock(p)
    BY <2>1 DEF TryLock
  <2>2. CASE Held(p)
    BY <2>2 DEF Held
  <2>3. CASE GiveUp(p)
    BY <2>3 DEF GiveUp
  <2>4. CASE ReadHolder(p)
    BY <2>4 DEF ReadHolder
  <2>5. CASE Truncate(p)
    BY <2>5 DEF Truncate
  <2>6. CASE WriteBody(p)
    BY <2>6 DEF WriteBody
  <2>7. CASE WriteBodyFails(p)
    BY <2>7 DEF WriteBodyFails
  <2>8. CASE Release(p)
    BY <2>8 DEF Release
  <2>9. CASE RecordAccess(p)
    BY <2>9 DEF RecordAccess
  <2>10. CASE RecordFails(p)
    BY <2>10 DEF RecordFails
  <2>11. CASE Open(p)
    BY <2>11 DEF Open
  <2>12. CASE OpenFails(p)
    BY <2>12 DEF OpenFails
  <2>13. CASE RecordAddress(p)
    BY <2>13 DEF RecordAddress
  <2>14. CASE StartFails(p)
    BY <2>14 DEF StartFails
  <2>15. CASE Exit(p)
    BY <2>15 DEF Exit
  <2>16. CASE Close(p)
    BY <2>16 DEF Close
  <2>17. CASE Mark(p)
    BY <2>17 DEF Mark, MarkHasClass
  <2>18. CASE OpenReadOnly(p)
    BY <2>18 DEF OpenReadOnly
  <2>19. CASE CloseReadOnly(p)
    BY <2>19 DEF CloseReadOnly
  <2>20. CASE Check(p)
    BY <2>20 DEF Check
  <2>21. CASE Unprobe(p)
    BY <2>21 DEF Unprobe
  <2>22. CASE LockForWrite(p)
    BY <2>22 DEF LockForWrite
  <2>23. CASE ReplaceFile(p)
    BY <2>23 DEF ReplaceFile
  <2>24. CASE CopyFails(p)
    BY <2>24 DEF CopyFails
  <2>25. CASE RemoveStale(p)
    BY <2>25 DEF RemoveStale
  <2>26. CASE RemoveFails(p)
    BY <2>26 DEF RemoveFails
  <2>27. CASE Crash(p)
    BY <2>27 DEF Crash
  <2>28. CASE Serve(p)
    BY <2>28 DEF Serve
  <2>29. CASE Write(p)
    BY <2>29 DEF Write
  <2>30. CASE Override(p)
    BY <2>30 DEF Override
  <2>31. CASE SetAccess(p)
    BY <2>31 DEF SetAccess
  <2>32. CASE Read(p)
    BY <2>32 DEF Read
  <2>33. CASE Restore(p)
    BY <2>33 DEF Restore
  <2>34. QED
        BY <1>1, <2>1, <2>2, <2>3, <2>4, <2>5, <2>6, <2>7, <2>8, <2>9, <2>10, <2>11,
       <2>12, <2>13, <2>14, <2>15, <2>16, <2>17, <2>18, <2>19, <2>20, <2>21, <2>22,
       <2>23, <2>24, <2>25, <2>26, <2>27, <2>28, <2>29, <2>30, <2>31, <2>32, <2>33 DEF
       Begin, Step
<1>2. CASE UNCHANGED vars
  BY <1>2 DEF vars
<1>3. QED
  BY <1>1, <1>2 DEF Next

(* A step keeps the invariant.  Whatever touches the files holds the lock,  *)
(* so nobody else is between its open and its close.                        *)
LEMMA InvStep == TypeOK /\ DirectOpenInv /\ [Next]_vars => DirectOpenInv'
<1> SUFFICES ASSUME TypeOK, DirectOpenInv, [Next]_vars PROVE DirectOpenInv'
  OBVIOUS
<1> USE NoneAssumption, KindsAssumption DEF Procs, Writers, Classes, To, Return, Fault,
        Connect, Disconnect, Checkpoint, Recorded, files, handles, TypeOK,
        DirectOpenInv, LockedPcs, LockIsHeld, WriterHasTheFile, ClassIsRecorded,
        WalIsOwn, ReplaysOwnWal, MarkHasClass
<1>1. ASSUME NEW p \in Procs, Begin(p) \/ Step(p) \/ Crash(p) PROVE DirectOpenInv'
  <2>1. CASE TryLock(p)
    BY <2>1 DEF TryLock
  <2>2. CASE Held(p)
    BY <2>2 DEF Held
  <2>3. CASE GiveUp(p)
    BY <2>3 DEF GiveUp
  <2>4. CASE ReadHolder(p)
    BY <2>4 DEF ReadHolder
  <2>5. CASE Truncate(p)
    BY <2>5 DEF Truncate
  <2>6. CASE WriteBody(p)
    BY <2>6 DEF WriteBody
  <2>7. CASE WriteBodyFails(p)
    BY <2>7 DEF WriteBodyFails
  <2>8. CASE Release(p)
    BY <2>8 DEF Release
  <2>9. CASE RecordAccess(p)
    BY <2>9 DEF RecordAccess
  <2>10. CASE RecordFails(p)
    BY <2>10 DEF RecordFails
  <2>11. CASE Open(p)
    BY <2>11 DEF Open
  <2>12. CASE OpenFails(p)
    BY <2>12 DEF OpenFails
  <2>13. CASE RecordAddress(p)
    BY <2>13 DEF RecordAddress
  <2>14. CASE StartFails(p)
    BY <2>14 DEF StartFails
  <2>15. CASE Exit(p)
    BY <2>15 DEF Exit
  <2>16. CASE Close(p)
    BY <2>16 DEF Close
  <2>17. CASE Mark(p)
    BY <2>17 DEF Mark
  <2>18. CASE OpenReadOnly(p)
    BY <2>18 DEF OpenReadOnly
  <2>19. CASE CloseReadOnly(p)
    BY <2>19 DEF CloseReadOnly
  <2>20. CASE Check(p)
    BY <2>20 DEF Check
  <2>21. CASE Unprobe(p)
    BY <2>21 DEF Unprobe
  <2>22. CASE LockForWrite(p)
    BY <2>22 DEF LockForWrite
  <2>23. CASE ReplaceFile(p)
    BY <2>23 DEF ReplaceFile
  <2>24. CASE CopyFails(p)
    BY <2>24 DEF CopyFails
  <2>25. CASE RemoveStale(p)
    BY <2>25 DEF RemoveStale
  <2>26. CASE RemoveFails(p)
    BY <2>26 DEF RemoveFails
  <2>27. CASE Crash(p)
    BY <2>27 DEF Crash
  <2>28. CASE Serve(p)
    BY <2>28 DEF Serve
  <2>29. CASE Write(p)
    BY <2>29 DEF Write
  <2>30. CASE Override(p)
    BY <2>30 DEF Override
  <2>31. CASE SetAccess(p)
    BY <2>31 DEF SetAccess
  <2>32. CASE Read(p)
    BY <2>32 DEF Read
  <2>33. CASE Restore(p)
    BY <2>33 DEF Restore
  <2>34. QED
        BY <1>1, <2>1, <2>2, <2>3, <2>4, <2>5, <2>6, <2>7, <2>8, <2>9, <2>10, <2>11,
       <2>12, <2>13, <2>14, <2>15, <2>16, <2>17, <2>18, <2>19, <2>20, <2>21, <2>22,
       <2>23, <2>24, <2>25, <2>26, <2>27, <2>28, <2>29, <2>30, <2>31, <2>32, <2>33 DEF
       Begin, Step
<1>2. CASE UNCHANGED vars
  BY <1>2 DEF vars
<1>3. QED
  BY <1>1, <1>2 DEF Next

-----------------------------------------------------------------------------
(* TypeOK and DirectOpenInv hold in every reachable state: the lock belongs *)
(* to whoever is between acquire and release, and the files change only     *)
(* under it.                                                                *)
THEOREM DirectOpenInvariant == Spec => [](TypeOK /\ DirectOpenInv)
<1>1. Init => TypeOK /\ DirectOpenInv
  <2>1. ASSUME Init PROVE TypeOK
    <3>1. lock \in Procs \cup {None} /\ body \in {"none", "empty", "daemon", "cli"}
          /\ marker \in Classes /\ cut \in BOOLEAN
      BY <2>1, Zenon DEF Init, Classes
    <3>2. file \in Nat /\ wal \in Nat \cup {None} /\ faults \in Nat
      BY <2>1 DEF Init
    <3>3. QED
      BY <2>1, <3>1, <3>2 DEF Init, TypeOK
  <2>2. Init => LockIsHeld /\ WalIsOwn /\ MarkHasClass
    BY DEF Init, LockIsHeld, LockedPcs, WalIsOwn, MarkHasClass
  <2>3. Init => WriterHasTheFile /\ ClassIsRecorded /\ ReplaysOwnWal
    BY DEF Init, Procs, Writers, WriterHasTheFile, ClassIsRecorded, ReplaysOwnWal
  <2>4. QED
    BY <2>1, <2>2, <2>3 DEF DirectOpenInv
<1>2. TypeOK /\ DirectOpenInv /\ [Next]_vars => (TypeOK /\ DirectOpenInv)'
  BY TypeStep, InvStep
<1>3. QED
  BY <1>1, <1>2, PTL DEF Spec

(* No two of serve, direct writers and restores have the database to write  *)
(* or to replace: the store is closed before the lock is released.          *)
THEOREM WriterIsAlone == Spec => []OneWriter
<1>1. TypeOK /\ DirectOpenInv => OneWriter
  BY DEF OneWriter, Writing, DirectOpenInv, LockIsHeld, LockedPcs
<1>2. QED
  BY <1>1, DirectOpenInvariant, PTL

(* No restore unlinks the file under a writer.                              *)
THEOREM WriterKeepsItsFile == Spec => []WriterHasTheFile
<1>1. TypeOK /\ DirectOpenInv => WriterHasTheFile
  BY DEF DirectOpenInv
<1>2. QED
  BY <1>1, DirectOpenInvariant, PTL

(* A protected daemon's class is on record for as long as it has its        *)
(* database open.                                                           *)
THEOREM ServedClass == Spec => []ServedClassIsRecorded
<1>1. TypeOK /\ DirectOpenInv => ServedClassIsRecorded
  BY DEF ServedClassIsRecorded, DirectOpenInv, ClassIsRecorded
<1>2. QED
  BY <1>1, DirectOpenInvariant, PTL

(* Unless a restore was cut short after its rename, a writer recovers the   *)
(* WAL of its own database.                                                 *)
THEOREM OwnWal == Spec => []ReplaysOwnWal
<1>1. TypeOK /\ DirectOpenInv => ReplaysOwnWal
  BY DEF DirectOpenInv
<1>2. QED
  BY <1>1, DirectOpenInvariant, PTL

-----------------------------------------------------------------------------
(* The refinement of DatabaseFile.                                          *)

(* p moves alone.                                                           *)
Alone(p) == \A q \in Procs \ {p} : pc'[q] = pc[q] /\ class'[q] = class[q]

LEMMA UsersHoldTheLock ==
    ASSUME LockIsHeld
    PROVE  \A p \in Procs : Writing(p) => Users = {p}
BY DEF LockIsHeld, LockedPcs, Users, Writing

(* A step before the open or after the close.                               *)
LEMMA OutsideUse ==
    ASSUME NEW p \in Procs, Alone(p), ~Writing(p), ~Writing(p)'
    PROVE  Users' = Users /\ Served' = Served
<1>1. \A q \in Procs : Writing(q)' <=> Writing(q)
  BY DEF Alone, Writing
<1>2. \A q \in Procs : Writing(q) => class'[q] = class[q]
  BY DEF Alone
<1> QED
  BY <1>1, <1>2 DEF Users, Served, Procs, Writers

LEMMA InsideUse ==
    ASSUME NEW p \in Procs, Alone(p), Writing(p), Writing(p)', class' = class
    PROVE  Users' = Users /\ Served' = Served
<1>1. \A q \in Procs : Writing(q)' <=> Writing(q)
  BY DEF Alone, Writing
<1> QED
  BY <1>1 DEF Users, Served, Procs, Writers

(* The lock's holder enters: nobody else is in.                             *)
LEMMA EnterUse ==
    ASSUME TypeOK, ClassIsRecorded, LockIsHeld, NEW p \in Procs, Alone(p), lock = p,
           ~Writing(p), Writing(p)', class' = class, UNCHANGED <<marker, file>>,
           p \in Daemons => pc[p] = "opening"
    PROVE  Database!Next
<1>1. Users = {}
  BY DEF LockIsHeld, LockedPcs, Users, Writing
<1>2. \A q \in Procs : Writing(q)' <=> q = p
  BY <1>1 DEF Alone, Users, Writing
<1>3. Users' = {p}
  BY <1>2 DEF Users
<1>4. Served' = "private" \/ (Served' = "protected" /\ marker = "protected")
  BY <1>2 DEF Served, ClassIsRecorded, Procs, Writers
<1>5. Database!Enter(p)
  BY <1>1, <1>3, <1>4 DEF Database!Enter
<1> QED
  BY <1>5 DEF Database!Next

LEMMA LeaveUse ==
    ASSUME LockIsHeld, NEW p \in Procs, Alone(p), Writing(p), ~Writing(p)',
           UNCHANGED <<marker, file>>
    PROVE  Database!Next
<1>1. Users = {p}
  BY UsersHoldTheLock
<1>2. \A q \in Procs : ~Writing(q)'
  BY <1>1 DEF Alone, Users, Writing
<1>3. Users' = {} /\ Served' = "private"
  BY <1>2 DEF Users, Served, Procs, Writers
<1>4. Database!Leave(p)
  BY <1>1, <1>3 DEF Database!Leave
<1> QED
  BY <1>4 DEF Database!Next

(* The lock protocol, the marker and the restore implement DatabaseFile, for *)
(* any processes, restores and crashes.                                      *)
THEOREM DatabaseFileImplemented == Spec => ImplementsDatabaseFile
<1>1. Init => Database!Init
  BY DEF Init, Database!Init, Users, Served, Writing, Procs, Writers
<1>2. TypeOK /\ DirectOpenInv /\ [Next]_vars => [Database!Next]_Database!vars
  <2> SUFFICES ASSUME TypeOK, DirectOpenInv, [Next]_vars PROVE [Database!Next]_Database!vars
    OBVIOUS
  <2> USE NoneAssumption, KindsAssumption DEF files, handles
  <2>1. LockIsHeld /\ ClassIsRecorded
    BY DEF DirectOpenInv
  <2>2. ASSUME NEW p \in Procs, Begin(p) \/ Step(p) \/ Crash(p)
        PROVE  [Database!Next]_Database!vars
    <3>1. Alone(p)
      BY <2>2 DEF Alone, TypeOK, Begin, Step, Serve, Write, Override, SetAccess, Read, Restore,
         TryLock, Held, GiveUp, ReadHolder, Truncate, WriteBody, WriteBodyFails, Release,
         RecordAccess, RecordFails, Open, OpenFails, RecordAddress, StartFails, Exit, Close, Mark,
         OpenReadOnly, CloseReadOnly, Check, Unprobe, LockForWrite, ReplaceFile, CopyFails,
         RemoveStale, RemoveFails, Crash, To, Return
    <3>2. ASSUME ~Writing(p), ~Writing(p)', UNCHANGED <<marker, file>>
          PROVE  [Database!Next]_Database!vars
      BY <3>1, <3>2, OutsideUse DEF Database!vars
    <3>3. CASE Begin(p)
      BY <3>2, <3>3 DEF TypeOK, Begin, Serve, Write, Override, SetAccess, Read, Restore, To, Writing
    <3>4. CASE TryLock(p) \/ Held(p) \/ GiveUp(p) \/ ReadHolder(p) \/ Truncate(p)
               \/ WriteBodyFails(p) \/ Release(p) \/ OpenFails(p)
      BY <3>2, <3>4 DEF TypeOK, TryLock, Held, GiveUp, ReadHolder, Truncate, WriteBodyFails,
         Release, OpenFails, To, Return, Writing
    <3>5. CASE Exit(p) \/ OpenReadOnly(p) \/ CloseReadOnly(p) \/ Check(p) \/ Unprobe(p)
               \/ LockForWrite(p)
      BY <3>2, <3>5 DEF TypeOK, Exit, OpenReadOnly, CloseReadOnly, Check, Unprobe, LockForWrite,
         To, Return, Writing
    <3>6. CASE WriteBody(p)
      <4>1. CASE Writing(p)'
        <5>1. /\ lock = p /\ ~Writing(p) /\ class' = class /\ UNCHANGED <<marker, file>>
              /\ p \notin Daemons
          BY <2>1, <3>6, <4>1 DEF TypeOK, WriteBody, To, Writing, LockIsHeld, LockedPcs
        <5> QED
          BY <2>1, <3>1, <4>1, <5>1, EnterUse
      <4>2. CASE ~Writing(p)'
        BY <3>2, <3>6, <4>2 DEF WriteBody, Writing
      <4> QED
        BY <4>1, <4>2
    <3>7. CASE Open(p)
      <4>1. /\ lock = p /\ ~Writing(p) /\ Writing(p)' /\ class' = class
            /\ UNCHANGED <<marker, file>> /\ pc[p] = "opening"
        BY <2>1, <3>7 DEF TypeOK, Open, To, Writing, LockIsHeld, LockedPcs
      <4> QED
        BY <2>1, <3>1, <4>1, EnterUse
    <3>8. CASE RecordAccess(p) \/ RecordFails(p)
      <4>1. ~Writing(p) /\ ~Writing(p)' /\ file' = file /\ marker' \in {marker, "protected"}
        BY <3>8 DEF TypeOK, RecordAccess, RecordFails, Recorded, To, Writing
      <4>2. Users' = Users /\ Served' = Served
        BY <3>1, <4>1, OutsideUse
      <4>3. Database!Protect \/ UNCHANGED Database!vars
        BY <4>1, <4>2 DEF Database!Protect, Database!vars
      <4> QED
        BY <4>3 DEF Database!Next
    <3>9. CASE Mark(p)
      <4>1. /\ ~Writing(p) /\ ~Writing(p)' /\ file' = file /\ lock = p
            /\ marker' = marker \/ marker' \in Classes
        BY <2>1, <3>9 DEF TypeOK, Mark, To, Writing, LockIsHeld, LockedPcs, DirectOpenInv,
           MarkHasClass
      <4>2. Users' = Users /\ Served' = Served
        BY <3>1, <4>1, OutsideUse
      <4>3. Users = {}
        BY <2>1, <4>1 DEF LockIsHeld, LockedPcs, Users, Writing
      <4>4. Database!Protect \/ Database!Lower \/ UNCHANGED Database!vars
        BY <4>1, <4>2, <4>3 DEF Database!Protect, Database!Lower, Database!vars, Classes
      <4> QED
        BY <4>4 DEF Database!Next
    <3>10. CASE RecordAddress(p)
      <4>1. Writing(p) /\ Writing(p)' /\ class' = class /\ file' = file
            /\ marker' \in {marker, "protected"}
        BY <3>10 DEF TypeOK, RecordAddress, Recorded, To, Writing
      <4>2. Users' = Users /\ Served' = Served
        BY <3>1, <4>1, InsideUse
      <4>3. Database!Protect \/ UNCHANGED Database!vars
        BY <4>1, <4>2 DEF Database!Protect, Database!vars
      <4> QED
        BY <4>3 DEF Database!Next
    <3>11. CASE ReplaceFile(p)
      <4>1. Writing(p) /\ Writing(p)' /\ class' = class /\ file' = file + 1 /\ marker' = marker
        BY <3>11 DEF TypeOK, ReplaceFile, To, Writing
      <4>2. Users' = Users /\ Served' = Served /\ Users = {p}
        BY <2>1, <3>1, <4>1, InsideUse, UsersHoldTheLock
      <4>3. Database!Replace(p)
        BY <4>1, <4>2 DEF Database!Replace
      <4> QED
        BY <4>3 DEF Database!Next
    <3>12. CASE StartFails(p) \/ Close(p) \/ CopyFails(p) \/ RemoveStale(p) \/ RemoveFails(p)
      <4>1. Writing(p) /\ ~Writing(p)' /\ UNCHANGED <<marker, file>>
        BY <3>12 DEF TypeOK, StartFails, Close, CopyFails, RemoveStale, RemoveFails, To, Writing
      <4> QED
        BY <2>1, <3>1, <4>1, LeaveUse
    <3>13. CASE Crash(p)
      <4>1. ~Writing(p)' /\ UNCHANGED <<marker, file>>
        BY <3>13 DEF TypeOK, Crash, Return, To, Writing
      <4> QED
        BY <2>1, <3>1, <3>2, <4>1, LeaveUse
    <3> QED
      BY <2>2, <3>3, <3>4, <3>5, <3>6, <3>7, <3>8, <3>9, <3>10, <3>11, <3>12, <3>13 DEF Step
  <2>3. CASE UNCHANGED vars
    BY <2>3 DEF vars, Database!vars, Users, Served, Writing
  <2> QED
    BY <2>2, <2>3 DEF Next
<1> QED
  BY <1>1, <1>2, DirectOpenInvariant, PTL DEF Spec, ImplementsDatabaseFile, Database!Spec
=============================================================================
