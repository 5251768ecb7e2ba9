----------------------------- MODULE DirectOpen -----------------------------
(***************************************************************************)
(* Who may use the SQLite database file, and when it may be replaced:      *)
(* the database lock (internal/dblock), the access marker beside the       *)
(* database (internal/accessmarker), the direct opens of commands          *)
(* (internal/directopen), the start and stop of dpkms serve, and dpkms     *)
(* restore, which renames another database over the file and removes the   *)
(* old -wal (internal/service/restore.go, internal/safefs).                *)
(*                                                                         *)
(* A database is a number, the one a restore brings is the next.  A        *)
(* refusal that changes nothing is no step.  Protected and public are one  *)
(* class.  The kernel's lock and SQLite's WAL are external.                *)
(***************************************************************************)
EXTENDS Integers, FiniteSets

CONSTANTS
    Daemons,      \* dpkms serve processes
    Commands,     \* direct writers: commands, overrides, set-access, local pushes
    Readers,      \* commands that only read
    Restorers,    \* dpkms restore processes
    None,
    MaxRestores,  \* bound on the databases restored
    MaxFaults     \* bound on crashes and failed file operations

ASSUME KindsAssumption ==
    /\ Daemons \cap (Commands \cup Readers \cup Restorers) = {}
    /\ Commands \cap (Readers \cup Restorers) = {}
    /\ Readers \cap Restorers = {}
ASSUME NoneAssumption == None \notin Nat \cup Daemons \cup Commands \cup Readers \cup Restorers
ASSUME BoundsAssumption == MaxRestores \in Nat /\ MaxFaults \in Nat

Writers == Daemons \cup Commands
Procs == Writers \cup Readers \cup Restorers
Classes == {"private", "protected"}

VARIABLES
    lock,    \* the process that holds the lock on the .lock sidecar
    body,    \* the role recorded in the sidecar; none when there is no sidecar
    marker,  \* the class the access marker records, private when there is none
    file,    \* the database at the path
    wal,     \* the database whose -wal is beside it
    pc,      \* pc[p]: the call p makes next
    class,   \* class[p]: the class p serves with, or will set
    conn,    \* conn[p]: the database file p has open
    seen,    \* seen[p], history: the database whose WAL that open read
    cut,     \* history: a restore ended with the database replaced and the WAL not removed
    faults

vars == <<lock, body, marker, file, wal, pc, class, conn, seen, cut, faults>>
files == <<marker, file, wal, cut>>
handles == <<conn, seen>>

TypeOK ==
    /\ lock \in Procs \cup {None}
    /\ body \in {"none", "empty", "daemon", "cli"}
    /\ marker \in Classes
    /\ file \in Nat /\ wal \in Nat \cup {None}
    /\ pc \in [Procs -> {"idle", "try", "retry", "attribute", "truncate", "body", "record", "opening",
                         "bind", "open", "exiting", "mark", "release", "read", "reading",
                         "probe", "probing", "check", "copy", "remove"}]
    /\ class \in [Procs -> Classes \cup {None}]
    /\ conn \in [Procs -> Nat \cup {None}] /\ seen \in [Procs -> Nat \cup {None}]
    /\ cut \in BOOLEAN /\ faults \in Nat

Init ==
    /\ lock = None /\ body = "none" /\ marker = "private"
    /\ file = 0 /\ wal = None
    /\ pc = [p \in Procs |-> "idle"] /\ class = [p \in Procs |-> None]
    /\ conn = [p \in Procs |-> None] /\ seen = [p \in Procs |-> None]
    /\ cut = FALSE /\ faults = 0

To(p, l) == pc' = [pc EXCEPT ![p] = l]
Return(p) == To(p, "idle") /\ class' = [class EXCEPT ![p] = None]
Fault == faults < MaxFaults /\ faults' = faults + 1

-----------------------------------------------------------------------------
(* dblock.  An attempt opens, and so creates, the sidecar; the holder then   *)
(* truncates it and writes its role.  AcquireRetry polls until its budget is *)
(* spent; a lone attempt of a restore fails at once, that of a command looks *)
(* at who holds the lock.                                                    *)
TryLock(p) ==
    /\ pc[p] \in {"try", "retry"} /\ lock = None
    /\ lock' = p
    /\ body' = IF body = "none" THEN "empty" ELSE body
    /\ To(p, "truncate")
    /\ UNCHANGED <<files, class, handles, faults>>

Held(p) ==
    /\ pc[p] = "try" /\ lock # None
    /\ \/ p \in Commands /\ To(p, "attribute") /\ UNCHANGED class
       \/ p \notin Commands /\ Return(p)
    /\ UNCHANGED <<lock, body, files, handles, faults>>

GiveUp(p) ==
    /\ pc[p] = "retry" /\ lock # None
    /\ Return(p)
    /\ UNCHANGED <<lock, body, files, handles, faults>>

(* A command retries unless the sidecar names a daemon.                      *)
ReadHolder(p) ==
    /\ pc[p] = "attribute"
    /\ \/ body = "daemon" /\ Return(p)
       \/ body # "daemon" /\ To(p, "retry") /\ UNCHANGED class
    /\ UNCHANGED <<lock, body, files, handles, faults>>

Truncate(p) ==
    /\ pc[p] = "truncate"
    /\ body' = "empty"
    /\ To(p, "body")
    /\ UNCHANGED <<lock, files, class, handles, faults>>

WriteBody(p) ==
    /\ pc[p] = "body"
    /\ body' = IF p \in Daemons THEN "daemon" ELSE "cli"
    /\ To(p, CASE p \in Daemons -> "record" [] p \in Commands -> "opening" [] OTHER -> "copy")
    /\ UNCHANGED <<lock, files, class, handles, faults>>

WriteBodyFails(p) ==
    /\ pc[p] \in {"truncate", "body"}
    /\ Fault
    /\ lock' = None
    /\ Return(p)
    /\ UNCHANGED <<body, files, handles>>

Release(p) ==
    /\ pc[p] = "release"
    /\ lock' = None
    /\ Return(p)
    /\ UNCHANGED <<body, files, handles, faults>>

-----------------------------------------------------------------------------
(* SQLite: an open recovers the WAL it finds beside the file, a writer keeps *)
(* one.                                                                      *)
Connect(p) ==
    /\ conn' = [conn EXCEPT ![p] = file]
    /\ seen' = [seen EXCEPT ![p] = IF wal = None THEN file ELSE wal]

Disconnect(p) ==
    /\ conn' = [conn EXCEPT ![p] = None]
    /\ seen' = [seen EXCEPT ![p] = None]

(* The last writer to close checkpoints the WAL and unlinks it.              *)
Checkpoint(p) == IF \E q \in Procs \ {p} : conn[q] = conn[p] THEN wal ELSE None

(* dpkms serve: lock, access marker, open, bind and marker again, serve; on  *)
(* the way down the store is closed before the lock is released.             *)
Serve(p) ==
    /\ p \in Daemons /\ pc[p] = "idle"
    /\ \E c \in Classes : class' = [class EXCEPT ![p] = c]
    /\ To(p, "retry")
    /\ UNCHANGED <<lock, body, files, handles, faults>>

(* A private serve writes nothing and never lowers a recorded class.         *)
Recorded(p) == IF class[p] = "protected" THEN "protected" ELSE marker

(* Mutant: the class is recorded only once the listener is bound.            *)
RecordLater(p) ==
    /\ pc[p] = "record"
    /\ To(p, "opening")
    /\ UNCHANGED <<lock, body, files, class, handles, faults>>

RecordAccess(p) ==
    /\ pc[p] = "record"
    /\ marker' = Recorded(p)
    /\ To(p, "opening")
    /\ UNCHANGED <<lock, body, file, wal, cut, class, handles, faults>>

(* The marker cannot be written, or the file modes are refused.              *)
RecordFails(p) ==
    /\ pc[p] = "record"
    /\ marker' \in {marker, Recorded(p)}
    /\ To(p, "release")
    /\ UNCHANGED <<lock, body, file, wal, cut, class, handles, faults>>

Open(p) ==
    /\ pc[p] = "opening"
    /\ Connect(p)
    /\ wal' = IF wal = None THEN file ELSE wal
    /\ To(p, IF p \in Daemons THEN "bind" ELSE "open")
    /\ UNCHANGED <<lock, body, marker, file, cut, class, faults>>

(* Mutant: an open that fails returns with the lock.                         *)
OpenFailsLocked(p) ==
    /\ pc[p] = "opening"
    /\ Return(p)
    /\ UNCHANGED <<lock, body, files, handles, faults>>

OpenFails(p) ==
    /\ pc[p] = "opening"
    /\ To(p, "release")
    /\ UNCHANGED <<lock, body, files, class, handles, faults>>

(* A marker that cannot be rewritten is only warned of.                      *)
RecordAddress(p) ==
    /\ pc[p] = "bind"
    /\ marker' \in {marker, Recorded(p)}
    /\ To(p, "open")
    /\ UNCHANGED <<lock, body, file, wal, cut, class, handles, faults>>

(* A start that fails once the store is open returns without closing it: the *)
(* deferred release runs, and the handle goes with the process.              *)
StartFails(p) ==
    /\ pc[p] = "bind"
    /\ lock' = None
    /\ To(p, "exiting")
    /\ UNCHANGED <<body, files, class, handles, faults>>

Exit(p) ==
    /\ pc[p] = "exiting"
    /\ Disconnect(p)
    /\ Return(p)
    /\ UNCHANGED <<lock, body, files, faults>>

(* Mutant: the lock is released before the store is closed.                  *)
CloseLast(p) ==
    /\ pc[p] = "open"
    /\ \/ /\ lock = p /\ lock' = None
          /\ UNCHANGED <<pc, class, wal, handles>>
       \/ /\ lock # p /\ UNCHANGED lock
          /\ Disconnect(p) /\ wal' = Checkpoint(p) /\ Return(p)
    /\ UNCHANGED <<body, marker, file, cut, faults>>

(* Mutant: set-access writes the marker before its audit log is closed.      *)
CloseMarked(p) ==
    /\ pc[p] = "open"
    /\ Disconnect(p)
    /\ wal' = Checkpoint(p)
    /\ marker' = IF p \in Commands /\ class[p] # None THEN class[p] ELSE marker
    /\ To(p, "release")
    /\ UNCHANGED <<lock, body, file, cut, class, faults>>

(* The handle of a daemon or of a command is closed; the audit entry of a    *)
(* set-access is written through it, and the marker changes only after that. *)
Close(p) ==
    /\ pc[p] = "open"
    /\ Disconnect(p)
    /\ wal' = Checkpoint(p)
    /\ \/ To(p, "release")
       \/ p \in Commands /\ class[p] # None /\ To(p, "mark")
    /\ UNCHANGED <<lock, body, marker, file, cut, class, faults>>

-----------------------------------------------------------------------------
(* Direct opens: a write command passes the access gate and then takes the   *)
(* lock; an override and a set-access are not refused by the class.          *)
Write(p) ==
    /\ p \in Commands /\ pc[p] = "idle"
    /\ marker = "private"
    /\ To(p, "try")
    /\ UNCHANGED <<lock, body, files, class, handles, faults>>

Override(p) ==
    /\ p \in Commands /\ pc[p] = "idle"
    /\ marker # "private"
    /\ To(p, "try")
    /\ UNCHANGED <<lock, body, files, class, handles, faults>>

SetAccess(p) ==
    /\ p \in Commands /\ pc[p] = "idle"
    /\ \E c \in Classes : class' = [class EXCEPT ![p] = c]
    /\ To(p, "try")
    /\ UNCHANGED <<lock, body, files, handles, faults>>

Mark(p) ==
    /\ pc[p] = "mark"
    /\ marker' \in {marker, class[p]}
    /\ To(p, "release")
    /\ UNCHANGED <<lock, body, file, wal, cut, class, handles, faults>>

(* A read command takes no lock.                                             *)
Read(p) ==
    /\ p \in Readers /\ pc[p] = "idle"
    /\ marker = "private"
    /\ To(p, "read")
    /\ UNCHANGED <<lock, body, files, class, handles, faults>>

OpenReadOnly(p) ==
    /\ pc[p] = "read"
    /\ Connect(p)
    /\ To(p, "reading")
    /\ UNCHANGED <<lock, body, files, class, faults>>

CloseReadOnly(p) ==
    /\ pc[p] = "reading"
    /\ Disconnect(p)
    /\ To(p, "idle")
    /\ UNCHANGED <<lock, body, files, class, faults>>

-----------------------------------------------------------------------------
(* dpkms restore: probe the lock, check the backup, take the lock, copy the  *)
(* database beside the old one, rename it over, remove the old WAL.          *)
Restore(p) ==
    /\ p \in Restorers /\ pc[p] = "idle"
    /\ To(p, "probe")
    /\ UNCHANGED <<lock, body, files, class, handles, faults>>

(* The probe holds the lock itself for a moment, without a body.             *)
Check(p) ==
    /\ pc[p] = "probe"
    /\ \/ /\ body = "none"
          /\ To(p, "check")
          /\ UNCHANGED lock
       \/ /\ body # "none" /\ lock = None
          /\ lock' = p
          /\ To(p, "probing")
       \/ /\ body # "none" /\ lock # None
          /\ To(p, "idle")
          /\ UNCHANGED lock
    /\ UNCHANGED <<body, files, class, handles, faults>>

Unprobe(p) ==
    /\ pc[p] = "probing"
    /\ lock' = None
    /\ To(p, "check")
    /\ UNCHANGED <<body, files, class, handles, faults>>

(* Mutant: the probe is all the lock a restore takes.                        *)
ProbeOnly(p) ==
    /\ pc[p] = "check"
    /\ \/ To(p, "idle")
       \/ file < MaxRestores /\ To(p, "copy")
    /\ UNCHANGED <<lock, body, files, class, handles, faults>>

(* A dry run, a backup refused in the first pass and one without a database  *)
(* end here for the database.                                                *)
LockForWrite(p) ==
    /\ pc[p] = "check"
    /\ \/ To(p, "idle")
       \/ file < MaxRestores /\ To(p, "try")
    /\ UNCHANGED <<lock, body, files, class, handles, faults>>

ReplaceFile(p) ==
    /\ pc[p] = "copy"
    /\ file' = file + 1
    /\ To(p, "remove")
    /\ UNCHANGED <<lock, body, marker, wal, cut, class, handles, faults>>

CopyFails(p) ==
    /\ pc[p] = "copy"
    /\ To(p, "release")
    /\ UNCHANGED <<lock, body, files, class, handles, faults>>

(* Mutant: the old WAL is left beside the restored database.                 *)
RemoveNothing(p) ==
    /\ pc[p] = "remove"
    /\ cut' = FALSE
    /\ To(p, "release")
    /\ UNCHANGED <<lock, body, marker, file, wal, class, handles, faults>>

(* What follows, config files and blobs, succeeds or fails under the lock.   *)
RemoveStale(p) ==
    /\ pc[p] = "remove"
    /\ wal' = None /\ cut' = FALSE
    /\ To(p, "release")
    /\ UNCHANGED <<lock, body, marker, file, class, handles, faults>>

RemoveFails(p) ==
    /\ pc[p] = "remove"
    /\ Fault
    /\ cut' = TRUE
    /\ To(p, "release")
    /\ UNCHANGED <<lock, body, marker, file, wal, class, handles>>

-----------------------------------------------------------------------------
(* A process dies: the kernel frees its lock, its files stay as they are.    *)
Crash(p) ==
    /\ pc[p] # "idle"
    /\ Fault
    /\ lock' = IF lock = p THEN None ELSE lock
    /\ Disconnect(p)
    /\ cut' = (cut \/ pc[p] = "remove")
    /\ Return(p)
    /\ UNCHANGED <<body, marker, file, wal>>

(* A process that has begun goes on.                                         *)
Step(p) ==
    \/ TryLock(p) \/ Held(p) \/ GiveUp(p) \/ ReadHolder(p)
    \/ Truncate(p) \/ WriteBody(p) \/ WriteBodyFails(p) \/ Release(p)
    \/ RecordAccess(p) \/ RecordFails(p) \/ Open(p) \/ OpenFails(p)
    \/ RecordAddress(p) \/ StartFails(p) \/ Exit(p) \/ Close(p)
    \/ Mark(p) \/ OpenReadOnly(p) \/ CloseReadOnly(p)
    \/ Check(p) \/ Unprobe(p) \/ LockForWrite(p)
    \/ ReplaceFile(p) \/ CopyFails(p) \/ RemoveStale(p) \/ RemoveFails(p)

Begin(p) ==
    \/ Serve(p) \/ Write(p) \/ Override(p) \/ SetAccess(p) \/ Read(p) \/ Restore(p)

Next == \E p \in Procs : Begin(p) \/ Step(p) \/ Crash(p)

Spec == Init /\ [][Next]_vars

(* A command or a restore that has begun comes to its end; a daemon may      *)
(* serve for ever.                                                           *)
Fairness == \A p \in Commands \cup Restorers : WF_vars(Step(p))

FairSpec == Spec /\ Fairness

-----------------------------------------------------------------------------
(* Processes that may write to the database, or are replacing it.            *)
Writing(p) == pc[p] \in {"bind", "open", "copy", "remove"}

(* The lock covers every write from the open to the close: at no time do two *)
(* of serve, direct writers and restores have the database to write or to    *)
(* replace (directopen.go Handle.Close, serve.go's order of cleanup).        *)
OneWriter == \A p, q \in Procs : Writing(p) /\ Writing(q) => p = q

(* A process that writes has the file open that is at the path, not one a    *)
(* restore has unlinked under it (restore_running.go).                       *)
WriterHasTheFile == \A p \in Writers : pc[p] \in {"bind", "open"} => conn[p] = file

(* While a protected daemon has its database open the marker says so: it is  *)
(* written before the open, and a set-access cannot come in between          *)
(* (instance_access.go recordServeAccess, setaccess.go).                     *)
ServedClassIsRecorded ==
    \A p \in Daemons : pc[p] \in {"bind", "open"} /\ class[p] = "protected" => marker = "protected"

(* A writer recovers the WAL of the database it opens, never that of one     *)
(* that was replaced, as long as no restore was cut short between its rename *)
(* and its removal of the WAL (safefs.go ReplaceFile).                       *)
ReplaysOwnWal ==
    ~cut => \A p \in Writers : pc[p] \in {"bind", "open"} => seen[p] = conn[p]

(* The same whatever happens to the restore, as restore.go promises.         *)
NeverReplaysOldWal ==
    \A p \in Writers : pc[p] \in {"bind", "open"} => seen[p] = conn[p]

(* A lock that a command or a restore takes comes back, however it ends: a   *)
(* local federation push runs inside a daemon, so no exit would free it      *)
(* (directopen.go open, Handle.Close).                                       *)
LockComesBack == \A p \in Commands \cup Restorers : (lock = p) ~> (lock # p)

-----------------------------------------------------------------------------
(* What the lock, the marker and the order of opens and closes add up to.    *)
Users == {p \in Procs : Writing(p)}
Served == IF \E p \in Daemons : Writing(p) /\ class[p] = "protected" THEN "protected" ELSE "private"

Database == INSTANCE DatabaseFile WITH
    users <- Users, served <- Served, recorded <- marker, version <- file

(* Daemons, commands and restores implement DatabaseFile: none of them, not  *)
(* one that dies, fails to start or is refused the lock, writes beside       *)
(* another, replaces the file under another, or lowers the recorded class    *)
(* while the database is open to write (directopen.go, serve.go,             *)
(* setaccess.go, restore_running.go).                                        *)
ImplementsDatabaseFile == Database!Spec
=============================================================================
