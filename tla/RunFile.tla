------------------------------- MODULE RunFile -------------------------------
(***************************************************************************)
(* The run file of `ctxt watch` (internal/watcher/watchstate/run.go): one  *)
(* watcher per instance, by an flock on a file that the holder removes     *)
(* when it ends.  A lock is on an inode, a remove is of a path, so every   *)
(* system call is a step here.                                             *)
(*                                                                         *)
(* An inode nobody has open and no path names is free to be used again.    *)
(***************************************************************************)
EXTENDS Integers, FiniteSets

CONSTANTS
    Procs,     \* ctxt processes: starting, stopping and asking for a watcher
    Inodes,    \* the file system's inodes
    None,      \* no inode, no process
    MaxTries   \* attempts of AcquireRun's loop (5)

ASSUME NoneAssumption == None \notin Procs /\ None \notin Inodes
ASSUME TriesAssumption == MaxTries \in Nat \ {0}

VARIABLES
    path,     \* the inode at the run file's path
    locked,   \* locked[i]: the process with the exclusive lock on inode i
    shared,   \* shared[i]: the processes with a shared lock on inode i
    text,     \* text[i]: the pid in the file, None when it is empty
    pc,       \* pc[p]: the call p makes next
    fd,       \* fd[p]: the inode p has open
    tries,    \* tries[p]: rounds of AcquireRun's loop
    alive     \* alive[p]: what ReadRun has seen of the lock

fileVars == <<path, locked, shared, text>>
procVars == <<pc, fd, tries, alive>>
vars == <<fileVars, procVars>>

AcquirePCs == {"lock", "check", "truncate", "write"}
ReleasePCs == {"running", "unlock"}
ReadPCs == {"rlock", "runlock", "rread"}
RemovePCs == {"slock", "scheck", "sremove", "sunlock"}
PCs == {"idle", "open", "held"} \cup AcquirePCs \cup ReleasePCs \cup ReadPCs \cup RemovePCs

TypeOK ==
    /\ path \in Inodes \cup {None}
    /\ locked \in [Inodes -> Procs \cup {None}]
    /\ shared \in [Inodes -> SUBSET Procs]
    /\ text \in [Inodes -> Procs \cup {None}]
    /\ pc \in [Procs -> PCs]
    /\ fd \in [Procs -> Inodes \cup {None}]
    /\ tries \in [Procs -> 0 .. MaxTries]
    /\ alive \in [Procs -> BOOLEAN]

Init ==
    /\ path = None
    /\ locked = [i \in Inodes |-> None]
    /\ shared = [i \in Inodes |-> {}]
    /\ text = [i \in Inodes |-> None]
    /\ pc = [p \in Procs |-> "idle"]
    /\ fd = [p \in Procs |-> None]
    /\ tries = [p \in Procs |-> 0]
    /\ alive = [p \in Procs |-> FALSE]

----------------------------------------------------------------------------

Goto(p, l) == pc' = [pc EXCEPT ![p] = l] /\ UNCHANGED <<fd, tries, alive>>

(* Open of the file at the path, inode i.                                   *)
Open(p, i, l) ==
    /\ fd' = [fd EXCEPT ![p] = i]
    /\ pc' = [pc EXCEPT ![p] = l]

(* Closing the file drops whatever lock its descriptor has.                 *)
Unlocked(p) ==
    /\ locked' = [i \in Inodes |-> IF locked[i] = p THEN None ELSE locked[i]]
    /\ shared' = [i \in Inodes |-> shared[i] \ {p}]

(* The call is over and its file closed.                                    *)
Return(p) ==
    /\ pc' = [pc EXCEPT ![p] = "idle"]
    /\ fd' = [fd EXCEPT ![p] = None]
    /\ tries' = [tries EXCEPT ![p] = 0]
    /\ alive' = [alive EXCEPT ![p] = FALSE]
    /\ Unlocked(p)

(* TryLock would be granted: no other descriptor has any lock.              *)
Free(i) == locked[i] = None /\ shared[i] = {}

(* The file p has open is the one at the path (os.SameFile).                *)
SamePath(p) == path # None /\ fd[p] = path

Fresh == {i \in Inodes : path # i /\ \A p \in Procs : fd[p] # i}

----------------------------------------------------------------------------
(* AcquireRun.                                                             *)

Start(p) ==
    /\ pc[p] = "idle"
    /\ Goto(p, "open")
    /\ UNCHANGED fileVars

(* O_CREATE: the file at the path, or a new empty one.                      *)
OpenFile(p) ==
    /\ pc[p] = "open"
    /\ \/ /\ path # None
          /\ Open(p, path, "lock")
          /\ UNCHANGED <<path, text>>
       \/ /\ path = None
          /\ \E i \in Fresh : /\ path' = i
                              /\ text' = [text EXCEPT ![i] = None]
                              /\ Open(p, i, "lock")
    /\ tries' = [tries EXCEPT ![p] = @ + 1]
    /\ UNCHANGED <<locked, shared, alive>>

(* Mutation: ErrLocked is ignored, as other errors of flock might be.       *)
TryLockAnyway(p) ==
    /\ pc[p] = "lock"
    /\ locked' = [locked EXCEPT ![fd[p]] = p]
    /\ Goto(p, "check")
    /\ UNCHANGED <<path, shared, text>>

(* ErrLocked closes the file; ReadRun of the path then names the holder in  *)
(* the RunningError.                                                       *)
TryLock(p) ==
    /\ pc[p] = "lock"
    /\ \/ /\ Free(fd[p])
          /\ locked' = [locked EXCEPT ![fd[p]] = p]
          /\ Goto(p, "check")
       \/ /\ ~Free(fd[p])
          /\ Open(p, None, "held")
          /\ tries' = [tries EXCEPT ![p] = 0]
          /\ UNCHANGED <<alive, locked>>
    /\ UNCHANGED <<path, shared, text>>

(* The lock may be on an inode that was unlinked meanwhile: try again, five *)
(* times at most.                                                          *)
CheckPath(p) ==
    /\ pc[p] = "check"
    /\ \/ SamePath(p) /\ Goto(p, "truncate") /\ UNCHANGED fileVars
       \/ /\ ~SamePath(p) /\ tries[p] < MaxTries
          /\ Open(p, None, "open")
          /\ Unlocked(p)
          /\ UNCHANGED <<tries, alive, path, text>>
       \/ ~SamePath(p) /\ tries[p] = MaxTries /\ Return(p) /\ UNCHANGED <<path, text>>

(* writeAll.                                                                *)
Truncate(p) ==
    /\ pc[p] = "truncate"
    /\ text' = [text EXCEPT ![fd[p]] = None]
    /\ Goto(p, "write")
    /\ UNCHANGED <<path, locked, shared>>

WriteInfo(p) ==
    /\ pc[p] = "write"
    /\ text' = [text EXCEPT ![fd[p]] = p]
    /\ pc' = [pc EXCEPT ![p] = "running"]
    /\ tries' = [tries EXCEPT ![p] = 0]
    /\ UNCHANGED <<fd, alive, path, locked, shared>>

----------------------------------------------------------------------------
(* Release: remove the path, unlock, close.                                *)

Release(p) ==
    /\ pc[p] = "running"
    /\ path' = None
    /\ Goto(p, "unlock")
    /\ UNCHANGED <<locked, shared, text>>

Unlock(p) ==
    /\ pc[p] = "unlock"
    /\ Return(p)
    /\ UNCHANGED <<path, text>>

----------------------------------------------------------------------------
(* ReadRun.                                                                *)

(* Asked by status and stop, and by an AcquireRun that was refused.         *)
Read(p) ==
    /\ pc[p] \in {"idle", "held"}
    /\ path # None
    /\ Open(p, path, "rlock")
    /\ UNCHANGED <<tries, alive, fileVars>>

(* The file is missing: not alive, and not an error.                        *)
ReadMissing(p) ==
    /\ pc[p] = "held"
    /\ path = None
    /\ Return(p)
    /\ UNCHANGED <<path, text>>

(* The watcher is alive when TryRLock is refused.                           *)
TryRLock(p) ==
    /\ pc[p] = "rlock"
    /\ IF locked[fd[p]] = None
       THEN /\ shared' = [shared EXCEPT ![fd[p]] = @ \cup {p}]
            /\ pc' = [pc EXCEPT ![p] = "runlock"]
            /\ UNCHANGED alive
       ELSE /\ alive' = [alive EXCEPT ![p] = TRUE]
            /\ pc' = [pc EXCEPT ![p] = "rread"]
            /\ UNCHANGED shared
    /\ UNCHANGED <<fd, tries, path, locked, text>>

RUnlock(p) ==
    /\ pc[p] = "runlock"
    /\ shared' = [shared EXCEPT ![fd[p]] = @ \ {p}]
    /\ Goto(p, "rread")
    /\ UNCHANGED <<path, locked, text>>

(* ReadFile of the path, which may be another file by now.                  *)
ReadInfo(p) ==
    /\ pc[p] = "rread"
    /\ Return(p)
    /\ UNCHANGED <<path, text>>

----------------------------------------------------------------------------
(* RemoveStale.                                                            *)

Stale(p) ==
    /\ pc[p] = "idle"
    /\ path # None
    /\ Open(p, path, "slock")
    /\ UNCHANGED <<tries, alive, fileVars>>

TryLockStale(p) ==
    /\ pc[p] = "slock"
    /\ \/ /\ Free(fd[p])
          /\ locked' = [locked EXCEPT ![fd[p]] = p]
          /\ Goto(p, "scheck")
          /\ UNCHANGED shared
       \/ ~Free(fd[p]) /\ Return(p)
    /\ UNCHANGED <<path, text>>

(* Mutation: whatever is at the path is removed.                            *)
CheckStaleNothing(p) ==
    /\ pc[p] = "scheck"
    /\ Goto(p, "sremove")
    /\ UNCHANGED fileVars

CheckStale(p) ==
    /\ pc[p] = "scheck"
    /\ \/ SamePath(p) /\ Goto(p, "sremove") /\ UNCHANGED fileVars
       \/ ~SamePath(p) /\ Return(p) /\ UNCHANGED <<path, text>>

RemoveStale(p) ==
    /\ pc[p] = "sremove"
    /\ path' = None
    /\ Goto(p, "sunlock")
    /\ UNCHANGED <<locked, shared, text>>

UnlockStale(p) ==
    /\ pc[p] = "sunlock"
    /\ Return(p)
    /\ UNCHANGED <<path, text>>

----------------------------------------------------------------------------

(* A process may die anywhere: its locks go, the file stays as it is.  An   *)
(* error of a system call closes the file too, and ends the same way.      *)
Crash(p) ==
    /\ pc[p] # "idle"
    /\ Return(p)
    /\ UNCHANGED <<path, text>>

Step(p) ==
    \/ Start(p) \/ OpenFile(p) \/ TryLock(p) \/ CheckPath(p) \/ Truncate(p) \/ WriteInfo(p)
    \/ Release(p) \/ Unlock(p)
    \/ Read(p) \/ ReadMissing(p) \/ TryRLock(p) \/ RUnlock(p) \/ ReadInfo(p)
    \/ Stale(p) \/ TryLockStale(p) \/ CheckStale(p) \/ RemoveStale(p) \/ UnlockStale(p)
    \/ Crash(p)

Next == \E p \in Procs : Step(p)

Spec == Init /\ [][Next]_vars

----------------------------------------------------------------------------
(* Properties.                                                             *)

(* AcquireRun has compared the inodes and not given up the run lock since.  *)
Holding(p) == pc[p] \in {"truncate", "write", "running"}

(* One watcher per instance, although files are removed under processes     *)
(* that have them open, crashed holders leave theirs behind and stale ones *)
(* are collected: the protocol of open, flock, stat, unlink and close      *)
(* implements ExclusiveRun, the holders being those past the inode check.  *)
Run == INSTANCE ExclusiveRun WITH holders <- {p \in Procs : Holding(p)}
ImplementsRunLock == Run!Spec

(* `ctxt watch status` and `stop` find a running watcher: the file at the   *)
(* path is the one it has locked, with its pid in it, so no release and no *)
(* removal of a stale file ever takes the file of a live watcher.          *)
WatcherIsListed ==
    \A p \in Procs : pc[p] = "running" =>
        path # None /\ locked[path] = p /\ text[path] = p

----------------------------------------------------------------------------
(* The inductive invariant behind both.                                    *)

OpenPCs == (AcquirePCs \cup ReleasePCs \cup ReadPCs \cup RemovePCs)
LockedPCs == {"check", "truncate", "write", "running", "unlock", "scheck", "sremove", "sunlock"}
AtPathPCs == {"truncate", "write", "running", "sremove"}

(* A process past its TryLock has the lock of the inode it has open; past   *)
(* its inode check that inode is the one at the path.                      *)
HasLock ==
    \A p \in Procs : /\ pc[p] \in OpenPCs => fd[p] \in Inodes
                     /\ pc[p] \in LockedPCs => locked[fd[p]] = p
LockIsOpen ==
    \A i \in Inodes : locked[i] # None =>
        fd[locked[i]] = i /\ pc[locked[i]] \in LockedPCs
AtPath == \A p \in Procs : pc[p] \in AtPathPCs => fd[p] = path
Written == \A p \in Procs : pc[p] = "running" => text[fd[p]] = p

(* The rounds AcquireRun's loop has left.                                   *)
TriesLeft ==
    \A p \in Procs : /\ pc[p] \in {"idle", "held"} => tries[p] = 0
                     /\ pc[p] = "open" => tries[p] < MaxTries

RunInv == HasLock /\ LockIsOpen /\ AtPath /\ Written /\ TriesLeft

=============================================================================
