----------------------------- MODULE ObjectBlobs -----------------------------
(***************************************************************************)
(* Objects whose content is externalized to a blob, and everything that    *)
(* writes or frees one: ingest (internal/jobs/worker.go, process), updates,*)
(* hard deletes and the sweep (internal/storage/blob).  The database and   *)
(* the blob store share no transaction, and no lock spans the two: every   *)
(* call on either is a step, and the steps of all processes interleave.    *)
(*                                                                         *)
(* Content is its blob key (keys are content hashes).  A blob's age is     *)
(* reduced to whether it is older than DefaultSweepGrace.                  *)
(***************************************************************************)
EXTENDS Integers, FiniteSets

CONSTANTS
    Objects,     \* object ids (uuids: an id is used for one row)
    BlobKeys,    \* content hashes
    Procs,       \* worker goroutines, request handlers and housekeeping runs
    None,        \* no object, no key
    LocalStore,  \* the blob store is blob/local, whose Put is not atomic
    SlowOps,     \* an operation can outlast DefaultSweepGrace
    MaxFaults    \* bound on store errors and crashes

ASSUME NoneAssumption == None \notin Objects /\ None \notin BlobKeys
ASSUME StoreAssumption == LocalStore \in BOOLEAN /\ SlowOps \in BOOLEAN
ASSUME FaultsAssumption == MaxFaults \in Nat

VARIABLES
    row,      \* row[o]: "new" (not inserted yet), "live" or "gone"
    raw,      \* raw[o]: the key raw_content refers to
    meta,     \* meta[o]: metadata.blob_key
    hash,     \* hash[o]: content_hash, unique among live rows
    edged,    \* edged[o]: the edges table has o's mention edges
    data,     \* data[k]: "none", "whole", or "partial" while a local Put
              \* has truncated the file and not written it yet
    old,      \* old[k]: last written more than DefaultSweepGrace ago
    op,       \* op[p]: the operation process p runs
    pc,       \* pc[p]: the call p makes next
    obj,      \* obj[p]: the object id p works on
    key,      \* key[p]: the key p writes, or is freeing
    mkey,     \* mkey[p]: the metadata.blob_key an update writes
    todo,     \* todo[p]: the keys p still has to free
    aged,     \* aged[p]: the keys a sweep's listing showed as old
    got,      \* got[p]: the content remove read before deleting
    writing,  \* writing[p]: whether p is inside a local Put, and whether the
              \* file it writes is still the one at the key's path
    faults,   \* faults spent
    ensured   \* history: a writer has checked o's blob since it wrote raw[o],
              \* and no process died or failed to put that blob back since

rowVars == <<row, raw, meta, hash, edged, ensured>>
blobVars == <<data, old>>
regVars == <<op, obj, mkey, aged>>
procVars == <<op, pc, obj, key, mkey, todo, aged, got, writing>>
vars == <<rowVars, blobVars, procVars, faults>>

IngestPCs == {"lookup", "reinforce", "create", "edges"}
WritePCs == {"put", "ensure", "eput", "uget", "uwrite"}
FreePCs == {"free", "age", "get", "del"}
WindowPCs == {"recount", "back"}   \* the blob is deleted, and may be put back
PCs == {"idle", "edgedel", "rowdel"} \cup IngestPCs \cup WritePCs \cup FreePCs \cup WindowPCs

RowTypeOK ==
    /\ row \in [Objects -> {"new", "live", "gone"}]
    /\ raw \in [Objects -> BlobKeys \cup {None}]
    /\ meta \in [Objects -> BlobKeys \cup {None}]
    /\ hash \in [Objects -> BlobKeys \cup {None}]
    /\ edged \in [Objects -> BOOLEAN]
    /\ ensured \in [Objects -> BOOLEAN]

BlobTypeOK ==
    /\ data \in [BlobKeys -> {"none", "partial", "whole"}]
    /\ old \in [BlobKeys -> BOOLEAN]
    /\ writing \in [Procs -> {"no", "attached", "unlinked"}]

ProcTypeOK ==
    /\ op \in [Procs -> {"none", "ingest", "replace", "patch", "delete", "sweep"}]
    /\ pc \in [Procs -> PCs]
    /\ obj \in [Procs -> Objects \cup {None}]
    /\ key \in [Procs -> BlobKeys \cup {None}]
    /\ mkey \in [Procs -> BlobKeys \cup {None}]
    /\ todo \in [Procs -> SUBSET BlobKeys]
    /\ aged \in [Procs -> SUBSET BlobKeys]
    /\ got \in [Procs -> {"none", "partial", "whole"}]

TypeOK == RowTypeOK /\ BlobTypeOK /\ ProcTypeOK /\ faults \in 0 .. MaxFaults

Init ==
    /\ row = [o \in Objects |-> "new"]
    /\ raw = [o \in Objects |-> None]
    /\ meta = [o \in Objects |-> None]
    /\ hash = [o \in Objects |-> None]
    /\ edged = [o \in Objects |-> FALSE]
    /\ ensured = [o \in Objects |-> FALSE]
    /\ data = [k \in BlobKeys |-> "none"]
    /\ old = [k \in BlobKeys |-> FALSE]
    /\ op = [p \in Procs |-> "none"]
    /\ pc = [p \in Procs |-> "idle"]
    /\ obj = [p \in Procs |-> None]
    /\ key = [p \in Procs |-> None]
    /\ mkey = [p \in Procs |-> None]
    /\ todo = [p \in Procs |-> {}]
    /\ aged = [p \in Procs |-> {}]
    /\ got = [p \in Procs |-> "none"]
    /\ writing = [p \in Procs |-> "no"]
    /\ faults = 0

Fault == faults < MaxFaults /\ faults' = faults + 1

(* Keys(obj): the blob keys a row refers to.                                *)
KeysOf(o) == {raw[o], meta[o]} \ {None}

(* The objects CountBlobRefs counts for key k.                              *)
Refs(k) == {o \in Objects : row[o] = "live" /\ k \in KeysOf(o)}

(* The live rows with content hash k; the unique index allows one.          *)
HashHits(k) == {o \in Objects : row[o] = "live" /\ hash[o] = k}

----------------------------------------------------------------------------
(* Where a process goes next.                                              *)

Goto(p, l) ==
    /\ pc' = [pc EXCEPT ![p] = l]
    /\ UNCHANGED <<regVars, key, todo, got>>

(* The operation is over.                                                   *)
Done(p) ==
    /\ pc' = [pc EXCEPT ![p] = "idle"]
    /\ op' = [op EXCEPT ![p] = "none"]
    /\ obj' = [obj EXCEPT ![p] = None]
    /\ key' = [key EXCEPT ![p] = None]
    /\ mkey' = [mkey EXCEPT ![p] = None]
    /\ todo' = [todo EXCEPT ![p] = {}]
    /\ aged' = [aged EXCEPT ![p] = {}]
    /\ got' = [got EXCEPT ![p] = "none"]

(* On to the next key to free, when there is one.                           *)
FreeNext(p, ks) ==
    IF ks = {} THEN Done(p)
    ELSE /\ pc' = [pc EXCEPT ![p] = "free"]
         /\ todo' = [todo EXCEPT ![p] = ks]
         /\ key' = [key EXCEPT ![p] = None]
         /\ got' = [got EXCEPT ![p] = "none"]
         /\ UNCHANGED regVars

Begin(p, what, l, o, k, mk) ==
    /\ pc[p] = "idle"
    /\ op' = [op EXCEPT ![p] = what]
    /\ pc' = [pc EXCEPT ![p] = l]
    /\ obj' = [obj EXCEPT ![p] = o]
    /\ key' = [key EXCEPT ![p] = k]
    /\ mkey' = [mkey EXCEPT ![p] = mk]
    /\ UNCHANGED <<got, writing, rowVars, blobVars, faults>>

----------------------------------------------------------------------------
(* BlobStore.Put of content c by p.  The object store writes it at once.   *)
(* The local store opens the file with O_TRUNC (PutTruncate) and then      *)
(* writes it; a Delete in between unlinks the file being written.          *)

PutPCs == {"put", "eput", "back"}

Attached(k) == {q \in Procs : writing[q] = "attached" /\ key[q] = k}

PutTruncate(p) ==
    /\ LocalStore
    /\ pc[p] \in PutPCs
    /\ writing[p] = "no"
    /\ writing' = [writing EXCEPT ![p] = "attached"]
    /\ data' = [data EXCEPT ![key[p]] = "partial"]
    /\ old' = [old EXCEPT ![key[p]] = FALSE]
    /\ UNCHANGED <<rowVars, op, pc, obj, key, mkey, todo, aged, got, faults>>

Put(p, c) ==
    LET k == key[p]
    IN  IF ~LocalStore
        THEN /\ data' = [data EXCEPT ![k] = c]
             /\ old' = [old EXCEPT ![k] = FALSE]
             /\ UNCHANGED writing
        ELSE /\ writing[p] # "no"
             /\ data' = [data EXCEPT ![k] = IF writing[p] = "unlinked" THEN @
                                            ELSE IF Attached(k) = {p} THEN c ELSE "partial"]
             /\ old' = [old EXCEPT ![k] = @ /\ writing[p] = "unlinked"]
             /\ writing' = [writing EXCEPT ![p] = "no"]

----------------------------------------------------------------------------
(* process, for a job whose content is above the threshold.                *)

Ingest(p, o, k) ==
    /\ row[o] = "new"
    /\ \A q \in Procs : obj[q] # o
    /\ Begin(p, "ingest", "put", o, k, k)
    /\ UNCHANGED <<todo, aged>>

(* The externalize step puts the blob before any row refers to it.          *)
Externalize(p) ==
    /\ pc[p] = "put"
    /\ Put(p, "whole")
    /\ Goto(p, IF op[p] = "ingest" THEN "lookup" ELSE "uget")
    /\ UNCHANGED <<rowVars, faults>>

(* GetByContentHash; its error is taken for a miss.  A draft the dedup step *)
(* marked as a near-duplicate is dropped, its blob already put.            *)
Lookup(p) ==
    /\ pc[p] = "lookup"
    /\ \/ HashHits(key[p]) # {} /\ Goto(p, "reinforce") /\ UNCHANGED faults
       \/ HashHits(key[p]) = {} /\ Goto(p, "create") /\ UNCHANGED faults
       \/ HashHits(key[p]) = {} /\ Done(p) /\ UNCHANGED faults
       \/ Fault /\ Goto(p, "create")
    /\ UNCHANGED <<rowVars, blobVars, writing>>

(* Reinforce writes raw_content, not metadata, and nothing checks the blob  *)
(* after it.  No row left to reinforce: the job is retried or fails.       *)
Reinforce(p) ==
    /\ pc[p] = "reinforce"
    /\ raw' = [o \in Objects |-> IF o \in HashHits(key[p]) THEN key[p] ELSE raw[o]]
    /\ ensured' = [o \in Objects |-> ensured[o] /\ raw'[o] = raw[o]]
    /\ Done(p)
    /\ UNCHANGED <<row, meta, hash, edged, blobVars, writing, faults>>

(* Create; ErrAlreadyExists means another worker inserted the same hash.    *)
Create(p) ==
    /\ pc[p] = "create"
    /\ IF HashHits(key[p]) = {}
       THEN /\ row' = [row EXCEPT ![obj[p]] = "live"]
            /\ raw' = [raw EXCEPT ![obj[p]] = key[p]]
            /\ meta' = [meta EXCEPT ![obj[p]] = key[p]]
            /\ hash' = [hash EXCEPT ![obj[p]] = key[p]]
            /\ ensured' = [ensured EXCEPT ![obj[p]] = FALSE]
            /\ UNCHANGED edged
            /\ Goto(p, "ensure")
       ELSE UNCHANGED rowVars /\ Goto(p, "reinforce")
    /\ UNCHANGED <<blobVars, writing, faults>>

(* Ensure has found or put back the blob: ingest goes on with the mention   *)
(* edges, an update with the keys it freed.                                *)
EnsureReturns(p) ==
    /\ ensured' = [ensured EXCEPT ![obj[p]] =
                      @ \/ (row[obj[p]] = "live" /\ raw[obj[p]] = key[p])]
    /\ IF op[p] = "ingest" THEN Goto(p, "edges") ELSE FreeNext(p, todo[p])
    /\ UNCHANGED <<row, raw, meta, hash, edged, faults>>

(* Mutation: Ensure trusts the blob the externalize step put.               *)
EnsureBlindly(p) ==
    /\ pc[p] = "ensure"
    /\ EnsureReturns(p)
    /\ UNCHANGED <<blobVars, writing>>

Ensure(p) ==
    /\ pc[p] = "ensure"
    /\ IF data[key[p]] = "none"
       THEN Goto(p, "eput") /\ UNCHANGED <<rowVars, faults>>
       ELSE EnsureReturns(p)
    /\ UNCHANGED <<blobVars, writing>>

EnsurePut(p) ==
    /\ pc[p] = "eput"
    /\ Put(p, "whole")
    /\ EnsureReturns(p)

(* CreateMissing of the mention edges, then markCompleted.  Nothing looks   *)
(* at the row again.                                                       *)
WriteEdges(p) ==
    /\ pc[p] = "edges"
    /\ edged' = [edged EXCEPT ![obj[p]] = TRUE]
    /\ Done(p)
    /\ UNCHANGED <<row, raw, meta, hash, ensured, blobVars, writing, faults>>

----------------------------------------------------------------------------
(* UpdateObject: a re-analysis that replaces the content with key k, or a  *)
(* patch, which writes back the refs it read and has no content for Ensure.*)

Replace(p, o, k) ==
    /\ row[o] = "live"
    /\ Begin(p, "replace", "put", o, k, k)
    /\ UNCHANGED <<todo, aged>>

Patch(p, o) ==
    /\ row[o] = "live"
    /\ Begin(p, "patch", "uget", o, raw[o], meta[o])
    /\ UNCHANGED <<todo, aged>>

(* Get of the row the update replaces: the keys to free come from it.       *)
UpdateGet(p) ==
    /\ pc[p] = "uget"
    /\ IF row[obj[p]] = "live"
       THEN /\ todo' = [todo EXCEPT ![p] = KeysOf(obj[p]) \ {key[p], mkey[p]}]
            /\ pc' = [pc EXCEPT ![p] = "uwrite"]
            /\ UNCHANGED <<regVars, key, got>>
       ELSE Done(p)
    /\ UNCHANGED <<rowVars, blobVars, writing, faults>>

UpdateWrite(p) ==
    LET o == obj[p]
    IN  /\ pc[p] = "uwrite"
        /\ IF row[o] = "live"
           THEN /\ raw' = [raw EXCEPT ![o] = key[p]]
                /\ meta' = [meta EXCEPT ![o] = mkey[p]]
                /\ ensured' = [ensured EXCEPT ![o] = @ /\ raw[o] = key[p]]
                /\ IF op[p] = "replace" THEN Goto(p, "ensure") ELSE FreeNext(p, todo[p])
           ELSE UNCHANGED <<raw, meta, ensured>> /\ Done(p)
        /\ UNCHANGED <<row, hash, edged, blobVars, writing, faults>>

----------------------------------------------------------------------------
(* DeleteObject.                                                           *)

Delete(p, o) ==
    /\ row[o] = "live"
    /\ Begin(p, "delete", "edgedel", o, None, None)
    /\ todo' = [todo EXCEPT ![p] = KeysOf(o)]
    /\ UNCHANGED aged

DeleteEdges(p) ==
    /\ pc[p] = "edgedel"
    /\ edged' = [edged EXCEPT ![obj[p]] = FALSE]
    /\ Goto(p, "rowdel")
    /\ UNCHANGED <<row, raw, meta, hash, ensured, blobVars, writing, faults>>

(* ErrNotFound when another delete was first.                               *)
DeleteRow(p) ==
    LET o == obj[p]
    IN  /\ pc[p] = "rowdel"
        /\ IF row[o] = "live"
           THEN /\ row' = [row EXCEPT ![o] = "gone"]
                /\ raw' = [raw EXCEPT ![o] = None]
                /\ meta' = [meta EXCEPT ![o] = None]
                /\ hash' = [hash EXCEPT ![o] = None]
                /\ ensured' = [ensured EXCEPT ![o] = FALSE]
                /\ FreeNext(p, todo[p])
           ELSE UNCHANGED <<row, raw, meta, hash, ensured>> /\ Done(p)
        /\ UNCHANGED <<edged, blobVars, writing, faults>>

----------------------------------------------------------------------------
(* Sweep, and the freeing it shares with deletes and updates.              *)

(* Mutation: the age comparison is inverted.                                *)
SweepYoung(p) ==
    /\ \E k \in BlobKeys : data[k] # "none"
    /\ Begin(p, "sweep", "free", None, None, None)
    /\ todo' = [todo EXCEPT ![p] = {k \in BlobKeys : data[k] # "none"}]
    /\ aged' = [aged EXCEPT ![p] = {k \in BlobKeys : data[k] # "none" /\ ~old[k]}]

(* List(""): the keys and their ages, as they are now.                      *)
Sweep(p) ==
    /\ \E k \in BlobKeys : data[k] # "none"
    /\ Begin(p, "sweep", "free", None, None, None)
    /\ todo' = [todo EXCEPT ![p] = {k \in BlobKeys : data[k] # "none"}]
    /\ aged' = [aged EXCEPT ![p] = {k \in BlobKeys : data[k] # "none" /\ old[k]}]

(* CountBlobRefs of the next key.  Unreferenced: a sweep goes by the age it *)
(* listed, the others read it now.  A failed count leaves an orphan (it    *)
(* ends a sweep: Fails).                                                   *)
CountRefs(p) ==
    /\ pc[p] = "free"
    /\ \E k \in todo[p] :
          LET next == IF op[p] # "sweep" THEN "age" ELSE "get"
          IN  \/ /\ Refs(k) # {} \/ (op[p] = "sweep" /\ k \notin aged[p])
                 /\ FreeNext(p, todo[p] \ {k})
                 /\ UNCHANGED faults
              \/ /\ Refs(k) = {} /\ (op[p] = "sweep" => k \in aged[p])
                 /\ pc' = [pc EXCEPT ![p] = next]
                 /\ key' = [key EXCEPT ![p] = k]
                 /\ UNCHANGED <<regVars, todo, got, faults>>
              \/ /\ op[p] # "sweep" /\ Fault
                 /\ FreeNext(p, todo[p] \ {k})
    /\ UNCHANGED <<rowVars, blobVars, writing>>

Skip(p) == FreeNext(p, todo[p] \ {key[p]})

(* olderThanGrace.                                                          *)
ReadAge(p) ==
    /\ pc[p] = "age"
    /\ IF data[key[p]] # "none" /\ old[key[p]] THEN Goto(p, "get") ELSE Skip(p)
    /\ UNCHANGED <<rowVars, blobVars, writing, faults>>

(* remove: Get and ReadAll ...                                              *)
ReadBlob(p) ==
    /\ pc[p] = "get"
    /\ IF data[key[p]] = "none" THEN Skip(p)
       ELSE /\ got' = [got EXCEPT ![p] = data[key[p]]]
            /\ pc' = [pc EXCEPT ![p] = "del"]
            /\ UNCHANGED <<regVars, key, todo>>
    /\ UNCHANGED <<rowVars, blobVars, writing, faults>>

(* ... Delete, under any Put still writing the file ...                     *)
DeleteBlob(p) ==
    /\ pc[p] = "del"
    /\ data' = [data EXCEPT ![key[p]] = "none"]
    /\ old' = [old EXCEPT ![key[p]] = FALSE]
    /\ writing' = [q \in Procs |-> IF q \in Attached(key[p]) THEN "unlinked" ELSE writing[q]]
    /\ Goto(p, "recount")
    /\ UNCHANGED <<rowVars, faults>>

(* Mutation: the delete is final, nothing is counted after it.              *)
RecountNever(p) ==
    /\ pc[p] = "recount"
    /\ Skip(p)
    /\ UNCHANGED <<rowVars, blobVars, writing, faults>>

(* ... CountBlobRefs again: referred to, or unknown, means put it back ...  *)
Recount(p) ==
    /\ pc[p] = "recount"
    /\ \/ /\ IF Refs(key[p]) = {} THEN Skip(p) ELSE Goto(p, "back")
          /\ UNCHANGED faults
       \/ Fault /\ Goto(p, "back")
    /\ UNCHANGED <<rowVars, blobVars, writing>>

(* ... with the content read before the delete.                             *)
PutBack(p) ==
    /\ pc[p] = "back"
    /\ Put(p, got[p])
    /\ Skip(p)
    /\ UNCHANGED <<rowVars, faults>>

----------------------------------------------------------------------------
(* Failures and time.                                                      *)

NoLongerWriting(p) == writing' = [writing EXCEPT ![p] = "no"]

(* The process dies, or a call fails and ends its operation: a pipeline     *)
(* that stops after the externalize step, a rejected write.                *)
Fails(p) ==
    /\ pc[p] \notin {"idle"} \cup WindowPCs
    /\ Fault
    /\ Done(p)
    /\ NoLongerWriting(p)
    /\ UNCHANGED <<rowVars, blobVars>>

(* A failure freeing one key is reported as an orphan; the next one is      *)
(* freed all the same.                                                     *)
FreeFails(p) ==
    /\ pc[p] \in {"age", "get", "del"}
    /\ Fault
    /\ Skip(p)
    /\ UNCHANGED <<rowVars, blobVars, writing>>

(* remove dies between its delete and its put back, or the put back fails.  *)
LosesBlob(p) ==
    /\ pc[p] \in WindowPCs
    /\ Fault
    /\ \/ Done(p)
       \/ pc[p] = "back" /\ Skip(p)
    /\ NoLongerWriting(p)
    /\ ensured' = [o \in Objects |-> ensured[o] /\ raw[o] # key[p]]
    /\ UNCHANGED <<row, raw, meta, hash, edged, blobVars>>

(* DefaultSweepGrace goes by.                                               *)
Age(k) ==
    /\ data[k] # "none"
    /\ ~old[k]
    /\ SlowOps \/ \A p \in Procs : key[p] # k
    /\ old' = [old EXCEPT ![k] = TRUE]
    /\ UNCHANGED <<rowVars, data, procVars, faults>>

----------------------------------------------------------------------------

Start(p) ==
    \/ \E o \in Objects : \/ \E k \in BlobKeys : Ingest(p, o, k) \/ Replace(p, o, k)
                          \/ Patch(p, o) \/ Delete(p, o)
    \/ Sweep(p)

Step(p) ==
    \/ PutTruncate(p) \/ Externalize(p) \/ Lookup(p) \/ Reinforce(p) \/ Create(p)
    \/ Ensure(p) \/ EnsurePut(p) \/ WriteEdges(p)
    \/ UpdateGet(p) \/ UpdateWrite(p) \/ DeleteEdges(p) \/ DeleteRow(p)
    \/ CountRefs(p) \/ ReadAge(p) \/ ReadBlob(p) \/ DeleteBlob(p)
    \/ Recount(p) \/ PutBack(p)

Next ==
    \/ \E p \in Procs : \/ Start(p) \/ Step(p)
                        \/ Fails(p) \/ FreeFails(p) \/ LosesBlob(p)
    \/ \E k \in BlobKeys : Age(k)

Spec == Init /\ [][Next]_vars

(* Every started operation goes on, blobs age, and an operator's schedule   *)
(* runs `dpkms housekeeping` (the sweep) again and again.                  *)
FairSpec ==
    /\ Spec
    /\ \A p \in Procs : WF_vars(Step(p)) /\ SF_vars(Sweep(p))
    /\ \A k \in BlobKeys : WF_vars(Age(k))

----------------------------------------------------------------------------
(* Properties.                                                             *)

(* Some remover has deleted k and is about to count its references again.   *)
BeingRemoved(k) == \E p \in Procs : pc[p] \in WindowPCs /\ key[p] = k

(* With a store whose Put is atomic: once Ensure has returned for a row,    *)
(* the blob its ref names is there, or the remove that deleted it has      *)
(* still to count the row and put it back, whatever deletes, updates,      *)
(* sweeps and re-ingests of the same content are going on, and without a   *)
(* lock between them.                                                      *)
EnsuredRowResolves ==
    \A o \in Objects :
        (row[o] = "live" /\ raw[o] # None /\ ensured[o])
            => data[raw[o]] = "whole" \/ BeingRemoved(raw[o])

(* A blob deleted under an ensured row comes back.                          *)
RemovedBlobComesBack ==
    \A o \in Objects : \A k \in BlobKeys :
        (row[o] = "live" /\ raw[o] = k /\ ensured[o] /\ data[k] = "none")
            ~> (data[k] # "none" \/ raw[o] # k \/ ~ensured[o])

(* No blob is left for ever without an object that refers to it, unless     *)
(* ingests go on putting it for ever: the ones deletes and updates leave   *)
(* behind, the ones failed and dropped ingests put and the ones a stale    *)
(* update freed are all collected.                                         *)
OrphansAreSwept ==
    \A k \in BlobKeys :
        <>[](\A p \in Procs : pc[p] = "put" => key[p] # k)
            => ((data[k] # "none" /\ Refs(k) = {}) ~> (data[k] = "none" \/ Refs(k) # {}))

----------------------------------------------------------------------------
(* The inductive invariant behind EnsuredRowResolves.                      *)

(* What a process knows at each pc.                                         *)
KeyPCs == IngestPCs \cup PutPCs \cup {"ensure", "age", "get", "del", "recount"}
ObjectPCs == IngestPCs \cup WritePCs \cup {"edgedel", "rowdel"}

Knows ==
    \A p \in Procs :
        /\ pc[p] \in KeyPCs => key[p] \in BlobKeys
        /\ pc[p] \in ObjectPCs => obj[p] \in Objects
        /\ pc[p] \in {"uget", "uwrite"} /\ op[p] = "replace" => key[p] \in BlobKeys

(* With atomic puts nobody ever sees part of a blob, so what remove puts    *)
(* back is all of it.                                                      *)
WholeBlobs ==
    /\ \A k \in BlobKeys : data[k] # "partial"
    /\ \A p \in Procs : pc[p] \in {"del"} \cup WindowPCs => got[p] = "whole"

BlobInv == WholeBlobs /\ EnsuredRowResolves

(* Ensure has nothing to return for but a ref.                              *)
EnsuredHasRef == \A o \in Objects : ensured[o] => raw[o] # None

----------------------------------------------------------------------------
(* What a comment of the repository says of this code, and it does not do. *)

(* delete.go says that whichever of an ingest and a delete acts last sees   *)
(* the other, and that the delete "puts back the content it read before    *)
(* deleting".  In the local store that read can meet the truncated file of *)
(* the ingest's Put, and the truncated content is put back for good.       *)
PutBackKeepsContent ==
    \A o \in Objects :
        (/\ row[o] = "live" /\ ensured[o]
         /\ ~BeingRemoved(raw[o]) /\ Attached(raw[o]) = {}) => data[raw[o]] = "whole"

=============================================================================
