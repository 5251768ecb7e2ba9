----------------------------- MODULE Federation -----------------------------
(***************************************************************************)
(* Federation (internal/federation): one source database, one configured   *)
(* entry, and the worker that pushes the source's changes to the entry's   *)
(* target, tick after tick.                                                *)
(*                                                                         *)
(* Every write of an object takes the next change_seq inside its own       *)
(* transaction.  A Syncer lists the objects after the target's watermark   *)
(* in that order, pushes a page of them and moves the watermark.  The      *)
(* RemotePusher posts them in requests and keeps the watermark in the      *)
(* source database; the LocalPusher writes the target database itself and  *)
(* keeps the watermark there.                                              *)
(*                                                                         *)
(* Edges and entities ride along with objects and are left out; so are the *)
(* sizes that split a push into requests (any split may happen).           *)
(***************************************************************************)
EXTENDS Integers, FiniteSets

CONSTANTS
    Objects,            \* ids of the source's objects
    Huge,               \* those the receiver refuses, sent alone, as too large
    Entries,            \* the federation entries an instance may have
    None,               \* no object
    BatchSize,          \* objects per page (100)
    MaxObjectFailures,  \* syncs an object may fail before it is skipped (3)
    MaxAttempts,        \* posts of one request (3)
    MaxSeq,             \* bound: change numbers the source gives out
    MaxRestores         \* bound: restores of the source

ASSUME ObjectsAssumption == None \notin Objects /\ Huge \subseteq Objects
ASSUME EntriesAssumption ==
    Entries \subseteq [remote : BOOLEAN, hashless : SUBSET Objects, restored : BOOLEAN,
                       faults : Nat]
ASSUME LimitsAssumption ==
    /\ BatchSize \in Nat \ {0} /\ MaxObjectFailures \in Nat \ {0} /\ MaxAttempts \in Nat \ {0}
    /\ MaxSeq \in Nat /\ MaxRestores \in Nat

VARIABLES
    entry,     \* the entry: remote (a URL) or a path; the objects that carry no
               \* content hash; whether the source is ever restored from a backup;
               \* bound: failed calls, deaths, blob losses and target edits
    seq,       \* seq[o]: the committed row's change_seq, 0 when there is no row
    stamped,   \* stamped[o]: the change_seq an open transaction has given o
    counter,   \* object_change_counter
    lost,      \* objects whose blob the source's store does not hold
    have,      \* objects the target has, by content hash or by id
    mark,      \* the target's watermark
    pc,        \* the call the worker makes next
    pos,       \* where the page began
    page,      \* page[o]: o's change_seq in the page, 0 when it is not in it
    todo,      \* objects of the page still to be pushed
    body,      \* objects of the request or of the local push under way
    tries,     \* posts of this request so far
    failing,   \* the object the last syncs failed on
    skip,      \* skip[o]: the change_seq o was given up at
    settled,   \* history: the changes that reached the target or were given up
    backup,    \* the backup a restore would use
    faults, restores

srcVars == <<seq, stamped, counter, lost>>
pageVars == <<pos, page, todo, body, tries>>
memory == <<pc, pageVars, failing, skip>>
bounds == <<faults, restores>>
vars == <<entry, srcVars, have, mark, memory, settled, backup, bounds>>

NoFailing == [id |-> None, seq |-> 0, n |-> 0]
Nowhere == [o \in Objects |-> 0]
Changes == Objects \X Nat

TypeOK ==
    /\ entry \in Entries
    /\ seq \in [Objects -> Nat] /\ stamped \in [Objects -> Nat] /\ counter \in Nat
    /\ lost \subseteq Objects /\ have \subseteq Objects /\ mark \in Nat
    /\ pc \in {"idle", "list", "push", "send", "write", "ack"}
    /\ pos \in Nat /\ page \in [Objects -> Nat]
    /\ todo \subseteq Objects /\ body \subseteq Objects /\ tries \in Nat
    /\ failing \in [id : Objects \cup {None}, seq : Nat, n : Nat]
    /\ skip \in [Objects -> Nat]
    /\ settled \subseteq Changes
    /\ backup \in [seq : [Objects -> Nat], counter : Nat, mark : Nat]
    /\ faults \in Nat /\ restores \in Nat

Init ==
    /\ entry \in Entries
    /\ seq = Nowhere /\ stamped = Nowhere /\ counter = 0
    /\ lost = {} /\ have = {} /\ mark = 0
    /\ pc = "idle" /\ pos = 0 /\ page = Nowhere /\ todo = {} /\ body = {} /\ tries = 0
    /\ failing = NoFailing /\ skip = Nowhere
    /\ settled = {}
    /\ backup = [seq |-> Nowhere, counter |-> 0, mark |-> 0]
    /\ faults = 0 /\ restores = 0

Fault == faults < entry.faults /\ faults' = faults + 1

----------------------------------------------------------------------------
(* The source: an insert or update of an object stamps it from the counter *)
(* row, whose lock its transaction keeps until it ends.  (One that writes  *)
(* several rows is as good as several in a row.)                           *)

(* Mutation: a SEQUENCE, which no transaction locks.                        *)
StampFromSequence(o) ==
    /\ stamped[o] = 0
    /\ counter < MaxSeq
    /\ stamped' = [stamped EXCEPT ![o] = counter + 1]
    /\ counter' = counter + 1
    /\ UNCHANGED <<entry, seq, lost, have, mark, memory, settled, backup, bounds>>

Stamp(o) ==
    /\ \A p \in Objects : stamped[p] = 0
    /\ counter < MaxSeq
    /\ stamped' = [stamped EXCEPT ![o] = counter + 1]
    /\ counter' = counter + 1
    /\ UNCHANGED <<entry, seq, lost, have, mark, memory, settled, backup, bounds>>

Commit(o) ==
    /\ stamped[o] # 0
    /\ seq' = [seq EXCEPT ![o] = stamped[o]]
    /\ stamped' = [stamped EXCEPT ![o] = 0]
    /\ UNCHANGED <<entry, counter, lost, have, mark, memory, settled, backup, bounds>>

Rollback(o) ==
    /\ stamped[o] # 0
    /\ stamped' = [stamped EXCEPT ![o] = 0]
    /\ counter' = counter - 1
    /\ UNCHANGED <<entry, seq, lost, have, mark, memory, settled, backup, bounds>>

DeleteObject(o) ==
    /\ seq[o] # 0 /\ stamped[o] = 0
    /\ seq' = [seq EXCEPT ![o] = 0]
    /\ UNCHANGED <<entry, stamped, counter, lost, have, mark, memory, settled, backup, bounds>>

BlobLost(o) ==
    /\ o \notin lost /\ Fault
    /\ lost' = lost \cup {o}
    /\ UNCHANGED <<entry, seq, stamped, counter, have, mark, memory, settled, backup, restores>>

BlobBack(o) ==
    /\ o \in lost
    /\ lost' = lost \ {o}
    /\ UNCHANGED <<entry, seq, stamped, counter, have, mark, memory, settled, backup, bounds>>

(* The target's own users ingest the same content, or delete it.            *)
TargetEdit(o) ==
    /\ Fault
    /\ \/ o \in have /\ have' = have \ {o}
       \/ o \notin have \cup entry.hashless /\ have' = have \cup {o}
    /\ UNCHANGED <<entry, srcVars, mark, memory, settled, backup, restores>>

----------------------------------------------------------------------------
(* Syncer.Sync and pushPage.                                               *)

InPage == {o \in Objects : page[o] # 0}
IsFirst(o, S) == o \in S /\ \A p \in S : page[o] <= page[p]
IsLast(o, S) == o \in S /\ \A p \in S : page[p] <= page[o]
Before(o, S) == {p \in S : page[p] < page[o]}

(* Sync returns; the next tick starts again from the watermark.             *)
Return ==
    /\ pc' = "idle" /\ pos' = 0 /\ page' = Nowhere
    /\ todo' = {} /\ body' = {} /\ tries' = 0

Pruned(p) == [o \in Objects |-> IF skip[o] <= p THEN 0 ELSE skip[o]]

Tick ==
    /\ pc = "idle"
    /\ pc' = "list" /\ pos' = mark
    /\ skip' = Pruned(mark)
    /\ UNCHANGED <<entry, srcVars, have, mark, page, todo, body, tries, failing,
                   settled, backup, bounds>>

(* The first BatchSize objects after pos, in change_seq order.              *)
IsPage(P) ==
    LET Changed == {o \in Objects : seq[o] > pos}
    IN  /\ P \subseteq Changed
        /\ \A o \in P, q \in Changed \ P : seq[o] < seq[q]
        /\ Cardinality(P) <= BatchSize
        /\ Cardinality(P) < BatchSize => P = Changed

List ==
    /\ pc = "list"
    /\ \E P \in SUBSET Objects :
        /\ IsPage(P)
        /\ \/ P = {} /\ Return
           \/ /\ P # {}
              /\ page' = [o \in Objects |-> IF o \in P THEN seq[o] ELSE 0]
              /\ todo' = {o \in P : skip[o] # seq[o]}
              /\ pc' = "push"
              /\ UNCHANGED <<pos, body, tries>>
    /\ UNCHANGED <<entry, srcVars, have, mark, failing, skip, settled, backup, bounds>>

(* Mutation: the count is kept per sync, and never gets past one.           *)
ObjectFailsAlone(o) ==
    /\ failing' = [id |-> o, seq |-> page[o], n |-> 1]
    /\ Return
    /\ UNCHANGED <<skip, settled>>

(* An ObjectError for o: the third in a row gives o up, and pushPage goes   *)
(* round again with the rest of the page.                                   *)
ObjectFails(o) ==
    LET again == failing.id = o /\ failing.seq = page[o]
        n == IF again THEN failing.n + 1 ELSE 1
    IN  \/ /\ n < MaxObjectFailures
           /\ failing' = [id |-> o, seq |-> page[o], n |-> n]
           /\ Return
           /\ UNCHANGED <<skip, settled>>
        \/ /\ n >= MaxObjectFailures
           /\ failing' = NoFailing
           /\ skip' = [skip EXCEPT ![o] = page[o]]
           /\ settled' = settled \cup {<<o, page[o]>>}
           /\ todo' = {p \in InPage : skip'[p] # page[p]}
           /\ pc' = "push" /\ body' = {} /\ tries' = 0
           /\ UNCHANGED <<pos, page>>

ClearFailing ==
    failing' = IF failing.id \in InPage /\ page[failing.id] = failing.seq
               THEN NoFailing ELSE failing

(* The rest of the page is acknowledged: Push left the watermark at the     *)
(* last object it sent, Advance moves it past a last one that was skipped.  *)
PageDone ==
    /\ pc = "push" /\ todo = {}
    /\ ClearFailing
    /\ \E o \in Objects :
        /\ IsLast(o, InPage)
        /\ mark' = IF skip[o] = page[o] THEN page[o] ELSE mark
        /\ \/ Cardinality(InPage) < BatchSize /\ Return
           \/ /\ Cardinality(InPage) >= BatchSize
              /\ pc' = "list" /\ pos' = page[o] /\ page' = Nowhere
              /\ UNCHANGED <<todo, body, tries>>
        /\ skip' = Pruned(page[o])
    /\ UNCHANGED <<entry, srcVars, have, settled, backup, bounds>>

AdvanceFails ==
    /\ pc = "push" /\ todo = {} /\ Fault
    /\ \E o \in Objects : IsLast(o, InPage) /\ skip[o] = page[o]
    /\ ClearFailing
    /\ Return
    /\ UNCHANGED <<entry, srcVars, have, mark, skip, settled, backup, restores>>

(* An error that is not down to one object: the watermark cannot be read or *)
(* written, a store does not answer, the target's lock is held, a 4xx.      *)
CallFails ==
    /\ pc # "idle" /\ Fault
    /\ ~(pc = "push" /\ todo = {})
    /\ Return
    /\ UNCHANGED <<entry, srcVars, have, mark, failing, skip, settled, backup, restores>>

(* Mutation: the loop notes the next object before it sends the request.    *)
SetWatermarkOfNext ==
    /\ pc = "ack"
    /\ \E o \in Objects :
        /\ IF todo \subseteq body THEN IsLast(o, body) ELSE IsFirst(o, todo \ body)
        /\ mark' = page[o]
    /\ todo' = todo \ body
    /\ pc' = "push" /\ body' = {} /\ tries' = 0
    /\ UNCHANGED <<entry, srcVars, have, pos, page, failing, skip, settled, backup, bounds>>

(* SetWatermark, once what was pushed has been acknowledged.                *)
SetWatermark ==
    /\ pc = "ack"
    /\ \E o \in Objects : IsLast(o, body) /\ mark' = page[o]
    /\ todo' = todo \ body
    /\ pc' = "push" /\ body' = {} /\ tries' = 0
    /\ UNCHANGED <<entry, srcVars, have, pos, page, failing, skip, settled, backup, bounds>>

----------------------------------------------------------------------------
(* RemotePusher.Push, and FederationAccept at the receiver.                *)

(* An object larger than a request goes alone.                              *)
Fits(R) == R \cap Huge = {} \/ \E h \in R : R = {h}

(* Objects are encoded one after the other, their blobs read, and the one   *)
(* that overflows a request is encoded before that request is sent.         *)
Encodes(R) ==
    /\ R \subseteq todo /\ R # {} /\ Fits(R)
    /\ \A o \in R, q \in todo \ R : page[o] < page[q]
    /\ R \cap lost = {}
    /\ \A q \in todo \ R : IsFirst(q, todo \ R) => q \notin lost

Request ==
    /\ pc = "push" /\ entry.remote
    /\ \E R \in SUBSET Objects : Encodes(R) /\ body' = R
    /\ pc' = "send" /\ tries' = 1
    /\ UNCHANGED <<entry, srcVars, have, mark, pos, page, todo, failing, skip,
                   settled, backup, bounds>>

EncodeFails(o) ==
    /\ pc = "push" /\ entry.remote
    /\ o \in todo \cap lost
    /\ Before(o, todo) \cap lost = {} /\ (Before(o, todo) = {} \/ Fits(Before(o, todo)))
    /\ ObjectFails(o)
    /\ UNCHANGED <<entry, srcVars, have, mark, backup, bounds>>

(* FederationAccept of the objects A: one the receiver has by content hash  *)
(* is left as it is, another is created.                                    *)
Accept(A) ==
    /\ have' = have \cup A
    /\ settled' = settled \cup {<<o, page[o]>> : o \in A}

(* Creating a row whose id exists fails: only an object without a content   *)
(* hash gets that far.                                                      *)
Conflicts == body \cap have \cap entry.hashless
TooLarge == body \cap Huge # {}

Accepted ==
    /\ pc = "send"
    /\ ~TooLarge /\ Conflicts = {}
    /\ Accept(body)
    /\ pc' = "ack"
    /\ UNCHANGED <<entry, srcVars, mark, pageVars, failing, skip, backup, bounds>>

Retry ==
    \/ /\ tries < MaxAttempts
       /\ tries' = tries + 1
       /\ UNCHANGED <<pc, pos, page, todo, body>>
    \/ /\ tries >= MaxAttempts
       /\ Return

(* A post without a 200: the receiver has taken the first objects, or all   *)
(* of them and the answer is lost.                                          *)
PostFails ==
    /\ pc = "send" /\ Fault
    /\ \E A \in SUBSET body :
        /\ A = {} \/ ~TooLarge
        /\ A \cap Conflicts = {}
        /\ \A o \in A, q \in body \ A : page[o] < page[q]
        /\ Accept(A)
    /\ Retry
    /\ UNCHANGED <<entry, srcVars, mark, failing, skip, backup, restores>>

(* HTTP 500 from the receiver at the first conflict, what came before kept. *)
PostRefused ==
    /\ pc = "send" /\ Conflicts # {}
    /\ \E o \in Objects : IsFirst(o, Conflicts) /\ Accept(Before(o, body))
    /\ Retry
    /\ UNCHANGED <<entry, srcVars, mark, failing, skip, backup, bounds>>

(* HTTP 413 for an object sent alone.                                       *)
PostTooLarge(o) ==
    /\ pc = "send" /\ TooLarge
    /\ body = {o}
    /\ ObjectFails(o)
    /\ UNCHANGED <<entry, srcVars, have, mark, backup, bounds>>

----------------------------------------------------------------------------
(* LocalPusher.Push.                                                       *)

OpenTarget ==
    /\ pc = "push" /\ ~entry.remote /\ todo # {}
    /\ pc' = "write" /\ body' = todo
    /\ UNCHANGED <<entry, srcVars, have, mark, pos, page, todo, tries, failing, skip,
                   settled, backup, bounds>>

(* One object: skipped when the target has it, else its blob copied and its *)
(* row created.  A lost blob does not matter when the target's store holds  *)
(* a copy from before.                                                      *)
WriteObject(o) ==
    /\ pc = "write" /\ IsFirst(o, todo)
    /\ Accept({o})
    /\ todo' = todo \ {o}
    /\ pc' = IF todo' = {} THEN "ack" ELSE "write"
    /\ UNCHANGED <<entry, srcVars, mark, pos, page, body, tries, failing, skip, backup, bounds>>

CopyBlobsFails(o) ==
    /\ pc = "write" /\ IsFirst(o, todo)
    /\ o \in lost \ have
    /\ ObjectFails(o)
    /\ UNCHANGED <<entry, srcVars, have, mark, backup, bounds>>

----------------------------------------------------------------------------
(* The daemon dies, or stops, and starts again: a new Syncer remembers      *)
(* nothing.                                                                 *)
Forget == Return /\ failing' = NoFailing /\ skip' = Nowhere

Crash ==
    /\ Fault
    /\ Forget
    /\ UNCHANGED <<entry, srcVars, have, mark, settled, backup, restores>>

(* A backup of the source, and a restore: the database file is replaced     *)
(* while no daemon has it open, and changes after the backup never were.    *)
(* The watermark of a remote entry is a row of that file.                   *)
Backup ==
    /\ entry.restored /\ restores < MaxRestores
    /\ stamped = Nowhere
    /\ backup' = [seq |-> seq, counter |-> counter, mark |-> mark]
    /\ UNCHANGED <<entry, srcVars, have, mark, memory, settled, bounds>>

Restore ==
    /\ entry.restored /\ restores < MaxRestores
    /\ restores' = restores + 1
    /\ seq' = backup.seq /\ counter' = backup.counter /\ stamped' = Nowhere
    /\ settled' = {c \in settled : c[2] <= backup.counter}
    /\ mark' = IF entry.remote THEN backup.mark ELSE mark
    /\ Forget
    /\ UNCHANGED <<entry, lost, have, backup, faults>>

----------------------------------------------------------------------------

(* The worker's own steps; ticks come for ever, so they are fair.           *)
Remote ==
    \/ Request \/ Accepted \/ PostRefused
    \/ \E o \in Objects : EncodeFails(o) \/ PostTooLarge(o)
Local == OpenTarget \/ \E o \in Objects : WriteObject(o) \/ CopyBlobsFails(o)
Worker == Tick \/ List \/ PageDone \/ SetWatermark \/ Remote \/ Local

Source == \E o \in Objects :
    Stamp(o) \/ Commit(o) \/ Rollback(o) \/ DeleteObject(o) \/ BlobBack(o)
Faults ==
    \/ AdvanceFails \/ CallFails \/ PostFails \/ Crash \/ Backup \/ Restore
    \/ \E o \in Objects : BlobLost(o) \/ TargetEdit(o)

Next == Worker \/ Source \/ Faults

Spec == Init /\ [][Next]_vars /\ WF_vars(Worker)

----------------------------------------------------------------------------

(* Every committed change at or before m has reached the target or was      *)
(* given up.                                                                *)
CoveredTo(m) == \A o \in Objects : seq[o] # 0 /\ seq[o] <= m => <<o, seq[o]>> \in settled

(* Nothing is left behind the watermark: an object whose change_seq the     *)
(* target's watermark has passed was pushed at that change_seq or given up  *)
(* after repeated failures, whatever order transactions commit in, and      *)
(* wherever a sync fails or the daemon dies (Syncer.Sync, both pushers).    *)
(* A source restored from a backup keeps this only for a remote entry.      *)
WatermarkCovers == (entry.restored => entry.remote) => CoveredTo(mark)

(* As Syncer.Sync's comment has it, "no change can later appear behind the  *)
(* watermark, whatever updated_at it carries (an import, a row a receiver   *)
(* forwards on, a restore)".                                                *)
NoChangeBehindWatermark == CoveredTo(mark)

(* The watermark gets past every committed change in time, unless a newer   *)
(* one replaces it or its object is deleted: an object that keeps failing   *)
(* is skipped and holds nothing back, across failed calls, lost answers,    *)
(* restarts and restores (Syncer.pushPage).  A row without a content hash   *)
(* that is edited and pushed to a URL again is the exception: the receiver  *)
(* finds no row of its hash, fails to insert it, and the entry is stuck.    *)
KeepsGoing ==
    (entry.remote => entry.hashless = {}) =>
        \A s \in 1 .. MaxSeq :
            (\E o \in Objects : seq[o] = s) ~> (mark >= s \/ \A o \in Objects : seq[o] # s)

----------------------------------------------------------------------------
(* What an entry promises its target, and how this worker keeps it.        *)

(* The last change a reader sees: an open transaction has the one after it. *)
Visible == IF \E o \in Objects : stamped[o] # 0 THEN counter - 1 ELSE counter

Feed == INSTANCE ChangeFeed WITH
    latest <- seq, head <- Visible, reached <- settled, mark <- mark,
    saved <- [latest |-> backup.seq, head |-> backup.counter, mark |-> backup.mark]

(* The worker and the writers implement ChangeFeed: numbers become visible  *)
(* in order and without a gap (the counter row's lock), the worker sends    *)
(* only what it has seen and moves the watermark only past what it sent or  *)
(* gave up, and a restore takes the watermark back with the source          *)
(* (objectChangeSeqTriggers, Syncer.Sync, the pushers).  Of a path entry whose  *)
(* source is restored the last does not hold: see NoChangeBehindWatermark.  *)
ImplementsChangeFeed == Feed!Spec

----------------------------------------------------------------------------
(* The inductive invariant behind WatermarkCovers.                         *)

Good == entry.restored => entry.remote

(* A change number that is committed: nothing up to n is still to appear.   *)
Seen(n) == n <= counter /\ \A o \in Objects : stamped[o] # 0 => n < stamped[o]

(* The counter's lock: one transaction has a stamp, and it is the newest.   *)
StampIsLast ==
    \A o \in Objects : stamped[o] # 0 =>
        stamped[o] = counter /\ \A p \in Objects : stamped[p] # 0 => p = o

AllSeen == Seen(mark) /\ Seen(pos) /\ \A o \in Objects : Seen(seq[o]) /\ Seen(page[o])

(* The page has every change between pos and each of its objects, but those *)
(* replaced since it was listed.                                            *)
PageIsPrefix ==
    \A o, p \in Objects :
        page[p] # 0 /\ seq[o] # 0 /\ pos < seq[o] /\ seq[o] <= page[p] => page[o] = seq[o]

PageProgress ==
    /\ todo \subseteq InPage /\ body \subseteq InPage
    /\ \A o \in InPage \ todo : <<o, page[o]>> \in settled
    /\ pc \in {"send", "ack"} => \A o \in body, q \in todo \ body : page[o] < page[q]
    /\ pc = "ack" => \A o \in body : <<o, page[o]>> \in settled
    /\ pc \in {"idle", "list"} => page = Nowhere
    /\ pc = "push" => body = {}

SkipIsSettled == \A o \in Objects : skip[o] # 0 => <<o, skip[o]>> \in settled

BackupCovers ==
    /\ backup.mark <= backup.counter
    /\ \A o \in Objects :
        /\ backup.seq[o] <= backup.counter
        /\ backup.seq[o] # 0 /\ backup.seq[o] <= backup.mark => <<o, backup.seq[o]>> \in settled

FederationInv ==
    /\ StampIsLast
    /\ Good => /\ AllSeen /\ PageIsPrefix /\ PageProgress
               /\ SkipIsSettled /\ BackupCovers
               /\ CoveredTo(mark) /\ CoveredTo(pos)
=============================================================================
