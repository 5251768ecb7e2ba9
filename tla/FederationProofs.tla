-------------------------- MODULE FederationProofs --------------------------
(***************************************************************************)
(* Federation for every set of objects and entries, and every bound: its   *)
(* types, and that nothing is left behind the watermark.                   *)
(***************************************************************************)
EXTENDS Federation, TLAPS

USE ObjectsAssumption, EntriesAssumption, LimitsAssumption
USE DEF Changes, NoFailing, Nowhere

(* One step of Next, action by action.                                      *)
LEMMA Cases ==
    ASSUME Next
    PROVE  \/ \E o \in Objects : Stamp(o) \/ Commit(o) \/ Rollback(o) \/ DeleteObject(o)
                                 \/ BlobBack(o) \/ BlobLost(o) \/ TargetEdit(o)
           \/ Tick \/ List \/ PageDone \/ AdvanceFails \/ CallFails \/ SetWatermark
           \/ Request \/ Accepted \/ PostFails \/ PostRefused
           \/ \E o \in Objects : EncodeFails(o) \/ PostTooLarge(o)
                                 \/ WriteObject(o) \/ CopyBlobsFails(o)
           \/ OpenTarget \/ Crash \/ Backup \/ Restore
BY DEF Next, Worker, Remote, Local, Source, Faults

----------------------------------------------------------------------------
(* Types.                                                                  *)

LEMMA PrunedType ==
    ASSUME TypeOK, NEW p
    PROVE  Pruned(p) \in [Objects -> Nat]
BY DEF TypeOK, Pruned

LEMMA ReturnType ==
    ASSUME Return
    PROVE  /\ pc' = "idle" /\ pos' \in Nat /\ page' \in [Objects -> Nat]
           /\ todo' \subseteq Objects /\ body' \subseteq Objects /\ tries' \in Nat
BY DEF Return

(* What ObjectFails leaves well typed.                                      *)
LEMMA ObjectFailsType ==
    ASSUME TypeOK, NEW o \in Objects, ObjectFails(o)
    PROVE  /\ pc' \in {"idle", "push"} /\ pos' \in Nat /\ page' \in [Objects -> Nat]
           /\ todo' \subseteq Objects /\ body' \subseteq Objects /\ tries' \in Nat
           /\ failing' \in [id : Objects \cup {None}, seq : Nat, n : Nat]
           /\ skip' \in [Objects -> Nat] /\ settled' \subseteq Changes
<1> DEFINE n == IF failing.id = o /\ failing.seq = page[o] THEN failing.n + 1 ELSE 1
<1>1. n \in Nat /\ page[o] \in Nat
  BY DEF TypeOK
<1>2. CASE /\ failing' = [id |-> o, seq |-> page[o], n |-> n]
           /\ Return /\ UNCHANGED <<skip, settled>>
  BY <1>1, <1>2, ReturnType DEF TypeOK
<1>3. CASE /\ failing' = NoFailing
           /\ skip' = [skip EXCEPT ![o] = page[o]]
           /\ settled' = settled \cup {<<o, page[o]>>}
           /\ todo' = {p \in InPage : skip'[p] # page[p]}
           /\ pc' = "push" /\ body' = {} /\ tries' = 0
           /\ UNCHANGED <<pos, page>>
  BY <1>1, <1>3 DEF TypeOK, InPage
<1> QED
  BY <1>2, <1>3 DEF ObjectFails

LEMMA AcceptType ==
    ASSUME TypeOK, NEW A \in SUBSET Objects, Accept(A)
    PROVE  have' \subseteq Objects /\ settled' \subseteq Changes
BY DEF TypeOK, Accept

(* Every step of the worker, of the source, or of the world keeps TypeOK.   *)
LEMMA TypeStep ==
    ASSUME TypeOK, StampIsLast, [Next]_vars
    PROVE  TypeOK'
<1> USE DEF TypeOK, srcVars, pageVars, memory, bounds
<1>1. ASSUME NEW o \in Objects,
             Stamp(o) \/ Commit(o) \/ DeleteObject(o) \/ BlobBack(o)
             \/ BlobLost(o) \/ TargetEdit(o)
      PROVE  TypeOK'
  BY <1>1 DEF Stamp, Commit, DeleteObject, BlobBack, BlobLost, TargetEdit, Fault
<1>2. ASSUME NEW o \in Objects, Rollback(o)
      PROVE  TypeOK'
  <2>1. counter - 1 \in Nat
    BY <1>2 DEF Rollback, StampIsLast
  <2> QED
    BY <1>2, <2>1 DEF Rollback
<1>3. CASE Tick
  BY <1>3, PrunedType DEF Tick
<1>4. CASE List
  BY <1>4, ReturnType DEF List
<1>5. CASE PageDone
  BY <1>5, PrunedType, ReturnType DEF PageDone, ClearFailing, IsLast, InPage
<1>6. CASE AdvanceFails
  BY <1>6, ReturnType DEF AdvanceFails, ClearFailing, Fault
<1>7. CASE CallFails
  BY <1>7, ReturnType DEF CallFails, Fault
<1>8. CASE SetWatermark
  BY <1>8 DEF SetWatermark, IsLast
<1>9. CASE Request
  BY <1>9 DEF Request
<1>10. CASE Accepted
  BY <1>10, AcceptType DEF Accepted
<1>11. CASE PostFails
  BY <1>11, AcceptType, ReturnType DEF PostFails, Retry, Fault
<1>12. CASE PostRefused
  BY <1>12, AcceptType, ReturnType DEF PostRefused, Retry, Before
<1>13. ASSUME NEW o \in Objects, EncodeFails(o) \/ PostTooLarge(o) \/ CopyBlobsFails(o)
       PROVE  TypeOK'
  BY <1>13, ObjectFailsType DEF EncodeFails, PostTooLarge, CopyBlobsFails
<1>14. ASSUME NEW o \in Objects, WriteObject(o)
       PROVE  TypeOK'
  BY <1>14, AcceptType DEF WriteObject
<1>15. CASE OpenTarget
  BY <1>15 DEF OpenTarget
<1>16. CASE Crash
  BY <1>16, ReturnType DEF Crash, Forget, Fault
<1>17. CASE Backup
  BY <1>17 DEF Backup
<1>18. CASE Restore
  BY <1>18, ReturnType DEF Restore, Forget
<1>19. CASE UNCHANGED vars
  BY <1>19 DEF vars
<1> QED
  BY <1>1, <1>2, <1>3, <1>4, <1>5, <1>6, <1>7, <1>8, <1>9, <1>10, <1>11, <1>12, <1>13, <1>14,
     <1>15, <1>16, <1>17, <1>18, <1>19, Cases

----------------------------------------------------------------------------
(* The invariant.                                                          *)

(* Writers: a step that leaves the worker, the target and the backup alone. *)
LEMMA SourceStep ==
    ASSUME TypeOK, FederationInv, NEW o \in Objects,
           Stamp(o) \/ Commit(o) \/ Rollback(o) \/ DeleteObject(o)
    PROVE  FederationInv'
<1> USE DEF TypeOK, FederationInv, memory, pageVars, bounds
<1>1. StampIsLast'
  BY DEF StampIsLast, Stamp, Commit, Rollback, DeleteObject
<1>2. ASSUME Good' PROVE AllSeen'
  <2>1. Good /\ AllSeen
    BY <1>2 DEF Good, Stamp, Commit, Rollback, DeleteObject
  <2>2. CASE Stamp(o)
    BY <2>1, <2>2 DEF AllSeen, Seen, Stamp
  <2>3. CASE Commit(o)
    BY <2>1, <2>3 DEF AllSeen, Seen, StampIsLast, Commit
  <2>4. CASE Rollback(o)
    BY <2>1, <2>4 DEF AllSeen, Seen, StampIsLast, Rollback
  <2>5. CASE DeleteObject(o)
    BY <2>1, <2>5 DEF AllSeen, Seen, DeleteObject
  <2> QED BY <2>2, <2>3, <2>4, <2>5
<1>3. ASSUME Good'
      PROVE  PageIsPrefix' /\ CoveredTo(mark)' /\ CoveredTo(pos)'
  <2>1. Good /\ AllSeen /\ PageIsPrefix /\ CoveredTo(mark) /\ CoveredTo(pos)
    BY <1>3 DEF Good, Stamp, Commit, Rollback, DeleteObject
  <2>2. CASE Stamp(o) \/ Rollback(o)
    BY <2>1, <2>2 DEF PageIsPrefix, CoveredTo, Stamp, Rollback
  <2>3. CASE Commit(o)
    BY <2>1, <2>3 DEF AllSeen, Seen, PageIsPrefix, CoveredTo, Commit
  <2>4. CASE DeleteObject(o)
    BY <2>1, <2>4 DEF PageIsPrefix, CoveredTo, DeleteObject
  <2> QED BY <2>2, <2>3, <2>4
<1>4. ASSUME Good'
      PROVE  PageProgress' /\ SkipIsSettled' /\ BackupCovers'
  BY <1>4 DEF Good, PageProgress, InPage, SkipIsSettled, BackupCovers,
              Stamp, Commit, Rollback, DeleteObject
<1> QED BY <1>1, <1>2, <1>3, <1>4

(* What a step of the worker that leaves the source alone, loses nothing of *)
(* the history and has no page in hand afterwards must still show.          *)
LEMMA NoPageStep ==
    ASSUME TypeOK, FederationInv,
           UNCHANGED <<entry, seq, stamped, counter, backup>>,
           settled \subseteq settled',
           page' = Nowhere, todo' = {}, body' = {}, pc' \in {"idle", "list"},
           Good => /\ Seen(mark') /\ Seen(pos')
                   /\ CoveredTo(mark)' /\ CoveredTo(pos)'
                   /\ SkipIsSettled'
    PROVE  FederationInv'
<1>1. StampIsLast'
  BY DEF FederationInv, StampIsLast
<1>2. ASSUME Good'
      PROVE  AllSeen' /\ PageIsPrefix' /\ PageProgress' /\ BackupCovers'
  <2>1. Good
    BY <1>2 DEF Good
  <2>2. AllSeen'
    BY <2>1 DEF FederationInv, AllSeen, Seen, TypeOK
  <2>3. PageIsPrefix' /\ PageProgress'
    BY DEF PageIsPrefix, PageProgress, InPage
  <2>4. BackupCovers'
    BY <2>1 DEF FederationInv, BackupCovers
  <2> QED BY <2>2, <2>3, <2>4
<1> QED BY <1>1, <1>2 DEF FederationInv, Good

(* What a step within a page must still show.                               *)
LEMMA InPageStep ==
    ASSUME TypeOK, FederationInv,
           UNCHANGED <<entry, seq, stamped, counter, backup, pos, page>>,
           settled \subseteq settled',
           Good => Seen(mark') /\ CoveredTo(mark)' /\ PageProgress' /\ SkipIsSettled'
    PROVE  FederationInv'
<1>1. StampIsLast'
  BY DEF FederationInv, StampIsLast
<1>2. ASSUME Good'
      PROVE  AllSeen' /\ PageIsPrefix' /\ BackupCovers' /\ CoveredTo(pos)'
  <2>1. Good
    BY <1>2 DEF Good
  <2>2. AllSeen'
    BY <2>1 DEF FederationInv, AllSeen, Seen, TypeOK
  <2>3. PageIsPrefix' /\ CoveredTo(pos)'
    BY <2>1 DEF FederationInv, PageIsPrefix, CoveredTo
  <2>4. BackupCovers'
    BY <2>1 DEF FederationInv, BackupCovers
  <2> QED BY <2>2, <2>3, <2>4
<1> QED BY <1>1, <1>2 DEF FederationInv, Good

(* Sync returns, the watermark as it was.                                   *)
LEMMA ReturnStep ==
    ASSUME TypeOK, FederationInv, Return,
           UNCHANGED <<entry, seq, stamped, counter, backup, mark>>,
           settled \subseteq settled', SkipIsSettled' \/ UNCHANGED skip
    PROVE  FederationInv'
<1>1. ASSUME Good
      PROVE  /\ Seen(mark') /\ Seen(pos') /\ CoveredTo(mark)' /\ CoveredTo(pos)'
             /\ SkipIsSettled'
  BY <1>1 DEF Return, FederationInv, AllSeen, Seen, CoveredTo, SkipIsSettled, TypeOK
<1> QED BY <1>1, NoPageStep DEF Return

(* When everything of the page up to its object p is settled, so is every   *)
(* change up to p.                                                          *)
LEMMA PageCovers ==
    ASSUME TypeOK, FederationInv, Good, NEW p \in InPage,
           \A o \in InPage : page[o] <= page[p] => <<o, page[o]>> \in settled
    PROVE  CoveredTo(page[p]) /\ Seen(page[p])
<1>1. ASSUME NEW o \in Objects, seq[o] # 0, seq[o] <= page[p]
      PROVE  <<o, seq[o]>> \in settled
  <2>1. CASE seq[o] <= pos
    BY <1>1, <2>1 DEF FederationInv, CoveredTo
  <2>2. CASE pos < seq[o]
    BY <1>1, <2>2 DEF FederationInv, PageIsPrefix, InPage
  <2> QED BY <2>1, <2>2 DEF TypeOK
<1> QED BY <1>1 DEF CoveredTo, FederationInv, AllSeen, InPage

(* ObjectFails gives an object up or ends the sync.                         *)
LEMMA ObjectFailsStep ==
    ASSUME TypeOK, FederationInv, NEW o \in InPage, ObjectFails(o),
           UNCHANGED <<entry, seq, stamped, counter, backup, mark>>
    PROVE  FederationInv'
<1>1. CASE Return /\ UNCHANGED <<skip, settled>>
  BY <1>1, ReturnStep
<1>2. CASE /\ skip' = [skip EXCEPT ![o] = page[o]]
           /\ settled' = settled \cup {<<o, page[o]>>}
           /\ todo' = {p \in InPage : skip'[p] # page[p]}
           /\ pc' = "push" /\ body' = {} /\ tries' = 0
           /\ UNCHANGED <<pos, page>>
  <2>1. ASSUME Good PROVE SkipIsSettled'
    BY <1>2, <2>1 DEF FederationInv, SkipIsSettled, InPage, TypeOK
  <2>2. ASSUME Good PROVE PageProgress'
    <3>1. \A p \in InPage' \ todo' : <<p, page'[p]>> \in settled'
      BY <1>2, <2>1, <2>2 DEF SkipIsSettled, InPage, TypeOK
    <3> QED BY <1>2, <3>1 DEF PageProgress, InPage
  <2>3. ASSUME Good PROVE Seen(mark') /\ CoveredTo(mark)'
    BY <1>2, <2>3 DEF FederationInv, AllSeen, Seen, CoveredTo
  <2> QED BY <1>2, <2>1, <2>2, <2>3, InPageStep
<1> QED BY <1>1, <1>2 DEF ObjectFails

(* Accept adds to the history the objects of A at their place in the page.  *)
LEMMA AcceptSettles ==
    ASSUME NEW A, Accept(A)
    PROVE  settled \subseteq settled' /\ \A o \in A : <<o, page[o]>> \in settled'
BY DEF Accept

(* A post that is not answered keeps the watermark.                         *)
LEMMA RetryStep ==
    ASSUME TypeOK, FederationInv, NEW A, Accept(A), Retry, pc = "send",
           UNCHANGED <<entry, seq, stamped, counter, backup, mark, skip>>
    PROVE  FederationInv'
<1>1. CASE Return
  BY <1>1, ReturnStep, AcceptSettles
<1>2. CASE tries' = tries + 1 /\ UNCHANGED <<pc, pos, page, todo, body>>
  <2>1. ASSUME Good PROVE PageProgress' /\ SkipIsSettled'
    BY <1>2, <2>1, AcceptSettles DEF FederationInv, PageProgress, InPage, SkipIsSettled
  <2>2. ASSUME Good PROVE Seen(mark') /\ CoveredTo(mark)'
    BY <1>2, <2>2, AcceptSettles DEF FederationInv, AllSeen, Seen, CoveredTo
  <2> QED BY <1>2, <2>1, <2>2, InPageStep, AcceptSettles
<1> QED BY <1>1, <1>2 DEF Retry

(* Every step keeps the invariant.                                          *)
LEMMA FederationInvStep ==
    ASSUME TypeOK, FederationInv, [Next]_vars
    PROVE  FederationInv'
<1> USE DEF srcVars, pageVars, memory, bounds
<1>1. ASSUME NEW o \in Objects,
             Stamp(o) \/ Commit(o) \/ Rollback(o) \/ DeleteObject(o)
      PROVE  FederationInv'
  BY <1>1, SourceStep
<1>2. ASSUME NEW o \in Objects, BlobBack(o) \/ BlobLost(o) \/ TargetEdit(o)
      PROVE  FederationInv'
  <2>1. UNCHANGED <<entry, seq, stamped, counter, mark, memory, settled, backup>>
    BY <1>2 DEF BlobBack, BlobLost, TargetEdit
  <2> QED
    BY <2>1 DEF FederationInv, StampIsLast, Good, AllSeen, Seen, PageIsPrefix, PageProgress,
                InPage, SkipIsSettled, BackupCovers, CoveredTo
<1>3. CASE Tick
  <2>1. ASSUME Good
        PROVE  /\ Seen(mark') /\ Seen(pos') /\ CoveredTo(mark)' /\ CoveredTo(pos)'
               /\ SkipIsSettled' /\ page' = Nowhere /\ todo' = {} /\ body' = {}
    BY <1>3, <2>1 DEF Tick, FederationInv, AllSeen, Seen, CoveredTo, SkipIsSettled, Pruned,
                      PageProgress, InPage, TypeOK
  <2>2. ASSUME ~Good PROVE FederationInv'
    BY <1>3, <2>2 DEF Tick, FederationInv, StampIsLast, Good
  <2> QED BY <1>3, <2>1, <2>2, NoPageStep DEF Tick
<1>4. CASE List
  <2>1. CASE Return
    BY <1>4, <2>1, ReturnStep DEF List
  <2>2. CASE ~Return
    <3>1. PICK P \in SUBSET Objects :
            /\ IsPage(P)
            /\ page' = [o \in Objects |-> IF o \in P THEN seq[o] ELSE 0]
            /\ todo' = {o \in P : skip[o] # seq[o]}
            /\ pc' = "push" /\ UNCHANGED <<pos, body, tries>>
      BY <1>4, <2>2 DEF List
    <3>2. \A o \in P : seq[o] > pos
      BY <3>1 DEF IsPage
    <3>3. StampIsLast'
      BY <1>4 DEF List, FederationInv, StampIsLast
    <3>4. ASSUME Good'
          PROVE  AllSeen' /\ PageIsPrefix' /\ PageProgress'
      <4>1. Good
        BY <1>4, <3>4 DEF List, Good
      <4>2. AllSeen'
        BY <1>4, <3>1, <4>1 DEF List, FederationInv, AllSeen, Seen, TypeOK
      <4>3. PageIsPrefix'
        <5>1. ASSUME NEW o \in Objects, NEW p \in P, seq[o] # 0, pos < seq[o], seq[o] <= seq[p]
              PROVE  o \in P
          BY <3>1, <5>1 DEF IsPage, TypeOK
        <5> QED BY <1>4, <3>1, <5>1 DEF List, PageIsPrefix
      <4>4. PageProgress'
        <5>1. body = {}
          BY <1>4, <4>1 DEF List, FederationInv, PageProgress, InPage
        <5> QED
          BY <1>4, <3>1, <3>2, <4>1, <5>1
             DEF List, FederationInv, PageProgress, InPage, SkipIsSettled, TypeOK
      <4> QED BY <4>2, <4>3, <4>4
    <3>5. ASSUME Good'
          PROVE  SkipIsSettled' /\ BackupCovers' /\ CoveredTo(mark)' /\ CoveredTo(pos)'
      BY <1>4, <3>1, <3>5
         DEF List, Good, FederationInv, SkipIsSettled, BackupCovers, CoveredTo
    <3> QED BY <3>3, <3>4, <3>5 DEF FederationInv
  <2> QED BY <2>1, <2>2
<1>5. CASE PageDone
  <2>1. PICK o \in Objects :
          /\ IsLast(o, InPage)
          /\ mark' = IF skip[o] = page[o] THEN page[o] ELSE mark
          /\ \/ Return
             \/ pc' = "list" /\ pos' = page[o] /\ page' = Nowhere /\ UNCHANGED <<todo, body, tries>>
          /\ skip' = Pruned(page[o])
    BY <1>5 DEF PageDone
  <2>2. UNCHANGED <<entry, seq, stamped, counter, backup, settled>> /\ todo = {}
    BY <1>5 DEF PageDone
  <2>3. ASSUME Good
        PROVE  /\ Seen(page[o]) /\ CoveredTo(page[o]) /\ SkipIsSettled'
               /\ Seen(0) /\ CoveredTo(0) /\ Seen(mark) /\ CoveredTo(mark) /\ body = {}
    <3>1. Seen(page[o]) /\ CoveredTo(page[o])
      BY <2>1, <2>2, <2>3, PageCovers DEF IsLast, FederationInv, PageProgress
    <3>2. SkipIsSettled'
      BY <2>1, <2>2, <2>3 DEF FederationInv, SkipIsSettled, Pruned, TypeOK
    <3>3. Seen(0) /\ CoveredTo(0) /\ Seen(mark) /\ CoveredTo(mark)
      BY <2>3 DEF FederationInv, AllSeen, Seen, CoveredTo, TypeOK
    <3>4. body = {}
      BY <1>5, <2>3 DEF PageDone, FederationInv, PageProgress
    <3> QED BY <3>1, <3>2, <3>3, <3>4
  <2>4. ASSUME ~Good PROVE FederationInv'
    BY <2>2, <2>4 DEF FederationInv, StampIsLast, Good
  <2>5. ASSUME Good
        PROVE  /\ Seen(mark') /\ Seen(pos') /\ CoveredTo(mark)' /\ CoveredTo(pos)'
               /\ page' = Nowhere /\ todo' = {} /\ body' = {} /\ pc' \in {"idle", "list"}
    BY <2>1, <2>2, <2>3, <2>5 DEF Return, CoveredTo
  <2> QED BY <2>2, <2>3, <2>4, <2>5, NoPageStep
<1>6. CASE AdvanceFails \/ CallFails
  BY <1>6, ReturnStep DEF AdvanceFails, CallFails
<1>7. CASE SetWatermark
  <2>1. PICK o \in Objects : IsLast(o, body) /\ mark' = page[o]
    BY <1>7 DEF SetWatermark
  <2>2. UNCHANGED <<entry, seq, stamped, counter, backup, pos, page, skip, settled>>
    BY <1>7 DEF SetWatermark
  <2>3. ASSUME Good
        PROVE  Seen(page[o]) /\ CoveredTo(page[o])
    <3>1. o \in InPage
      BY <2>1, <2>3 DEF IsLast, FederationInv, PageProgress
    <3>2. ASSUME NEW p \in InPage, page[p] <= page[o]
          PROVE  <<p, page[p]>> \in settled
      BY <1>7, <2>1, <2>3, <3>2
         DEF SetWatermark, IsLast, FederationInv, PageProgress, InPage, TypeOK
    <3> QED BY <2>3, <3>1, <3>2, PageCovers
  <2>4. ASSUME Good
        PROVE  PageProgress' /\ SkipIsSettled'
    BY <1>7, <2>4 DEF SetWatermark, FederationInv, PageProgress, InPage, SkipIsSettled
  <2> QED BY <2>1, <2>2, <2>3, <2>4, InPageStep DEF CoveredTo
<1>8. CASE Request
  <2>1. UNCHANGED <<entry, seq, stamped, counter, backup, pos, page, mark, skip, settled>>
    BY <1>8 DEF Request
  <2>2. ASSUME Good
        PROVE  Seen(mark') /\ CoveredTo(mark)' /\ PageProgress' /\ SkipIsSettled'
    <3>1. PageProgress'
      BY <1>8, <2>2 DEF Request, Encodes, FederationInv, PageProgress, InPage
    <3> QED
      BY <2>1, <2>2, <3>1 DEF FederationInv, AllSeen, Seen, CoveredTo, SkipIsSettled
  <2> QED BY <2>1, <2>2, InPageStep
<1>9. CASE Accepted
  <2>1. /\ UNCHANGED <<entry, seq, stamped, counter, backup, pos, page, todo, body, mark, skip>>
        /\ pc = "send" /\ pc' = "ack" /\ Accept(body)
    BY <1>9 DEF Accepted
  <2>2. ASSUME Good
        PROVE  PageProgress'
    BY <2>1, <2>2, AcceptSettles DEF FederationInv, PageProgress, InPage
  <2>3. ASSUME Good
        PROVE  Seen(mark') /\ CoveredTo(mark)' /\ SkipIsSettled'
    BY <2>1, <2>3, AcceptSettles DEF FederationInv, AllSeen, Seen, CoveredTo, SkipIsSettled
  <2> QED BY <2>1, <2>2, <2>3, AcceptSettles, InPageStep
<1>10. CASE PostFails \/ PostRefused
  BY <1>10, RetryStep DEF PostFails, PostRefused
<1>11. ASSUME NEW o \in Objects, EncodeFails(o) \/ PostTooLarge(o) \/ CopyBlobsFails(o)
       PROVE  FederationInv'
  <2>1. CASE Good
    <3>1. o \in InPage
      BY <1>11, <2>1 DEF EncodeFails, PostTooLarge, CopyBlobsFails, IsFirst, FederationInv,
                         PageProgress
    <3> QED
      BY <1>11, <3>1, ObjectFailsStep DEF EncodeFails, PostTooLarge, CopyBlobsFails
  <2>2. CASE ~Good
    BY <1>11, <2>2 DEF EncodeFails, PostTooLarge, CopyBlobsFails, FederationInv, StampIsLast, Good
  <2> QED BY <2>1, <2>2
<1>12. ASSUME NEW o \in Objects, WriteObject(o)
       PROVE  FederationInv'
  <2>1. /\ UNCHANGED <<entry, seq, stamped, counter, backup, pos, page, body, mark, skip>>
        /\ pc = "write" /\ Accept({o}) /\ todo' = todo \ {o}
        /\ pc' = IF todo' = {} THEN "ack" ELSE "write"
    BY <1>12 DEF WriteObject
  <2>2. ASSUME Good
        PROVE  PageProgress'
    BY <2>1, <2>2, AcceptSettles DEF FederationInv, PageProgress, InPage
  <2>3. ASSUME Good
        PROVE  Seen(mark') /\ CoveredTo(mark)' /\ SkipIsSettled'
    BY <2>1, <2>3, AcceptSettles DEF FederationInv, AllSeen, Seen, CoveredTo, SkipIsSettled
  <2> QED BY <2>1, <2>2, <2>3, AcceptSettles, InPageStep
<1>13. CASE OpenTarget
  <2>1. UNCHANGED <<entry, seq, stamped, counter, backup, pos, page, mark, skip, settled>>
    BY <1>13 DEF OpenTarget
  <2>2. ASSUME Good
        PROVE  Seen(mark') /\ CoveredTo(mark)' /\ PageProgress' /\ SkipIsSettled'
    BY <1>13, <2>1, <2>2 DEF OpenTarget, FederationInv, PageProgress, InPage, AllSeen, Seen,
                             CoveredTo, SkipIsSettled
  <2> QED BY <2>1, <2>2, InPageStep
<1>14. CASE Crash
  BY <1>14, ReturnStep DEF Crash, Forget, SkipIsSettled
<1>15. CASE Backup
  <2>1. UNCHANGED <<entry, seq, stamped, counter, mark, memory, settled>>
    BY <1>15 DEF Backup
  <2>2. ASSUME Good PROVE BackupCovers'
    BY <1>15, <2>1, <2>2 DEF Backup, FederationInv, AllSeen, Seen, CoveredTo, BackupCovers, TypeOK
  <2> QED
    BY <2>1, <2>2 DEF FederationInv, StampIsLast, Good, AllSeen, Seen, PageIsPrefix,
                      PageProgress, InPage, SkipIsSettled, CoveredTo
<1>16. CASE Restore
  <2>1. StampIsLast'
    BY <1>16 DEF Restore, StampIsLast
  <2>2. ASSUME Good'
        PROVE  /\ AllSeen' /\ PageIsPrefix' /\ PageProgress' /\ SkipIsSettled'
               /\ BackupCovers' /\ CoveredTo(mark)' /\ CoveredTo(pos)'
    <3>1. Good /\ entry.remote
      BY <1>16, <2>2 DEF Restore, Good
    <3>2. AllSeen'
      <4>1. /\ counter' = backup.counter /\ stamped' = Nowhere /\ mark' = backup.mark
            /\ seq' = backup.seq /\ pos' = 0 /\ page' = Nowhere
        BY <1>16, <3>1 DEF Restore, Forget, Return
      <4>2. /\ backup.mark <= backup.counter /\ backup.counter \in Nat
            /\ \A o \in Objects : backup.seq[o] <= backup.counter
        BY <3>1 DEF FederationInv, BackupCovers, TypeOK
      <4> QED BY <4>1, <4>2 DEF AllSeen, Seen
    <3>3. PageIsPrefix' /\ PageProgress' /\ SkipIsSettled'
      BY <1>16 DEF Restore, Forget, Return, PageIsPrefix, PageProgress, InPage, SkipIsSettled
    <3>4. BackupCovers'
      BY <1>16, <3>1 DEF Restore, FederationInv, BackupCovers
    <3>5. CoveredTo(mark)'
      BY <1>16, <3>1 DEF Restore, FederationInv, BackupCovers, CoveredTo
    <3>6. CoveredTo(pos)'
      BY <1>16 DEF Restore, Forget, Return, CoveredTo, TypeOK
    <3> QED BY <3>2, <3>3, <3>4, <3>5, <3>6
  <2> QED BY <2>1, <2>2 DEF FederationInv
<1>17. CASE UNCHANGED vars
  BY <1>17 DEF vars, FederationInv, StampIsLast, Good, AllSeen, Seen, PageIsPrefix,
               PageProgress, InPage, SkipIsSettled, BackupCovers, CoveredTo
<1> QED
  BY <1>1, <1>2, <1>3, <1>4, <1>5, <1>6, <1>7, <1>8, <1>9, <1>10, <1>11, <1>12, <1>13, <1>14,
     <1>15, <1>16, <1>17, Cases

LEMMA FederationInit == Init => TypeOK /\ FederationInv
BY DEF Init, TypeOK, FederationInv, StampIsLast, Good, AllSeen, Seen, PageIsPrefix, PageProgress,
       InPage, SkipIsSettled, BackupCovers, CoveredTo

(* Types and the inductive invariant hold of every reachable state.         *)
THEOREM FederationInvariant == Spec => [](TypeOK /\ FederationInv)
<1>1. TypeOK /\ FederationInv /\ [Next]_vars => (TypeOK /\ FederationInv)'
  BY TypeStep, FederationInvStep DEF FederationInv
<1> QED BY <1>1, FederationInit, PTL DEF Spec

(* Whatever the objects, the batch size and the number of failures, deaths  *)
(* and restores: no committed change is behind the watermark unless it was  *)
(* pushed or given up, for a path entry whose source is never restored and  *)
(* for every URL entry.                                                     *)
THEOREM NothingLeftBehind == Spec => []WatermarkCovers
<1>1. TypeOK /\ FederationInv => WatermarkCovers
  BY DEF FederationInv, Good, WatermarkCovers
<1> QED BY <1>1, FederationInvariant, PTL

----------------------------------------------------------------------------
(* The change feed.                                                        *)

(* No entry whose source is restored keeps its watermark somewhere else.    *)
MarksFollowTheSource == \A e \in Entries : e.restored => e.remote

(* What a reader sees of the counter, inside a transaction and outside.     *)
LEMMA VisibleIs ==
    ASSUME TypeOK, StampIsLast
    PROVE  /\ Visible \in Nat
           /\ \A o \in Objects : stamped[o] # 0 => Visible = counter - 1 /\ stamped[o] = Visible + 1
           /\ (\A o \in Objects : stamped[o] = 0) => Visible = counter
           /\ \A n \in Nat : Seen(n) => n <= Visible
<1>1. CASE \A o \in Objects : stamped[o] = 0
  BY <1>1 DEF Visible, TypeOK, Seen
<1>2. ASSUME NEW o \in Objects, stamped[o] # 0
      PROVE  /\ Visible = counter - 1 /\ stamped[o] = counter /\ counter - 1 \in Nat
             /\ \A n \in Nat : Seen(n) => n <= counter - 1
  BY <1>2 DEF Visible, TypeOK, StampIsLast, Seen
<1> QED
  BY <1>1, <1>2 DEF TypeOK

(* A writer's step: a commit is the next change, a delete takes one away,   *)
(* and nothing else of a transaction shows.                                 *)
LEMMA SourceFeed ==
    ASSUME TypeOK, TypeOK', FederationInv, FederationInv', NEW o \in Objects,
           Stamp(o) \/ Commit(o) \/ Rollback(o) \/ DeleteObject(o)
    PROVE  [Feed!Next]_Feed!vars
<1>1. StampIsLast /\ StampIsLast'
  BY DEF FederationInv
<1>2. UNCHANGED <<settled, mark, backup>>
  BY DEF Stamp, Commit, Rollback, DeleteObject
<1>3. CASE Stamp(o)
  <2>1. Visible = counter /\ stamped'[o] # 0 /\ counter' = counter + 1 /\ UNCHANGED seq
    BY <1>1, <1>3, VisibleIs DEF Stamp, TypeOK
  <2>2. Visible' = counter' - 1
    BY <2>1 DEF Visible
  <2> QED
    BY <1>2, <2>1, <2>2 DEF Feed!vars, TypeOK
<1>4. CASE Commit(o)
  <2>1. \A p \in Objects : stamped'[p] = 0
    BY <1>1, <1>4 DEF Commit, StampIsLast, TypeOK
  <2>2. Visible' = counter' /\ counter' = counter
    BY <1>4, <2>1 DEF Commit, Visible
  <2>3. Visible' = Visible + 1 /\ stamped[o] = Visible'
    BY <1>1, <1>4, <2>2, VisibleIs DEF Commit, TypeOK, StampIsLast
  <2>4. Feed!Change(o)
    BY <1>2, <1>4, <2>3 DEF Commit, Feed!Change
  <2> QED
    BY <2>4 DEF Feed!Next
<1>5. CASE Rollback(o)
  <2>1. \A p \in Objects : stamped'[p] = 0
    BY <1>1, <1>5 DEF Rollback, StampIsLast, TypeOK
  <2>2. Visible' = counter' /\ counter' = counter - 1 /\ Visible = counter - 1 /\ UNCHANGED seq
    BY <1>5, <2>1 DEF Rollback, Visible
  <2> QED
    BY <1>2, <2>2 DEF Feed!vars
<1>6. CASE DeleteObject(o)
  <2>1. Visible' = Visible
    BY <1>6 DEF DeleteObject, Visible
  <2>2. Feed!Delete(o)
    BY <1>2, <1>6, <2>1 DEF DeleteObject, Feed!Delete
  <2> QED
    BY <2>2 DEF Feed!Next
<1> QED
  BY <1>3, <1>4, <1>5, <1>6

(* A step that changes none of what the target is promised.                 *)
LEMMA FeedStutters ==
    ASSUME UNCHANGED <<seq, stamped, counter, settled, mark, backup>>
    PROVE  [Feed!Next]_Feed!vars
BY DEF Feed!vars, Visible

(* A step that settles changes of the page.                                 *)
LEMMA DeliverFeed ==
    ASSUME TypeOK, FederationInv, Good,
           UNCHANGED <<seq, stamped, counter, mark, backup>>,
           NEW A \in SUBSET InPage, settled' = settled \cup {<<o, page[o]>> : o \in A}
    PROVE  [Feed!Next]_Feed!vars
<1>1. ASSUME NEW o \in A PROVE page[o] \in 1 .. Visible
  <2>1. page[o] \in Nat \ {0} /\ Seen(page[o])
    BY <1>1 DEF FederationInv, AllSeen, InPage, TypeOK
  <2> QED
    BY <2>1, VisibleIs DEF FederationInv
<1>2. Visible' = Visible
  BY DEF Visible
<1>3. Feed!Deliver
  BY <1>1, <1>2 DEF Feed!Deliver, InPage
<1> QED
  BY <1>3 DEF Feed!Next

(* A step that moves the watermark: where it leaves it, the invariant says. *)
LEMMA AdvanceFeed ==
    ASSUME TypeOK, TypeOK', FederationInv, FederationInv', Good',
           UNCHANGED <<seq, stamped, counter, settled, backup>>
    PROVE  [Feed!Next]_Feed!vars
<1>1. Seen(mark)' /\ CoveredTo(mark)'
  BY DEF FederationInv, AllSeen
<1>2. mark' \in 0 .. Visible /\ Visible' = Visible
  <2>1. Visible' = Visible
    BY DEF Visible
  <2>2. mark' \in Nat /\ Seen(mark')
    BY <1>1 DEF Seen, TypeOK
  <2> QED
    BY <2>1, <2>2, VisibleIs DEF FederationInv
<1>3. Feed!Advance
  BY <1>1, <1>2 DEF Feed!Advance, CoveredTo, TypeOK
<1> QED
  BY <1>3 DEF Feed!Next

(* ObjectFails settles nothing, or the object it gives up.                  *)
LEMMA ObjectFailsFeed ==
    ASSUME TypeOK, FederationInv, Good, NEW o \in InPage, ObjectFails(o),
           UNCHANGED <<seq, stamped, counter, mark, backup>>
    PROVE  [Feed!Next]_Feed!vars
<1>1. CASE UNCHANGED settled
  BY <1>1, FeedStutters
<1>2. CASE settled' = settled \cup {<<o, page[o]>>}
  <2>1. settled' = settled \cup {<<p, page[p]>> : p \in {o}}
    BY <1>2
  <2> QED
    BY <2>1, DeliverFeed
<1> QED
  BY <1>1, <1>2 DEF ObjectFails

(* Source and worker implement ChangeFeed, whatever the objects and the     *)
(* bounds, when a restore takes every watermark back with the source.       *)
THEOREM ChangeFeedImplemented ==
    ASSUME MarksFollowTheSource
    PROVE  Spec => ImplementsChangeFeed
<1> USE DEF srcVars, pageVars, memory, bounds
<1>1. Init => Feed!Init
  BY DEF Init, Feed!Init, Visible
<1>2. TypeOK /\ FederationInv /\ TypeOK' /\ FederationInv' /\ [Next]_vars => [Feed!Next]_Feed!vars
  <2> SUFFICES ASSUME TypeOK, FederationInv, TypeOK', FederationInv', [Next]_vars
               PROVE  [Feed!Next]_Feed!vars
    OBVIOUS
  <2>1. Good /\ Good'
    BY DEF Good, TypeOK, MarksFollowTheSource
  <2>2. ASSUME NEW o \in Objects, Stamp(o) \/ Commit(o) \/ Rollback(o) \/ DeleteObject(o)
        PROVE  [Feed!Next]_Feed!vars
    BY <2>2, SourceFeed
  <2>3. ASSUME NEW o \in Objects, BlobBack(o) \/ BlobLost(o) \/ TargetEdit(o)
        PROVE  [Feed!Next]_Feed!vars
    BY <2>3, FeedStutters DEF BlobBack, BlobLost, TargetEdit
  <2>4. CASE Tick \/ List \/ AdvanceFails \/ CallFails \/ Request \/ OpenTarget \/ Crash
    BY <2>4, FeedStutters DEF Tick, List, AdvanceFails, CallFails, Request, OpenTarget, Crash
  <2>5. CASE PageDone \/ SetWatermark
    <3>1. UNCHANGED <<seq, stamped, counter, settled, backup>>
      BY <2>5 DEF PageDone, SetWatermark
    <3> QED
      BY <2>1, <3>1, AdvanceFeed
  <2>6. CASE Accepted \/ PostFails \/ PostRefused
    <3>1. body \subseteq InPage
      BY <2>1 DEF FederationInv, PageProgress
    <3>2. PICK A \in SUBSET body : Accept(A)
      BY <2>6 DEF Accepted, PostFails, PostRefused, Before
    <3>3. UNCHANGED <<seq, stamped, counter, mark, backup>>
      BY <2>6 DEF Accepted, PostFails, PostRefused
    <3> QED
      BY <2>1, <3>1, <3>2, <3>3, DeliverFeed DEF Accept
  <2>7. ASSUME NEW o \in Objects, EncodeFails(o) \/ PostTooLarge(o) \/ CopyBlobsFails(o)
        PROVE  [Feed!Next]_Feed!vars
    <3>1. o \in InPage /\ ObjectFails(o)
      BY <2>1, <2>7 DEF EncodeFails, PostTooLarge, CopyBlobsFails, IsFirst, FederationInv,
                        PageProgress
    <3>2. UNCHANGED <<seq, stamped, counter, mark, backup>>
      BY <2>7 DEF EncodeFails, PostTooLarge, CopyBlobsFails
    <3> QED
      BY <2>1, <3>1, <3>2, ObjectFailsFeed
  <2>8. ASSUME NEW o \in Objects, WriteObject(o)
        PROVE  [Feed!Next]_Feed!vars
    <3>1. {o} \in SUBSET InPage /\ settled' = settled \cup {<<p, page[p]>> : p \in {o}}
      BY <2>1, <2>8 DEF WriteObject, IsFirst, FederationInv, PageProgress, Accept
    <3>2. UNCHANGED <<seq, stamped, counter, mark, backup>>
      BY <2>8 DEF WriteObject
    <3> QED
      BY <2>1, <3>1, <3>2, DeliverFeed
  <2>9. CASE Backup
    <3>1. Visible = counter /\ UNCHANGED <<seq, stamped, counter, settled, mark>>
      BY <2>9, VisibleIs DEF Backup, FederationInv
    <3>2. Feed!Save
      BY <2>9, <3>1 DEF Backup, Feed!Save, Visible
    <3> QED
      BY <3>2 DEF Feed!Next
  <2>10. CASE Restore
    <3>1. Visible' = backup.counter
      BY <2>10 DEF Restore, Visible
    <3>2. entry.remote
      BY <2>1, <2>10 DEF Restore, Good
    <3>3. Feed!Restore
      BY <2>10, <3>1, <3>2 DEF Restore, Feed!Restore
    <3> QED
      BY <3>3 DEF Feed!Next
  <2>11. CASE UNCHANGED vars
    BY <2>11, FeedStutters DEF vars
  <2> QED
    BY <2>2, <2>3, <2>4, <2>5, <2>6, <2>7, <2>8, <2>9, <2>10, <2>11, Cases
<1> QED
  BY <1>1, <1>2, FederationInvariant, PTL DEF Spec, ImplementsChangeFeed, Feed!Spec

(* What ChangeFeed needs of itself to promise that nothing is left behind.  *)
FeedInv ==
    /\ seq \in [Objects -> Nat] /\ Visible \in Nat /\ mark \in 0 .. Visible
    /\ \A o \in Objects : seq[o] <= Visible
    /\ backup.seq \in [Objects -> Nat] /\ backup.counter \in Nat
    /\ backup.mark \in 0 .. backup.counter
    /\ \A o \in Objects : backup.seq[o] <= backup.counter
    /\ CoveredTo(mark)
    /\ \A o \in Objects :
        backup.seq[o] # 0 /\ backup.seq[o] <= backup.mark => <<o, backup.seq[o]>> \in settled

(* ChangeFeed promises coverage by itself: whatever implements it leaves no *)
(* change behind the watermark, restores included.                          *)
THEOREM ChangeFeedCovers == ImplementsChangeFeed => []NoChangeBehindWatermark
<1> DEFINE saved == [latest |-> backup.seq, head |-> backup.counter, mark |-> backup.mark]
<1>1. Feed!Init => FeedInv
  <2> SUFFICES ASSUME Feed!Init PROVE FeedInv
    OBVIOUS
  <2>1. seq = [o \in Objects |-> 0] /\ Visible = 0 /\ mark = 0
    BY DEF Feed!Init
  <2>2. backup.seq = seq /\ backup.counter = 0 /\ backup.mark = 0
    <3>1. saved = [latest |-> seq, head |-> Visible, mark |-> mark]
      BY DEF Feed!Init
    <3>2. saved.latest = seq /\ saved.head = Visible /\ saved.mark = mark
      BY <3>1
    <3> QED
      BY <2>1, <3>2
  <2> QED
    BY <2>1, <2>2 DEF FeedInv, CoveredTo
<1>2. FeedInv /\ [Feed!Next]_Feed!vars => FeedInv'
  <2> SUFFICES ASSUME FeedInv, [Feed!Next]_Feed!vars PROVE FeedInv'
    OBVIOUS
  <2>1. ASSUME saved' = saved
        PROVE  backup'.seq = backup.seq /\ backup'.counter = backup.counter
               /\ backup'.mark = backup.mark
    <3>1. saved'.latest = saved.latest /\ saved'.head = saved.head /\ saved'.mark = saved.mark
      BY <2>1
    <3> QED
      BY <3>1
  <2>2. ASSUME NEW o \in Objects, Feed!Change(o) \/ Feed!Delete(o)
        PROVE  FeedInv'
    BY <2>1, <2>2 DEF Feed!Change, Feed!Delete, FeedInv, CoveredTo
  <2>3. CASE Feed!Deliver
    BY <2>1, <2>3 DEF Feed!Deliver, FeedInv, CoveredTo
  <2>4. CASE Feed!Advance
    BY <2>1, <2>4 DEF Feed!Advance, FeedInv, CoveredTo
  <2>5. CASE Feed!Save
    <3>1. saved' = [latest |-> seq, head |-> Visible, mark |-> mark]
      BY <2>5 DEF Feed!Save
    <3>2. saved'.latest = seq /\ saved'.head = Visible /\ saved'.mark = mark
      BY <3>1
    <3>3. backup'.seq = seq /\ backup'.counter = Visible /\ backup'.mark = mark
      BY <3>2
    <3> QED
      BY <2>5, <3>3 DEF Feed!Save, FeedInv, CoveredTo
  <2>6. CASE Feed!Restore
    <3>1. /\ seq' = backup.seq /\ Visible' = backup.counter /\ mark' = backup.mark
          /\ settled' = {c \in settled : c[2] <= backup.counter}
          /\ saved' = saved
      BY <2>6 DEF Feed!Restore
    <3> QED
      BY <2>1, <3>1 DEF FeedInv, CoveredTo
  <2>7. CASE UNCHANGED Feed!vars
    BY <2>1, <2>7 DEF Feed!vars, FeedInv, CoveredTo
  <2> QED
    BY <2>2, <2>3, <2>4, <2>5, <2>6, <2>7 DEF Feed!Next
<1>3. FeedInv => NoChangeBehindWatermark
  BY DEF FeedInv, NoChangeBehindWatermark
<1> QED
  BY <1>1, <1>2, <1>3, PTL DEF ImplementsChangeFeed, Feed!Spec
=============================================================================
