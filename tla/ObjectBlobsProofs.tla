------------------------- MODULE ObjectBlobsProofs -------------------------
(***************************************************************************)
(* Proofs about ObjectBlobs: its types, and that with an atomic blob store *)
(* a row whose blob was once ensured keeps it, with its whole content, for *)
(* any number of objects, keys, processes and faults.                      *)
(***************************************************************************)
EXTENDS ObjectBlobs, TLAPS

(* The types and what each process knows, inductive for both stores.        *)
Types == TypeOK /\ Knows

USE DEF IngestPCs, WritePCs, FreePCs, WindowPCs, PCs, PutPCs, KeyPCs, ObjectPCs

(* What a process must have for its next call at l.                         *)
Ready(p, l) ==
    /\ l \in PCs
    /\ l \in KeyPCs => key[p] \in BlobKeys
    /\ l \in ObjectPCs => obj[p] \in Objects
    /\ l \in {"uget", "uwrite"} /\ op[p] = "replace" => key[p] \in BlobKeys

(* Going on to the next call keeps the types of a process's registers.      *)
LEMMA GotoTypes ==
    ASSUME NEW p \in Procs, NEW l, ProcTypeOK, Knows, Ready(p, l), Goto(p, l)
    PROVE  ProcTypeOK' /\ Knows'
<1>1. ProcTypeOK'
  BY DEF ProcTypeOK, Goto, Ready, regVars
<1>2. Knows'
  BY DEF ProcTypeOK, Knows, Goto, Ready, regVars
<1> QED
  BY <1>1, <1>2

(* Ending the operation empties them.                                       *)
LEMMA DoneTypes ==
    ASSUME NEW p \in Procs, ProcTypeOK, Knows, Done(p)
    PROVE  ProcTypeOK' /\ Knows'
<1>1. ProcTypeOK'
  BY DEF ProcTypeOK, Done
<1>2. Knows'
  BY DEF ProcTypeOK, Knows, Done
<1> QED
  BY <1>1, <1>2

(* Going on to the next key to free, or ending when there is none.          *)
LEMMA FreeNextTypes ==
    ASSUME NEW p \in Procs, NEW ks \in SUBSET BlobKeys, ProcTypeOK, Knows, FreeNext(p, ks)
    PROVE  ProcTypeOK' /\ Knows'
<1>1. CASE ks = {}
  BY <1>1, DoneTypes DEF FreeNext
<1>2. CASE ks # {}
  <2>1. ProcTypeOK'
    BY <1>2 DEF ProcTypeOK, FreeNext, regVars
  <2>2. Knows'
    BY <1>2 DEF ProcTypeOK, Knows, FreeNext, regVars
  <2> QED
    BY <2>1, <2>2
<1> QED
  BY <1>1, <1>2

(* Skip frees the next of the keys the process still has.                   *)
LEMMA SkipTypes ==
    ASSUME NEW p \in Procs, ProcTypeOK, Knows, Skip(p)
    PROVE  ProcTypeOK' /\ Knows'
<1>1. todo[p] \ {key[p]} \in SUBSET BlobKeys
  BY DEF ProcTypeOK
<1> QED
  BY <1>1, FreeNextTypes DEF Skip

(* A Put of content leaves the blob store's types.                          *)
LEMMA PutTypes ==
    ASSUME NEW p \in Procs, NEW c \in {"partial", "whole", "none"}, BlobTypeOK, Put(p, c)
    PROVE  BlobTypeOK'
  BY StoreAssumption DEF BlobTypeOK, Put

(* Ensure returns to a call the process is ready for.                       *)
LEMMA EnsureReturnsTypes ==
    ASSUME NEW p \in Procs, Types, pc[p] \in {"ensure", "eput"}, EnsureReturns(p)
    PROVE  RowTypeOK' /\ ProcTypeOK' /\ Knows'
<1>1. RowTypeOK'
  BY DEF Types, TypeOK, RowTypeOK, ProcTypeOK, EnsureReturns
<1>2. Ready(p, "edges") /\ todo[p] \in SUBSET BlobKeys
  BY DEF Types, TypeOK, ProcTypeOK, Knows, Ready
<1>3. ProcTypeOK' /\ Knows'
  BY <1>2, GotoTypes, FreeNextTypes DEF Types, TypeOK, EnsureReturns
<1> QED
  BY <1>1, <1>3

(* Every step of a process, a failure or the clock keeps the types: in      *)
(* particular remove only reads, deletes and puts back a key it has.       *)
LEMMA TypesStep == Types /\ [Next]_vars => Types'
<1> SUFFICES ASSUME Types, [Next]_vars PROVE Types'
  OBVIOUS
<1> USE NoneAssumption, StoreAssumption, FaultsAssumption DEF Types
<1>1. ASSUME NEW p \in Procs, Start(p) PROVE Types'
  <2>1. ASSUME NEW o \in Objects, NEW k \in BlobKeys, Ingest(p, o, k) PROVE Types'
    BY <2>1 DEF Ingest, Begin, TypeOK, RowTypeOK, BlobTypeOK, ProcTypeOK, Knows, rowVars, blobVars
  <2>2. ASSUME NEW o \in Objects, NEW k \in BlobKeys, Replace(p, o, k) PROVE Types'
    BY <2>2 DEF Replace, Begin, TypeOK, RowTypeOK, BlobTypeOK, ProcTypeOK, Knows, rowVars, blobVars
  <2>3. ASSUME NEW o \in Objects, Patch(p, o) PROVE Types'
    BY <2>3 DEF Patch, Begin, TypeOK, RowTypeOK, BlobTypeOK, ProcTypeOK, Knows, rowVars, blobVars
  <2>4. ASSUME NEW o \in Objects, Delete(p, o) PROVE Types'
    BY <2>4 DEF Delete, Begin, KeysOf, TypeOK, RowTypeOK, BlobTypeOK, ProcTypeOK, Knows, rowVars, blobVars
  <2>5. CASE Sweep(p)
    BY <2>5 DEF Sweep, Begin, TypeOK, RowTypeOK, BlobTypeOK, ProcTypeOK, Knows, rowVars, blobVars
  <2> QED
    BY <1>1, <2>1, <2>2, <2>3, <2>4, <2>5 DEF Start
<1>2. ASSUME NEW p \in Procs, Step(p) PROVE Types'
  <2>1. CASE PutTruncate(p)
    BY <2>1 DEF PutTruncate, TypeOK, RowTypeOK, BlobTypeOK, ProcTypeOK, Knows, rowVars
  <2>2. CASE Externalize(p)
    <3>1. RowTypeOK' /\ faults' \in 0 .. MaxFaults
      BY <2>2 DEF TypeOK, RowTypeOK, Externalize, rowVars
    <3>2. BlobTypeOK'
      BY <2>2, PutTypes DEF TypeOK, Externalize
    <3>a. Ready(p, "lookup") /\ Ready(p, "uget")
      BY <2>2 DEF TypeOK, ProcTypeOK, Knows, Ready, Externalize
    <3>3. ProcTypeOK' /\ Knows'
      BY <2>2, <3>a, GotoTypes DEF TypeOK, Externalize
    <3> QED
      BY <3>1, <3>2, <3>3 DEF TypeOK
  <2>3. CASE Lookup(p)
    <3>1. RowTypeOK' /\ faults' \in 0 .. MaxFaults
      BY <2>3 DEF TypeOK, RowTypeOK, Lookup, rowVars, Fault
    <3>2. BlobTypeOK'
      BY <2>3 DEF TypeOK, BlobTypeOK, blobVars, Lookup
    <3>a. Ready(p, "create") /\ Ready(p, "reinforce")
      BY <2>3 DEF TypeOK, ProcTypeOK, Knows, Ready, Lookup
    <3>3. ProcTypeOK' /\ Knows'
      BY <2>3, <3>a, GotoTypes, DoneTypes DEF TypeOK, Lookup
    <3> QED
      BY <3>1, <3>2, <3>3 DEF TypeOK
  <2>4. CASE Reinforce(p)
    <3>1. RowTypeOK' /\ faults' \in 0 .. MaxFaults
      BY <2>4 DEF TypeOK, RowTypeOK, Reinforce, ProcTypeOK, Knows
    <3>2. BlobTypeOK'
      BY <2>4 DEF TypeOK, BlobTypeOK, blobVars, Reinforce
    <3>3. ProcTypeOK' /\ Knows'
      BY <2>4, DoneTypes DEF TypeOK, Reinforce
    <3> QED
      BY <3>1, <3>2, <3>3 DEF TypeOK
  <2>5. CASE Create(p)
    <3>1. RowTypeOK' /\ faults' \in 0 .. MaxFaults
      BY <2>5 DEF TypeOK, RowTypeOK, Create, rowVars, ProcTypeOK, Knows
    <3>2. BlobTypeOK'
      BY <2>5 DEF TypeOK, BlobTypeOK, blobVars, Create
    <3>a. Ready(p, "ensure") /\ Ready(p, "reinforce")
      BY <2>5 DEF TypeOK, ProcTypeOK, Knows, Ready, Create
    <3>3. ProcTypeOK' /\ Knows'
      BY <2>5, <3>a, GotoTypes DEF TypeOK, Create
    <3> QED
      BY <3>1, <3>2, <3>3 DEF TypeOK
  <2>6. CASE Ensure(p)
    <3>1. BlobTypeOK'
      BY <2>6 DEF TypeOK, BlobTypeOK, blobVars, Ensure
    <3>2. CASE data[key[p]] = "none"
      <4>1. Ready(p, "eput")
        BY <2>6 DEF TypeOK, ProcTypeOK, Knows, Ready, Ensure
      <4> QED
        BY <2>6, <3>1, <3>2, <4>1, GotoTypes DEF TypeOK, RowTypeOK, rowVars, Ensure
    <3>3. CASE data[key[p]] # "none"
      <4>1. EnsureReturns(p) /\ pc[p] = "ensure" /\ faults' = faults
        BY <2>6, <3>3 DEF Ensure, EnsureReturns
      <4> QED
        BY <3>1, <4>1, EnsureReturnsTypes DEF TypeOK
    <3> QED
      BY <3>2, <3>3
  <2>7. CASE EnsurePut(p)
    <3>1. BlobTypeOK'
      BY <2>7, PutTypes DEF TypeOK, EnsurePut
    <3>2. EnsureReturns(p) /\ pc[p] = "eput" /\ faults' = faults
      BY <2>7 DEF EnsurePut, EnsureReturns
    <3> QED
      BY <3>1, <3>2, EnsureReturnsTypes DEF TypeOK
  <2>8. CASE WriteEdges(p)
    <3>1. RowTypeOK' /\ faults' \in 0 .. MaxFaults
      BY <2>8 DEF TypeOK, RowTypeOK, WriteEdges
    <3>2. BlobTypeOK'
      BY <2>8 DEF TypeOK, BlobTypeOK, blobVars, WriteEdges
    <3>3. ProcTypeOK' /\ Knows'
      BY <2>8, DoneTypes DEF TypeOK, WriteEdges
    <3> QED
      BY <3>1, <3>2, <3>3 DEF TypeOK
  <2>9. CASE UpdateGet(p)
    <3>1. RowTypeOK' /\ faults' \in 0 .. MaxFaults
      BY <2>9 DEF TypeOK, RowTypeOK, UpdateGet, rowVars
    <3>2. BlobTypeOK'
      BY <2>9 DEF TypeOK, BlobTypeOK, blobVars, UpdateGet
    <3>3. ProcTypeOK' /\ Knows'
      <4>1. CASE row[obj[p]] = "live"
        <5>1. obj[p] \in Objects /\ KeysOf(obj[p]) \subseteq BlobKeys
          BY <2>9 DEF TypeOK, RowTypeOK, Knows, KeysOf, UpdateGet
        <5>2. ProcTypeOK'
          BY <2>9, <4>1, <5>1 DEF TypeOK, ProcTypeOK, UpdateGet, regVars
        <5>3. Knows'
          BY <2>9, <4>1, <5>1 DEF TypeOK, ProcTypeOK, Knows, UpdateGet, regVars
        <5> QED
          BY <5>2, <5>3
      <4>2. CASE row[obj[p]] # "live"
        BY <2>9, <4>2, DoneTypes DEF TypeOK, UpdateGet
      <4> QED
        BY <4>1, <4>2
    <3> QED
      BY <3>1, <3>2, <3>3 DEF TypeOK
  <2>10. CASE UpdateWrite(p)
    <3>1. RowTypeOK' /\ faults' \in 0 .. MaxFaults
      <4>1. obj[p] \in Objects /\ {key[p], mkey[p]} \subseteq BlobKeys \cup {None}
        BY <2>10 DEF TypeOK, ProcTypeOK, Knows, UpdateWrite
      <4>2. CASE row[obj[p]] = "live"
        BY <2>10, <4>1, <4>2 DEF TypeOK, RowTypeOK, UpdateWrite
      <4>3. CASE row[obj[p]] # "live"
        BY <2>10, <4>3 DEF TypeOK, RowTypeOK, UpdateWrite
      <4> QED
        BY <4>2, <4>3
    <3>2. BlobTypeOK'
      BY <2>10 DEF TypeOK, BlobTypeOK, blobVars, UpdateWrite
    <3>a. todo[p] \in SUBSET BlobKeys /\ (op[p] = "replace" => Ready(p, "ensure"))
      BY <2>10 DEF TypeOK, ProcTypeOK, Knows, Ready, UpdateWrite
    <3>3. ProcTypeOK' /\ Knows'
      BY <2>10, <3>a, GotoTypes, FreeNextTypes, DoneTypes DEF TypeOK, UpdateWrite
    <3> QED
      BY <3>1, <3>2, <3>3 DEF TypeOK
  <2>11. CASE DeleteEdges(p)
    <3>1. RowTypeOK' /\ faults' \in 0 .. MaxFaults
      BY <2>11 DEF TypeOK, RowTypeOK, DeleteEdges
    <3>2. BlobTypeOK'
      BY <2>11 DEF TypeOK, BlobTypeOK, blobVars, DeleteEdges
    <3>a. Ready(p, "rowdel")
      BY <2>11 DEF TypeOK, ProcTypeOK, Knows, Ready, DeleteEdges
    <3>3. ProcTypeOK' /\ Knows'
      BY <2>11, <3>a, GotoTypes DEF TypeOK, DeleteEdges
    <3> QED
      BY <3>1, <3>2, <3>3 DEF TypeOK
  <2>12. CASE DeleteRow(p)
    <3>1. RowTypeOK' /\ faults' \in 0 .. MaxFaults
      BY <2>12 DEF TypeOK, RowTypeOK, DeleteRow
    <3>2. BlobTypeOK'
      BY <2>12 DEF TypeOK, BlobTypeOK, blobVars, DeleteRow
    <3>a. todo[p] \in SUBSET BlobKeys
      BY DEF TypeOK, ProcTypeOK
    <3>3. ProcTypeOK' /\ Knows'
      BY <2>12, <3>a, FreeNextTypes, DoneTypes DEF TypeOK, DeleteRow
    <3> QED
      BY <3>1, <3>2, <3>3 DEF TypeOK
  <2>13. CASE CountRefs(p)
    <3>1. RowTypeOK' /\ faults' \in 0 .. MaxFaults
      BY <2>13 DEF TypeOK, RowTypeOK, CountRefs, rowVars, Fault
    <3>2. BlobTypeOK'
      BY <2>13 DEF TypeOK, BlobTypeOK, blobVars, CountRefs
    <3>3. ProcTypeOK' /\ Knows'
      <4> DEFINE next == IF op[p] # "sweep" THEN "age" ELSE "get"
      <4>1. PICK k \in todo[p] :
               \/ FreeNext(p, todo[p] \ {k})
               \/ /\ pc' = [pc EXCEPT ![p] = next]
                  /\ key' = [key EXCEPT ![p] = k]
                  /\ UNCHANGED <<regVars, todo, got>>
        BY <2>13 DEF CountRefs
      <4>2. k \in BlobKeys /\ todo[p] \ {k} \in SUBSET BlobKeys
        BY DEF TypeOK, ProcTypeOK
      <4>3. CASE FreeNext(p, todo[p] \ {k})
        BY <4>2, <4>3, FreeNextTypes DEF TypeOK
      <4>4. CASE /\ pc' = [pc EXCEPT ![p] = next]
                 /\ key' = [key EXCEPT ![p] = k]
                 /\ UNCHANGED <<regVars, todo, got>>
        <5>1. next \in {"age", "get"}
          OBVIOUS
        <5> HIDE DEF next
        <5>2. ProcTypeOK'
          BY <4>2, <4>4, <5>1 DEF TypeOK, ProcTypeOK, regVars
        <5>3. Knows'
          BY <4>2, <4>4, <5>1 DEF TypeOK, ProcTypeOK, Knows, regVars
        <5> QED
          BY <5>2, <5>3
      <4> QED
        BY <4>1, <4>3, <4>4
    <3> QED
      BY <3>1, <3>2, <3>3 DEF TypeOK
  <2>14. CASE ReadAge(p)
    <3>1. RowTypeOK' /\ faults' \in 0 .. MaxFaults
      BY <2>14 DEF TypeOK, RowTypeOK, ReadAge, rowVars
    <3>2. BlobTypeOK'
      BY <2>14 DEF TypeOK, BlobTypeOK, blobVars, ReadAge
    <3>a. Ready(p, "get")
      BY <2>14 DEF TypeOK, ProcTypeOK, Knows, Ready, ReadAge
    <3>3. ProcTypeOK' /\ Knows'
      BY <2>14, <3>a, GotoTypes, SkipTypes DEF TypeOK, ReadAge
    <3> QED
      BY <3>1, <3>2, <3>3 DEF TypeOK
  <2>15. CASE ReadBlob(p)
    <3>1. RowTypeOK' /\ faults' \in 0 .. MaxFaults
      BY <2>15 DEF TypeOK, RowTypeOK, ReadBlob, rowVars
    <3>2. BlobTypeOK'
      BY <2>15 DEF TypeOK, BlobTypeOK, blobVars, ReadBlob
    <3>3. ProcTypeOK' /\ Knows'
      <4>1. key[p] \in BlobKeys /\ data[key[p]] \in {"none", "partial", "whole"}
        BY <2>15 DEF TypeOK, BlobTypeOK, Knows, ReadBlob
      <4>2. CASE data[key[p]] = "none"
        BY <2>15, <4>2, SkipTypes DEF TypeOK, ReadBlob
      <4>3. CASE data[key[p]] # "none"
        <5>1. ProcTypeOK'
          BY <2>15, <4>1, <4>3 DEF TypeOK, ProcTypeOK, ReadBlob, regVars
        <5>2. Knows'
          BY <2>15, <4>1, <4>3 DEF TypeOK, ProcTypeOK, Knows, ReadBlob, regVars
        <5> QED
          BY <5>1, <5>2
      <4> QED
        BY <4>2, <4>3
    <3> QED
      BY <3>1, <3>2, <3>3 DEF TypeOK
  <2>16. CASE DeleteBlob(p)
    <3>1. RowTypeOK' /\ faults' \in 0 .. MaxFaults
      BY <2>16 DEF TypeOK, RowTypeOK, DeleteBlob, rowVars
    <3>2. BlobTypeOK'
      BY <2>16 DEF TypeOK, BlobTypeOK, blobVars, DeleteBlob
    <3>a. Ready(p, "recount")
      BY <2>16 DEF TypeOK, ProcTypeOK, Knows, Ready, DeleteBlob
    <3>3. ProcTypeOK' /\ Knows'
      BY <2>16, <3>a, GotoTypes DEF TypeOK, DeleteBlob
    <3> QED
      BY <3>1, <3>2, <3>3 DEF TypeOK
  <2>17. CASE Recount(p)
    <3>1. RowTypeOK' /\ faults' \in 0 .. MaxFaults
      BY <2>17 DEF TypeOK, RowTypeOK, Recount, rowVars, Fault
    <3>2. BlobTypeOK'
      BY <2>17 DEF TypeOK, BlobTypeOK, blobVars, Recount
    <3>a. Ready(p, "back")
      BY <2>17 DEF TypeOK, ProcTypeOK, Knows, Ready, Recount
    <3>3. ProcTypeOK' /\ Knows'
      BY <2>17, <3>a, GotoTypes, SkipTypes DEF TypeOK, Recount
    <3> QED
      BY <3>1, <3>2, <3>3 DEF TypeOK
  <2>18. CASE PutBack(p)
    <3>1. RowTypeOK' /\ faults' \in 0 .. MaxFaults
      BY <2>18 DEF TypeOK, RowTypeOK, PutBack, rowVars
    <3>2. BlobTypeOK'
      BY <2>18, PutTypes DEF TypeOK, ProcTypeOK, PutBack
    <3>3. ProcTypeOK' /\ Knows'
      BY <2>18, SkipTypes DEF TypeOK, PutBack
    <3> QED
      BY <3>1, <3>2, <3>3 DEF TypeOK
  <2> QED
    BY <1>2, <2>1, <2>2, <2>3, <2>4, <2>5, <2>6, <2>7, <2>8, <2>9, <2>10, <2>11, <2>12,
       <2>13, <2>14, <2>15, <2>16, <2>17, <2>18 DEF Step
<1>3. ASSUME NEW p \in Procs, Fails(p) PROVE Types'
  BY <1>3, DoneTypes DEF Fails, Fault, NoLongerWriting, TypeOK, RowTypeOK, BlobTypeOK, rowVars, blobVars
<1>4. ASSUME NEW p \in Procs, FreeFails(p) PROVE Types'
  BY <1>4, SkipTypes DEF FreeFails, Fault, TypeOK, RowTypeOK, BlobTypeOK, rowVars, blobVars
<1>5. ASSUME NEW p \in Procs, LosesBlob(p) PROVE Types'
  BY <1>5, DoneTypes, SkipTypes DEF LosesBlob, Fault, NoLongerWriting, TypeOK, RowTypeOK, BlobTypeOK, blobVars
<1>6. ASSUME NEW k \in BlobKeys, Age(k) PROVE Types'
  BY <1>6 DEF Age, TypeOK, RowTypeOK, BlobTypeOK, ProcTypeOK, Knows, rowVars, procVars
<1>7. CASE UNCHANGED vars
  BY <1>7 DEF vars, rowVars, blobVars, procVars, TypeOK, RowTypeOK, BlobTypeOK, ProcTypeOK, Knows
<1> QED
  BY <1>1, <1>2, <1>3, <1>4, <1>5, <1>6, <1>7 DEF Next

(* The variables keep their types whatever the store, faults and number of  *)
(* processes.                                                              *)
THEOREM TypeCorrect == Spec => []TypeOK
<1>1. Init => Types
  BY NoneAssumption, FaultsAssumption DEF Init, Types, TypeOK, RowTypeOK, BlobTypeOK, ProcTypeOK, Knows
<1>2. Types => TypeOK
  BY DEF Types
<1> QED
  BY <1>1, <1>2, TypesStep, PTL DEF Spec

----------------------------------------------------------------------------
(* The blobs, with a store whose Put is atomic.                            *)

(* No row becomes ensured, and no ensured one gets another ref.             *)
RowsKept ==
    \A o \in Objects : row'[o] = "live" /\ ensured'[o]
                          => row[o] = "live" /\ ensured[o] /\ raw'[o] = raw[o]

(* A process other than p is where it was in remove.                        *)
OthersStay(p) ==
    \A q \in Procs \ {p} : pc'[q] = pc[q] /\ key'[q] = key[q] /\ got'[q] = got[q]

Outside == PCs \ ({"del"} \cup WindowPCs)

(* A process that moves on touches no other.                                *)
LEMMA MovesAlone ==
    ASSUME NEW p \in Procs, Types,
           (\E l : Goto(p, l)) \/ Done(p) \/ (\E ks : FreeNext(p, ks))
    PROVE  OthersStay(p)
  BY DEF Types, TypeOK, ProcTypeOK, Goto, Done, FreeNext, regVars, OthersStay

(* FreeNext leaves remove.                                                  *)
LEMMA FreeNextOutside ==
    ASSUME NEW p \in Procs, NEW ks, Types, FreeNext(p, ks)
    PROVE  pc'[p] \in Outside
  BY DEF Types, TypeOK, ProcTypeOK, FreeNext, Done, Outside

(* A step outside remove that leaves the blobs alone and ensures no row.    *)
LEMMA QuietStep ==
    ASSUME NEW p \in Procs, BlobInv, RowsKept, OthersStay(p), data' = data,
           pc[p] \notin WindowPCs, pc'[p] \in Outside
    PROVE  BlobInv'
<1>1. WholeBlobs'
  BY DEF BlobInv, WholeBlobs, OthersStay, Outside
<1>2. \A k \in BlobKeys \cup {None} : BeingRemoved(k) => BeingRemoved(k)'
  BY DEF BeingRemoved, OthersStay
<1>3. EnsuredRowResolves'
  <2> SUFFICES ASSUME NEW o \in Objects, row'[o] = "live", raw'[o] # None, ensured'[o]
               PROVE  data'[raw'[o]] = "whole" \/ BeingRemoved(raw[o])'
    BY DEF EnsuredRowResolves, RowsKept, BeingRemoved
  <2> QED
    BY <1>2 DEF BlobInv, EnsuredRowResolves, RowsKept, BeingRemoved, OthersStay
<1> QED
  BY <1>1, <1>3 DEF BlobInv

(* An atomic Put of whole content restores the blob of every row it is for. *)
LEMMA PutStep ==
    ASSUME NEW p \in Procs, Types, BlobInv, ~LocalStore, key[p] \in BlobKeys,
           Put(p, "whole"), OthersStay(p), pc'[p] \in Outside,
           \A o \in Objects : row'[o] = "live" /\ ensured'[o] =>
               /\ raw'[o] = raw[o]
               /\ (row[o] = "live" /\ ensured[o]) \/ raw[o] = key[p]
    PROVE  BlobInv'
<1>1. data' = [data EXCEPT ![key[p]] = "whole"]
  BY DEF Put
<1>2. WholeBlobs'
  BY <1>1 DEF BlobInv, WholeBlobs, OthersStay, Outside, Types, TypeOK, BlobTypeOK
<1>3. EnsuredRowResolves'
  <2> SUFFICES ASSUME NEW o \in Objects, row'[o] = "live", raw'[o] # None, ensured'[o]
               PROVE  data'[raw'[o]] = "whole" \/ \E q \in Procs : pc'[q] \in WindowPCs /\ key'[q] = raw'[o]
    BY DEF EnsuredRowResolves, BeingRemoved
  <2>1. CASE raw[o] = key[p]
    BY <1>1, <2>1 DEF Types, TypeOK, BlobTypeOK
  <2>2. CASE raw[o] # key[p]
    BY <1>1, <2>2 DEF BlobInv, EnsuredRowResolves, BeingRemoved, OthersStay, Types, TypeOK, BlobTypeOK, RowTypeOK
  <2> QED
    BY <2>1, <2>2
<1> QED
  BY <1>2, <1>3 DEF BlobInv

(* Each step keeps the invariant: a delete of the blob opens the window in  *)
(* which the remover still counts, a count that finds no reference or a    *)
(* put back closes it, and a remover that dies in it un-ensures its rows.  *)
LEMMA BlobInvStep ==
    ASSUME ~LocalStore
    PROVE  Types /\ BlobInv /\ [Next]_vars => BlobInv'
<1> SUFFICES ASSUME Types, BlobInv, [Next]_vars PROVE BlobInv'
  OBVIOUS
<1>1. ASSUME NEW p \in Procs, Start(p) PROVE BlobInv'
  <2>1. PICK what, l, o, k, mk : Begin(p, what, l, o, k, mk) /\ l \in Outside
    BY <1>1 DEF Start, Ingest, Replace, Patch, Delete, Sweep, Outside
  <2>2. OthersStay(p) /\ pc'[p] = l
    BY <2>1 DEF Begin, OthersStay, Types, TypeOK, ProcTypeOK
  <2>3. RowsKept /\ data' = data /\ pc[p] \notin WindowPCs
    BY <2>1 DEF Begin, RowsKept, rowVars, blobVars
  <2> QED
    BY <2>1, <2>2, <2>3, QuietStep
<1>2. ASSUME NEW p \in Procs, Step(p) PROVE BlobInv'
  <2>1. CASE PutTruncate(p)
    BY <2>1 DEF PutTruncate
  <2>2. CASE Externalize(p)
    <3>1. OthersStay(p)
      BY <2>2, MovesAlone DEF Externalize
    <3>2. pc'[p] \in Outside /\ key[p] \in BlobKeys
      BY <2>2 DEF Externalize, Goto, Outside, Types, TypeOK, ProcTypeOK, Knows
    <3> QED
      BY <2>2, <3>1, <3>2, PutStep DEF Externalize, rowVars
  <2>3. CASE Lookup(p)
    <3>1. OthersStay(p)
      BY <2>3, MovesAlone DEF Lookup
    <3>2. pc'[p] \in Outside
      BY <2>3 DEF Lookup, Goto, Done, Outside, Types, TypeOK, ProcTypeOK
    <3> QED
      BY <2>3, <3>1, <3>2, QuietStep DEF Lookup, RowsKept, rowVars, blobVars
  <2>4. CASE Reinforce(p)
    <3>1. OthersStay(p)
      BY <2>4, MovesAlone DEF Reinforce
    <3>2. pc'[p] \in Outside
      BY <2>4 DEF Reinforce, Done, Outside, Types, TypeOK, ProcTypeOK
    <3>3. RowsKept
      BY <2>4 DEF Reinforce, RowsKept
    <3> QED
      BY <2>4, <3>1, <3>2, <3>3, QuietStep DEF Reinforce, blobVars
  <2>5. CASE Create(p)
    <3>1. OthersStay(p)
      BY <2>5, MovesAlone DEF Create
    <3>2. pc'[p] \in Outside
      BY <2>5 DEF Create, Goto, Outside, Types, TypeOK, ProcTypeOK
    <3>3. RowsKept
      BY <2>5 DEF Create, RowsKept, rowVars, Types, TypeOK, RowTypeOK
    <3> QED
      BY <2>5, <3>1, <3>2, <3>3, QuietStep DEF Create, blobVars
  <2>6. CASE Ensure(p)
    <3>1. OthersStay(p)
      BY <2>6, MovesAlone DEF Ensure, EnsureReturns
    <3>2. pc'[p] \in Outside
      <4>1. pc'[p] \in {"eput", "edges"} \/ \E ks : FreeNext(p, ks)
        BY <2>6 DEF Ensure, EnsureReturns, Goto, Types, TypeOK, ProcTypeOK
      <4> QED
        BY <4>1, FreeNextOutside DEF Outside
    <3>3. CASE data[key[p]] = "none"
      BY <2>6, <3>1, <3>2, <3>3, QuietStep DEF Ensure, RowsKept, rowVars, blobVars
    <3>4. CASE data[key[p]] # "none"
      <4>1. data[key[p]] = "whole" /\ data' = data
        BY <2>6, <3>4 DEF Ensure, blobVars, Types, TypeOK, BlobTypeOK, Knows, BlobInv, WholeBlobs
      <4>2. \A o \in Objects : row'[o] = "live" /\ ensured'[o] =>
               /\ row[o] = "live" /\ raw'[o] = raw[o]
               /\ ensured[o] \/ raw[o] = key[p]
        BY <2>6, <3>4 DEF Ensure, EnsureReturns, Types, TypeOK, RowTypeOK
      <4>3. WholeBlobs'
        BY <3>1, <3>2, <4>1 DEF BlobInv, WholeBlobs, OthersStay, Outside
      <4>4. EnsuredRowResolves'
        BY <2>6, <3>1, <4>1, <4>2 DEF Ensure, BlobInv, EnsuredRowResolves, BeingRemoved, OthersStay
      <4> QED
        BY <4>3, <4>4 DEF BlobInv
    <3> QED
      BY <3>3, <3>4
  <2>7. CASE EnsurePut(p)
    <3>1. OthersStay(p)
      BY <2>7, MovesAlone DEF EnsurePut, EnsureReturns
    <3>2. pc'[p] \in Outside
      <4>1. pc'[p] = "edges" \/ \E ks : FreeNext(p, ks)
        BY <2>7 DEF EnsurePut, EnsureReturns, Goto, Types, TypeOK, ProcTypeOK
      <4> QED
        BY <4>1, FreeNextOutside DEF Outside
    <3>3. key[p] \in BlobKeys
      BY <2>7 DEF EnsurePut, Types, Knows
    <3>4. \A o \in Objects : row'[o] = "live" /\ ensured'[o] =>
               /\ raw'[o] = raw[o]
               /\ (row[o] = "live" /\ ensured[o]) \/ raw[o] = key[p]
      BY <2>7 DEF EnsurePut, EnsureReturns, Types, TypeOK, RowTypeOK
    <3> QED
      BY <2>7, <3>1, <3>2, <3>3, <3>4, PutStep DEF EnsurePut
  <2>8. CASE WriteEdges(p)
    <3>1. OthersStay(p)
      BY <2>8, MovesAlone DEF WriteEdges
    <3>2. pc'[p] \in Outside
      BY <2>8 DEF WriteEdges, Done, Outside, Types, TypeOK, ProcTypeOK
    <3> QED
      BY <2>8, <3>1, <3>2, QuietStep DEF WriteEdges, RowsKept, blobVars
  <2>9. CASE UpdateGet(p)
    <3>1. OthersStay(p) /\ pc'[p] \in Outside
      BY <2>9 DEF UpdateGet, Done, regVars, OthersStay, Outside, Types, TypeOK, ProcTypeOK
    <3> QED
      BY <2>9, <3>1, QuietStep DEF UpdateGet, RowsKept, rowVars, blobVars
  <2>10. CASE UpdateWrite(p)
    <3>1. OthersStay(p)
      BY <2>10, MovesAlone DEF UpdateWrite
    <3>2. pc'[p] \in Outside
      <4>1. pc'[p] \in {"ensure", "idle"} \/ \E ks : FreeNext(p, ks)
        BY <2>10 DEF UpdateWrite, Goto, Done, Types, TypeOK, ProcTypeOK
      <4> QED
        BY <4>1, FreeNextOutside DEF Outside
    <3>3. RowsKept
      BY <2>10 DEF UpdateWrite, RowsKept, Types, TypeOK, RowTypeOK
    <3> QED
      BY <2>10, <3>1, <3>2, <3>3, QuietStep DEF UpdateWrite, blobVars
  <2>11. CASE DeleteEdges(p)
    <3>1. OthersStay(p)
      BY <2>11, MovesAlone DEF DeleteEdges
    <3>2. pc'[p] \in Outside
      BY <2>11 DEF DeleteEdges, Goto, Outside, Types, TypeOK, ProcTypeOK
    <3> QED
      BY <2>11, <3>1, <3>2, QuietStep DEF DeleteEdges, RowsKept, blobVars
  <2>12. CASE DeleteRow(p)
    <3>1. OthersStay(p)
      BY <2>12, MovesAlone DEF DeleteRow
    <3>2. pc'[p] \in Outside
      <4>1. pc'[p] = "idle" \/ \E ks : FreeNext(p, ks)
        BY <2>12 DEF DeleteRow, Done, Types, TypeOK, ProcTypeOK
      <4> QED
        BY <4>1, FreeNextOutside DEF Outside
    <3>3. RowsKept
      BY <2>12 DEF DeleteRow, RowsKept, Types, TypeOK, RowTypeOK
    <3> QED
      BY <2>12, <3>1, <3>2, <3>3, QuietStep DEF DeleteRow, blobVars
  <2>13. CASE CountRefs(p)
    <3>1. PICK k \in todo[p], l \in {"age", "get"} :
             \/ FreeNext(p, todo[p] \ {k})
             \/ /\ pc' = [pc EXCEPT ![p] = l]
                /\ key' = [key EXCEPT ![p] = k]
                /\ UNCHANGED got
      BY <2>13 DEF CountRefs
    <3>2. OthersStay(p) /\ pc'[p] \in Outside
      BY <3>1, MovesAlone, FreeNextOutside DEF OthersStay, Outside, Types, TypeOK, ProcTypeOK
    <3> QED
      BY <2>13, <3>2, QuietStep DEF CountRefs, RowsKept, rowVars, blobVars
  <2>14. CASE ReadAge(p)
    <3>1. OthersStay(p)
      BY <2>14, MovesAlone DEF ReadAge, Skip
    <3>2. pc'[p] \in Outside
      <4>1. pc'[p] = "get" \/ \E ks : FreeNext(p, ks)
        BY <2>14 DEF ReadAge, Skip, Goto, Types, TypeOK, ProcTypeOK
      <4> QED
        BY <4>1, FreeNextOutside DEF Outside
    <3> QED
      BY <2>14, <3>1, <3>2, QuietStep DEF ReadAge, RowsKept, rowVars, blobVars
  <2>15. CASE ReadBlob(p)
    <3>1. CASE data[key[p]] = "none"
      <4>1. FreeNext(p, todo[p] \ {key[p]})
        BY <2>15, <3>1 DEF ReadBlob, Skip
      <4> QED
        BY <2>15, <4>1, MovesAlone, FreeNextOutside, QuietStep DEF ReadBlob, RowsKept, rowVars, blobVars
    <3>2. CASE data[key[p]] # "none"
      <4>1. data[key[p]] = "whole"
        BY <2>15, <3>2 DEF ReadBlob, Types, TypeOK, BlobTypeOK, Knows, BlobInv, WholeBlobs
      <4>2. OthersStay(p) /\ pc'[p] = "del" /\ got'[p] = "whole" /\ UNCHANGED key
        BY <2>15, <3>2, <4>1 DEF ReadBlob, OthersStay, Types, TypeOK, ProcTypeOK
      <4>3. WholeBlobs'
        BY <2>15, <4>2 DEF ReadBlob, BlobInv, WholeBlobs, OthersStay, blobVars
      <4>4. EnsuredRowResolves'
        BY <2>15, <4>2 DEF ReadBlob, BlobInv, EnsuredRowResolves, BeingRemoved, OthersStay, rowVars, blobVars
      <4> QED
        BY <4>3, <4>4 DEF BlobInv
    <3> QED
      BY <3>1, <3>2
  <2>16. CASE DeleteBlob(p)
    <3>1. OthersStay(p) /\ pc'[p] = "recount" /\ UNCHANGED <<key, got>>
      BY <2>16 DEF DeleteBlob, Goto, OthersStay, Types, TypeOK, ProcTypeOK
    <3>2. WholeBlobs'
      BY <2>16, <3>1 DEF DeleteBlob, BlobInv, WholeBlobs, OthersStay, Types, TypeOK, BlobTypeOK
    <3>3. EnsuredRowResolves'
      <4> SUFFICES ASSUME NEW o \in Objects, row[o] = "live", raw[o] # None, ensured[o]
                   PROVE  data'[raw[o]] = "whole"
                            \/ \E q \in Procs : pc'[q] \in WindowPCs /\ key'[q] = raw[o]
        BY <2>16 DEF DeleteBlob, EnsuredRowResolves, BeingRemoved, rowVars
      <4>1. CASE raw[o] = key[p]
        BY <3>1, <4>1
      <4>2. CASE raw[o] # key[p]
        BY <2>16, <3>1, <4>2 DEF DeleteBlob, BlobInv, EnsuredRowResolves, BeingRemoved, OthersStay,
                                 Types, TypeOK, BlobTypeOK, RowTypeOK
      <4> QED
        BY <4>1, <4>2
    <3> QED
      BY <3>2, <3>3 DEF BlobInv
  <2>17. CASE Recount(p)
    <3>1. CASE Refs(key[p]) = {} /\ Skip(p)
      <4>1. OthersStay(p) /\ pc'[p] \in Outside
        BY <3>1, MovesAlone, FreeNextOutside DEF Skip
      <4>2. \A o \in Objects : row[o] = "live" => raw[o] # key[p]
        BY <2>17, <3>1, NoneAssumption DEF Recount, Refs, KeysOf, Types, Knows
      <4>3. WholeBlobs'
        BY <2>17, <4>1 DEF Recount, BlobInv, WholeBlobs, OthersStay, Outside, blobVars
      <4>4. EnsuredRowResolves'
        BY <2>17, <4>1, <4>2 DEF Recount, BlobInv, EnsuredRowResolves, BeingRemoved, OthersStay, rowVars, blobVars
      <4> QED
        BY <4>3, <4>4 DEF BlobInv
    <3>2. CASE Goto(p, "back")
      <4>1. OthersStay(p) /\ pc'[p] = "back" /\ UNCHANGED <<key, got>>
        BY <3>2 DEF Goto, OthersStay, Types, TypeOK, ProcTypeOK
      <4>2. WholeBlobs'
        BY <2>17, <4>1 DEF Recount, BlobInv, WholeBlobs, OthersStay, blobVars
      <4>3. EnsuredRowResolves'
        BY <2>17, <4>1 DEF Recount, BlobInv, EnsuredRowResolves, BeingRemoved, OthersStay, rowVars, blobVars
      <4> QED
        BY <4>2, <4>3 DEF BlobInv
    <3> QED
      BY <2>17, <3>1, <3>2 DEF Recount
  <2>18. CASE PutBack(p)
    <3>1. OthersStay(p) /\ pc'[p] \in Outside
      BY <2>18, MovesAlone, FreeNextOutside DEF PutBack, Skip
    <3>2. got[p] = "whole" /\ key[p] \in BlobKeys
      BY <2>18 DEF PutBack, BlobInv, WholeBlobs, Types, Knows
    <3> QED
      BY <2>18, <3>1, <3>2, PutStep DEF PutBack, rowVars
  <2> QED
    BY <1>2, <2>1, <2>2, <2>3, <2>4, <2>5, <2>6, <2>7, <2>8, <2>9, <2>10, <2>11, <2>12,
       <2>13, <2>14, <2>15, <2>16, <2>17, <2>18 DEF Step
<1>3. ASSUME NEW p \in Procs, Fails(p) PROVE BlobInv'
  <2>1. OthersStay(p)
    BY <1>3, MovesAlone DEF Fails
  <2>2. pc'[p] \in Outside
    BY <1>3 DEF Fails, Done, Outside, Types, TypeOK, ProcTypeOK
  <2> QED
    BY <1>3, <2>1, <2>2, QuietStep DEF Fails, RowsKept, rowVars, blobVars
<1>4. ASSUME NEW p \in Procs, FreeFails(p) PROVE BlobInv'
  BY <1>4, MovesAlone, FreeNextOutside, QuietStep DEF FreeFails, Skip, RowsKept, rowVars, blobVars
<1>5. ASSUME NEW p \in Procs, LosesBlob(p) PROVE BlobInv'
  <2>1. OthersStay(p)
    BY <1>5, MovesAlone DEF LosesBlob, Skip
  <2>2. pc'[p] \in Outside
    <3>1. pc'[p] = "idle" \/ \E ks : FreeNext(p, ks)
      BY <1>5 DEF LosesBlob, Skip, Done, Types, TypeOK, ProcTypeOK
    <3> QED
      BY <3>1, FreeNextOutside DEF Outside
  <2>3. WholeBlobs'
    BY <1>5, <2>1, <2>2 DEF LosesBlob, BlobInv, WholeBlobs, OthersStay, Outside, blobVars
  <2>4. \A o \in Objects : ensured'[o] => ensured[o] /\ raw[o] # key[p]
    BY <1>5 DEF LosesBlob
  <2>5. EnsuredRowResolves'
    BY <1>5, <2>1, <2>4 DEF LosesBlob, BlobInv, EnsuredRowResolves, BeingRemoved, OthersStay, blobVars
  <2> QED
    BY <2>3, <2>5 DEF BlobInv
<1>6. ASSUME NEW k \in BlobKeys, Age(k) PROVE BlobInv'
  BY <1>6 DEF Age, BlobInv, WholeBlobs, EnsuredRowResolves, BeingRemoved, rowVars, procVars
<1>7. CASE UNCHANGED vars
  BY <1>7 DEF vars, BlobInv, WholeBlobs, EnsuredRowResolves, BeingRemoved, rowVars, blobVars, procVars
<1> QED
  BY <1>1, <1>2, <1>3, <1>4, <1>5, <1>6, <1>7 DEF Next

(* With an atomic blob store, an object whose blob Ensure has seen keeps    *)
(* it: deletes, sweeps, updates and re-ingests of the same content by any  *)
(* number of processes only take it away while they are about to put it    *)
(* back.                                                                   *)
THEOREM EnsuredRowsKeepBlobs ==
    ASSUME ~LocalStore
    PROVE  Spec => []EnsuredRowResolves
<1>1. Init => Types /\ BlobInv
  BY NoneAssumption, FaultsAssumption
     DEF Init, Types, TypeOK, RowTypeOK, BlobTypeOK, ProcTypeOK, Knows, BlobInv, WholeBlobs, EnsuredRowResolves
<1>2. Types /\ BlobInv /\ [Next]_vars => Types' /\ BlobInv'
  BY TypesStep, BlobInvStep
<1>3. BlobInv => EnsuredRowResolves
  BY DEF BlobInv
<1> QED
  BY <1>1, <1>2, <1>3, PTL DEF Spec

----------------------------------------------------------------------------
(* The put back.                                                           *)

(* A row loses its ref when it is deleted, and with it the mark of Ensure.  *)
LEMMA EnsuredHasRefStep == Types /\ EnsuredHasRef /\ [Next]_vars => EnsuredHasRef'
<1> SUFFICES ASSUME Types, EnsuredHasRef, [Next]_vars PROVE EnsuredHasRef'
  OBVIOUS
<1> USE DEF EnsuredHasRef
<1>1. ASSUME UNCHANGED <<raw, ensured>> PROVE EnsuredHasRef'
  BY <1>1
<1>2. ASSUME NEW p \in Procs, Start(p) PROVE EnsuredHasRef'
  BY <1>1, <1>2 DEF Start, Ingest, Replace, Patch, Delete, Sweep, Begin, rowVars
<1>3. ASSUME NEW p \in Procs, Step(p) PROVE EnsuredHasRef'
  <2>1. CASE PutTruncate(p) \/ Externalize(p) \/ Lookup(p) \/ WriteEdges(p)
    BY <1>1, <2>1 DEF PutTruncate, Externalize, Lookup, WriteEdges, rowVars
  <2>2. CASE Reinforce(p)
    BY <2>2 DEF Reinforce, Types, TypeOK, RowTypeOK
  <2>3. CASE Create(p)
    BY <2>3, <1>1 DEF Create, Types, TypeOK, RowTypeOK, rowVars
  <2>4. ASSUME pc[p] \in {"ensure", "eput"}, EnsureReturns(p) PROVE EnsuredHasRef'
    <3>1. key[p] # None
      BY <2>4, NoneAssumption DEF Types, Knows
    <3> QED
      BY <2>4, <3>1 DEF EnsureReturns, Types, TypeOK, RowTypeOK
  <2>5. CASE Ensure(p)
    BY <1>1, <2>4, <2>5 DEF Ensure, rowVars
  <2>6. CASE EnsurePut(p)
    BY <2>4, <2>6 DEF EnsurePut
  <2>7. CASE UpdateGet(p) \/ DeleteEdges(p)
    BY <1>1, <2>7 DEF UpdateGet, DeleteEdges, rowVars
  <2>8. CASE UpdateWrite(p)
    BY <1>1, <2>8 DEF UpdateWrite, Types, TypeOK, RowTypeOK
  <2>9. CASE DeleteRow(p)
    BY <1>1, <2>9 DEF DeleteRow, Types, TypeOK, RowTypeOK
  <2>10. CASE CountRefs(p) \/ ReadAge(p) \/ ReadBlob(p)
    BY <1>1, <2>10 DEF CountRefs, ReadAge, ReadBlob, rowVars
  <2>11. CASE DeleteBlob(p) \/ Recount(p) \/ PutBack(p)
    BY <1>1, <2>11 DEF DeleteBlob, Recount, PutBack, rowVars
  <2> QED
    BY <1>3, <2>1, <2>2, <2>3, <2>5, <2>6, <2>7, <2>8, <2>9, <2>10, <2>11 DEF Step
<1>4. ASSUME NEW p \in Procs, Fails(p) \/ FreeFails(p) PROVE EnsuredHasRef'
  BY <1>1, <1>4 DEF Fails, FreeFails, rowVars
<1>5. ASSUME NEW p \in Procs, LosesBlob(p) PROVE EnsuredHasRef'
  BY <1>5 DEF LosesBlob
<1>6. ASSUME NEW k \in BlobKeys, Age(k) PROVE EnsuredHasRef'
  BY <1>1, <1>6 DEF Age, rowVars
<1>7. CASE UNCHANGED vars
  BY <1>1, <1>7 DEF vars, rowVars
<1> QED
  BY <1>2, <1>3, <1>4, <1>5, <1>6, <1>7 DEF Next

(* What delete.go says of a remover, that it puts back the content it read, *)
(* is so in a store whose Put is atomic: when no remove and no put of the  *)
(* blob is under way, an ensured row has its whole content.  The run       *)
(* local_put violates it with the Put of the local store, which truncates  *)
(* the file and then writes it.                                            *)
THEOREM AtomicPutsKeepContent ==
    ASSUME ~LocalStore
    PROVE  Spec => []PutBackKeepsContent
<1>1. Init => Types /\ BlobInv /\ EnsuredHasRef
  BY NoneAssumption, FaultsAssumption
     DEF Init, Types, TypeOK, RowTypeOK, BlobTypeOK, ProcTypeOK, Knows, BlobInv, WholeBlobs,
         EnsuredRowResolves, EnsuredHasRef
<1>2. Types /\ BlobInv /\ EnsuredHasRef /\ [Next]_vars => Types' /\ BlobInv' /\ EnsuredHasRef'
  BY TypesStep, BlobInvStep, EnsuredHasRefStep
<1>3. BlobInv /\ EnsuredHasRef => PutBackKeepsContent
  BY DEF BlobInv, EnsuredRowResolves, EnsuredHasRef, PutBackKeepsContent
<1> QED
  BY <1>1, <1>2, <1>3, PTL DEF Spec

=============================================================================
