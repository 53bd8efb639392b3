--------------------------- MODULE QuotaStoreProofs ---------------------------
(* Theorems about QuotaStore, for any number of operations, pods and readers: *)
(* the quota implements Counter, and the increments of the hash do not drift. *)
EXTENDS QuotaStore, SetSums

\* An edit under way has not been counted yet.
EditCounted == editor.pc = "write" => edits < MaxEdits

\* What the memory of a pod holds: acknowledged operations of this pod, each in the
\* store or in the batch, not in both.
InPod(p) ==
    /\ \A o \in store[p] \cup flushing[p] : PodOf[o] = p /\ stmt[o] = "done"
    /\ store[p] \cap flushing[p] = {}

\* The goroutine of an operation is started with it.
Started(o) == stmt[o] = "idle" => incr[o] = "idle"

StoreInv ==
    /\ TypeOK
    /\ EditCounted
    /\ \A p \in Pods : InPod(p)
    /\ \A o \in Ops : Started(o)

\* A complete hash has a TTL.
HashInv == hash.kind = "full" => hash.ttl = TRUE

-----------------------------------------------------------------------------

\* The total of a set of operations is the sum of their changes.
LEMMA TotalSum == ASSUME NEW S PROVE Total(S) = Sum(Delta, S)
  BY DEF Total, Sum

\* It is an integer.
LEMMA TotalInt == ASSUME NEW S \in SUBSET Ops PROVE Total(S) \in Int
<1>1. IsFiniteSet(S) /\ \A o \in S : Delta[o] \in Int
  BY StoreSets, FS_Subset
<1>. QED
  BY <1>1, SumInt, TotalSum

\* Adding an operation adds its change.
LEMMA TotalAdd ==
    ASSUME NEW S \in SUBSET Ops, NEW o \in Ops, o \notin S
    PROVE  Total(S \cup {o}) = Total(S) + Delta[o]
<1>1. IsFiniteSet(S) /\ Delta[o] \in Int /\ \A x \in S : Delta[x] \in Int
  BY StoreSets, FS_Subset
<1>. QED
  BY <1>1, SumAdd, TotalSum

\* Taking operations out takes their total out.
LEMMA TotalWithout ==
    ASSUME NEW S \in SUBSET Ops, NEW T \in SUBSET S
    PROVE  Total(S \ T) = Total(S) - Total(T)
<1>1. IsFiniteSet(S) /\ \A x \in S : Delta[x] \in Int
  BY StoreSets, FS_Subset
<1>. QED
  BY <1>1, SumDifference, TotalSum

\* The empty hash.
LEMMA NoHashIs == NoHash \in Hashes /\ NoHash.kind = "none" /\ NoHash.ttl = FALSE
  BY DEF NoHash, Hashes

\* A complete hash.
LEMMA FullIs ==
    ASSUME NEW q \in Int
    PROVE  Full(q) \in Hashes /\ Full(q).quota = q /\ Full(q).kind = "full" /\ Full(q).ttl = TRUE
<1>1. Full(q) \in Hashes /\ Full(q).quota = q
  BY DEF Full, Hashes
<1>2. Full(q).kind = "full" /\ Full(q).ttl = TRUE
  BY DEF Full
<1>. QED
  BY <1>1, <1>2

\* A field written with its TTL leaves a complete hash complete.
LEMMA FieldWritten ==
    ASSUME hash \in Hashes, NEW q \in Int
    PROVE  /\ WithField(q) \in Hashes /\ WithField(q).quota = q /\ WithField(q).ttl = TRUE
           /\ WithField(q).kind = "full" <=> hash.kind = "full"
<1>1. ASSUME NEW k \in {"none", "full", "partial"}
      PROVE  LET f == Restored([hash EXCEPT !.kind = k, !.quota = q])
             IN  f \in Hashes /\ f.kind = k /\ f.quota = q /\ f.ttl = TRUE
  BY DEF Restored, Hashes
<1>2. CASE hash.kind = "full"
  BY <1>1, <1>2 DEF WithField
<1>3. CASE hash.kind # "full"
  BY <1>1, <1>3 DEF WithField
<1>. QED
  BY <1>2, <1>3

Reads == [pc : {"idle", "fill", "ttl", "field"}, quota : Int]
Edits == [pc : {"idle", "write", "hash"}, quota : Int]

\* Nothing read.
LEMMA NoReadIs == NoRead \in Reads /\ NoRead \in Edits /\ NoRead.pc = "idle"
  BY DEF NoRead, Reads, Edits

-----------------------------------------------------------------------------
(* What is in memory.                                                         *)

\* Nothing is in memory and nothing has been started at first.
LEMMA StoreInit == Init => StoreInv /\ HashInv
<1> SUFFICES ASSUME Init PROVE StoreInv /\ HashInv
  OBVIOUS
<1>1. hash \in Hashes /\ HashInv
  BY StoreSets, NoHashIs, FullIs DEF Init, HashInv
<1>2. editor \in Edits /\ reader \in [Readers -> Reads] /\ EditCounted
  BY NoReadIs DEF Init, EditCounted
<1>3. (\A p \in Pods : InPod(p)) /\ (\A o \in Ops : Started(o))
  BY DEF Init, InPod, Started
<1>4. TypeOK
  <2>1. db \in Int /\ faults \in 0 .. MaxFaults /\ edits \in 0 .. MaxEdits
    BY StoreSets DEF Init
  <2>2. batching \in BOOLEAN /\ gone \in BOOLEAN /\ purge \in {"idle", "queued", "done"}
    BY DEF Init
  <2>3. /\ stmt \in [Ops -> {"idle", "open", "done", "failed"}]
        /\ incr \in [Ops -> {"idle", "queued", "write", "done"}]
        /\ store \in [Pods -> SUBSET Ops] /\ flushing \in [Pods -> SUBSET Ops]
    BY DEF Init
  <2>. QED
    BY <1>1, <1>2, <2>1, <2>2, <2>3 DEF TypeOK, Reads, Edits
<1>5. StoreInv
  BY <1>2, <1>3, <1>4 DEF StoreInv
<1>. QED
  BY <1>1, <1>5

\* Every step keeps what is in memory and the goroutines in order.
LEMMA StoreStep == StoreInv /\ [Next]_vars => StoreInv'
<1> SUFFICES ASSUME StoreInv, [Next]_vars PROVE StoreInv'
  OBVIOUS
<1> USE StoreSets DEF StoreInv, TypeOK, EditCounted, InPod, Started, tables, limits, Reads, Edits
<1>1. ASSUME NEW o \in Ops, Begin(o) PROVE StoreInv'
  BY <1>1 DEF Begin
<1>2. ASSUME NEW o \in Ops, Execute(o) PROVE StoreInv'
  BY <1>2 DEF Execute, Change
<1>3. ASSUME NEW o \in Ops, AddNewRecord(o) PROVE StoreInv'
  BY <1>3 DEF AddNewRecord
<1>4. ASSUME NEW o \in Ops, ExecuteFails(o) PROVE StoreInv'
  BY <1>4 DEF ExecuteFails, Change, Fault
<1>5. ASSUME NEW o \in Ops, HIncrReadTTL(o) PROVE StoreInv'
  BY <1>5 DEF HIncrReadTTL
<1>6. ASSUME NEW o \in Ops, HIncrWrite(o) PROVE StoreInv'
  <2>1. hash.quota + Incremented(o) \in Int
    BY DEF Incremented, Hashes
  <2>2. hash' \in Hashes
    BY <1>6, <2>1, FieldWritten DEF HIncrWrite
  <2>. QED
    BY <1>6, <2>2 DEF HIncrWrite
<1>7. ASSUME NEW p \in Pods, BatchSwap(p) PROVE StoreInv'
  BY <1>7 DEF BatchSwap, SwapStore
<1>8. ASSUME NEW p \in Pods, BatchWrite(p) PROVE StoreInv'
  <2>1. Total(flushing[p]) \in Int
    BY TotalInt
  <2>. QED
    BY <1>8, <2>1 DEF BatchWrite, Change, Fault
<1>9. ASSUME NEW p \in Pods, Crash(p) PROVE StoreInv'
  BY <1>9 DEF Crash, Fault
<1>10. ASSUME NEW r \in Readers, ReadMiss(r) \/ ReadQuota(r) PROVE StoreInv'
  BY <1>10 DEF ReadMiss, ReadQuota
<1>11. ASSUME NEW r \in Readers, Answer(r) PROVE StoreInv'
  <2>1. reader[r].quota \in Int
    OBVIOUS
  <2>2. CASE FillHash(r)
    BY <2>1, <2>2, FullIs, NoReadIs DEF FillHash
  <2>3. CASE HSetReadTTL(r)
    BY <2>3, NoReadIs DEF HSetReadTTL
  <2>4. CASE HSetWrite(r)
    <3>1. hash' \in Hashes
      BY <2>1, <2>4, FieldWritten DEF HSetWrite
    <3>. QED
      BY <2>4, <3>1, NoReadIs DEF HSetWrite
  <2>. QED
    BY <1>11, <2>2, <2>3, <2>4 DEF Answer
<1>12. CASE Expire \/ Purge
  BY <1>12, NoHashIs DEF Expire, Purge
<1>13. CASE EditRead \/ EditWrite \/ EditHash
  <2>1. ASSUME NEW pc \in {"write", "hash"}, NEW q \in Int
        PROVE  [pc |-> pc, quota |-> q] \in Edits /\ [pc |-> pc, quota |-> q].pc = pc
    OBVIOUS
  <2> HIDE DEF Edits
  <2>2. CASE EditRead
    <3>1. editor' \in Edits /\ EditCounted'
      BY <2>1, <2>2 DEF EditRead
    <3>. QED
      BY <2>2, <3>1 DEF EditRead, Edits
  <2>3. CASE EditWrite
    <3>1. PICK q \in Int : db' \in Int /\ editor' \in {NoRead, [pc |-> "hash", quota |-> q]}
      BY <2>3 DEF EditWrite, WriteBack
    <3>2. editor' \in Edits /\ EditCounted'
      BY <2>1, <3>1, NoReadIs
    <3>3. edits' \in 0 .. MaxEdits
      BY <2>3 DEF EditWrite
    <3>. QED
      BY <2>3, <3>1, <3>2, <3>3 DEF EditWrite, Edits
  <2>4. CASE EditHash
    <3>1. editor' \in Edits /\ EditCounted' /\ hash' \in Hashes
      BY <2>4, NoReadIs, FullIs DEF EditHash
    <3>. QED
      BY <2>4, <3>1 DEF EditHash, Edits
  <2>. QED
    BY <1>13, <2>2, <2>3, <2>4
<1>14. CASE Delete
  BY <1>14 DEF Delete
<1>15. CASE UNCHANGED vars
  BY <1>15 DEF vars
<1>. QED
  BY <1>1, <1>2, <1>3, <1>4, <1>5, <1>6, <1>7, <1>8, <1>9, <1>10, <1>11, <1>12, <1>13,
     <1>14, <1>15 DEF Next, Operate, Goroutine, Batch

\* Whoever writes the hash sets its TTL with it.
LEMMA HashStep == StoreInv /\ HashInv /\ [Next]_vars => HashInv'
<1> SUFFICES ASSUME StoreInv, HashInv, [Next]_vars PROVE HashInv'
  OBVIOUS
<1>0. /\ hash \in Hashes /\ editor.quota \in Int
      /\ \A r \in Readers : reader[r].quota \in Int
      /\ \A o \in Ops : Incremented(o) \in Int
  BY StoreSets DEF StoreInv, TypeOK, Incremented
<1>7. hash.quota \in Int
  BY <1>0 DEF Hashes
<1>1. ASSUME NEW o \in Ops, HIncrWrite(o) PROVE HashInv'
  <2>1. hash.quota + Incremented(o) \in Int
    BY <1>0, <1>7
  <2>2. hash'.ttl = TRUE
    BY <1>0, <1>1, <2>1, FieldWritten DEF HIncrWrite
  <2>. QED
    BY <2>2 DEF HashInv
<1>2. ASSUME NEW r \in Readers, HSetWrite(r) PROVE HashInv'
  BY <1>0, <1>2, FieldWritten DEF HSetWrite, HashInv
<1>3. ASSUME NEW r \in Readers, FillHash(r) PROVE HashInv'
  BY <1>0, <1>3, FullIs DEF FillHash, HashInv
<1>4. CASE EditHash
  BY <1>0, <1>4, FullIs DEF EditHash, HashInv
<1>5. CASE Expire \/ Purge
  BY <1>5, NoHashIs DEF Expire, Purge, HashInv
<1>6. CASE hash' = hash
  BY <1>6 DEF HashInv
<1>. QED
  BY <1>1, <1>2, <1>3, <1>4, <1>5, <1>6
  DEF Next, Operate, Goroutine, Batch, Answer, vars, Begin, Execute, AddNewRecord, ExecuteFails,
      HIncrReadTTL, BatchSwap, BatchWrite, Crash, ReadMiss, ReadQuota, HSetReadTTL, EditRead,
      EditWrite, Delete

\* Every variable has its type, no operation is summed up twice in the memory of the pods,
\* and every operation there has been acknowledged (addNewRecord, batchUpdate).
THEOREM InMemoryOnce == Spec => [](StoreInv /\ HashInv)
<1>1. StoreInv /\ HashInv /\ [Next]_vars => (StoreInv /\ HashInv)'
  BY StoreStep, HashStep
<1>. QED
  BY <1>1, StoreInit, PTL DEF Spec

-----------------------------------------------------------------------------
(* The quota implements Counter.                                              *)

abstract == <<Value, Taken, faults, edits, gone>>

\* What is in memory has been acknowledged.
LEMMA MemoryTaken == StoreInv => InMemory \subseteq Taken /\ Taken \subseteq Ops
  BY DEF StoreInv, TypeOK, InPod, InMemory, Taken

\* The value is an integer.
LEMMA ValueInt == StoreInv => Value \in Int
<1> SUFFICES ASSUME StoreInv PROVE Value \in Int
  OBVIOUS
<1>1. InMemory \in SUBSET Ops /\ db \in Int
  BY MemoryTaken DEF StoreInv, TypeOK
<1>. QED
  BY <1>1, TotalInt DEF Value

\* The counter starts as the row does.
LEMMA CounterInit == Init => Count!Init
<1> SUFFICES ASSUME Init PROVE Count!Init
  OBVIOUS
<1>1. InMemory = {} /\ Taken = {}
  BY DEF Init, InMemory, Taken
<1>2. Total({}) = 0
  BY TotalSum, SumEmpty
<1>3. Value = Start
  BY <1>1, <1>2, StoreSets DEF Value, Init
<1>. QED
  BY <1>1, <1>3 DEF Count!Init, Init

\* Steps that touch neither the row nor the memory are invisible.
LEMMA Invisible == UNCHANGED <<tables, limits, Taken>> => UNCHANGED abstract
  BY DEF tables, limits, abstract, Value, InMemory

\* An operation that is executed, or recorded in a store, changes the value by its change.
LEMMA OperateCounts ==
    ASSUME StoreInv, NEW o \in Ops, Operate(o)
    PROVE  /\ o \notin Taken /\ Taken' = Taken \cup {o} /\ UNCHANGED <<limits, gone>>
           /\ ~gone => Value' = Value + Delta[o]
<1>1. stmt[o] = "open" /\ stmt' = [stmt EXCEPT ![o] = "done"] /\ UNCHANGED <<limits, gone>>
  BY DEF Operate, Execute, AddNewRecord, limits
<1>2. o \notin Taken /\ Taken' = Taken \cup {o} /\ o \notin InMemory
  BY <1>1, MemoryTaken DEF Taken, StoreInv, TypeOK
<1>3. Delta[o] \in Int /\ InMemory \in SUBSET Ops /\ db \in Int /\ Total(InMemory) \in Int
  BY StoreSets, MemoryTaken, TotalInt DEF StoreInv, TypeOK
<1>4. CASE Execute(o) /\ ~gone
  <2>1. InMemory' = InMemory /\ db' = db + Delta[o]
    BY <1>4 DEF Execute, Change, InMemory
  <2>2. Value' = Value + Delta[o]
    BY <1>3, <2>1 DEF Value
  <2>. QED
    BY <1>1, <1>2, <2>2
<1>5. CASE AddNewRecord(o)
  <2>1. InMemory' = InMemory \cup {o} /\ db' = db
    <3>1. PodOf[o] \in Pods /\ store \in [Pods -> SUBSET Ops] /\ flushing' = flushing /\ db' = db
      BY <1>5, StoreSets DEF AddNewRecord, StoreInv, TypeOK
    <3>2. /\ store'[PodOf[o]] = store[PodOf[o]] \cup {o}
          /\ \A p \in Pods \ {PodOf[o]} : store'[p] = store[p]
      BY <1>5, <3>1 DEF AddNewRecord
    <3>. QED
      BY <3>1, <3>2 DEF InMemory
  <2>2. Total(InMemory \cup {o}) = Total(InMemory) + Delta[o]
    BY <1>2, <1>3, TotalAdd
  <2>3. Value' = Value + Delta[o]
    BY <1>3, <2>1, <2>2 DEF Value
  <2>. QED
    BY <1>1, <1>2, <2>3
<1>. QED
  BY <1>1, <1>2, <1>4, <1>5 DEF Operate

\* It is taken once.
LEMMA OperateTakes ==
    ASSUME StoreInv, StoreInv', NEW o \in Ops, Operate(o)
    PROVE  Count!Next
<1>1. (Value \in Int)'
  BY ValueInt, PTL
<1>2. CASE ~gone
  BY <1>2, OperateCounts DEF Count!Next, Count!Take, limits
<1>3. CASE gone
  BY <1>1, <1>3, OperateCounts DEF Count!Next, Count!Deleted
<1>. QED
  BY <1>2, <1>3

\* A fault that loses the operations S, all of them in memory, and acknowledges those in T.
LEMMA FaultMaps ==
    ASSUME NEW S \in SUBSET Taken, NEW T \in SUBSET (Ops \ Taken),
           faults' = faults + 1, Taken' = Taken \cup T,
           Value' = Value + Total(T) - Total(S), UNCHANGED <<edits, gone>>
    PROVE  Count!Next
<1>1. Count!Total(S) = Total(S) /\ Count!Total(T) = Total(T)
  BY DEF Count!Total, Count!MapThenSumSet, Count!MapThenFoldSet, Total, MapThenSumSet, MapThenFoldSet
<1>. QED
  BY <1>1 DEF Count!Next, Count!Fault

\* A statement that is reported as failed is taken, or is not, at the price of a fault.
LEMMA ExecuteFailsMaps ==
    ASSUME StoreInv, StoreInv', NEW o \in Ops, ExecuteFails(o)
    PROVE  Count!Next
<1>1. /\ stmt[o] = "open" /\ faults' = faults + 1 /\ UNCHANGED <<edits, gone, store, flushing>>
  BY DEF ExecuteFails, Fault
<1>2. InMemory' = InMemory /\ o \notin Taken
  BY <1>1 DEF InMemory, Taken
<1>3. Value \in Int /\ Total({}) = 0 /\ Delta[o] \in Int /\ db \in Int /\ Total(InMemory) \in Int
  BY ValueInt, TotalSum, SumEmpty, StoreSets, MemoryTaken, TotalInt DEF StoreInv, TypeOK
<1>4. CASE stmt' = [stmt EXCEPT ![o] = "failed"] /\ UNCHANGED db
  <2>1. Taken' = Taken \cup {}
    BY <1>1, <1>4 DEF Taken, StoreInv, TypeOK
  <2>2. Value' = Value
    BY <1>2, <1>4 DEF Value
  <2>3. Value' = Value + Total({}) - Total({})
    BY <1>3, <2>2
  <2>. QED
    BY <1>1, <2>1, <2>3, FaultMaps
<1>5. CASE stmt' = [stmt EXCEPT ![o] = "done"] /\ Change(Delta[o]) /\ ~gone
  <2>1. Taken' = Taken \cup {o}
    BY <1>1, <1>5 DEF Taken, StoreInv, TypeOK
  <2>2. Value' = Value + Delta[o]
    BY <1>2, <1>3, <1>5 DEF Value, Change
  <2>3. Total({} \cup {o}) = Total({}) + Delta[o] /\ {} \cup {o} = {o}
    BY TotalAdd
  <2>4. Total({o}) = Delta[o]
    BY <1>3, <2>3
  <2>5. Value' = Value + Total({o}) - Total({})
    BY <1>3, <2>2, <2>4
  <2>. QED
    BY <1>1, <1>2, <2>1, <2>5, FaultMaps
<1>6. CASE gone
  <2>1. (Value \in Int)'
    BY ValueInt, PTL
  <2>. QED
    BY <1>1, <1>6, <2>1 DEF Count!Next, Count!Deleted
<1>. QED
  BY <1>4, <1>5, <1>6 DEF ExecuteFails

\* What leaves the memory of a pod leaves the memory of all.
LEMMA LeavesMemory ==
    ASSUME StoreInv, NEW p \in Pods, NEW S \in SUBSET (store[p] \cup flushing[p]),
           store' \in [Pods -> SUBSET Ops], flushing' \in [Pods -> SUBSET Ops],
           store'[p] \cup flushing'[p] = (store[p] \cup flushing[p]) \ S,
           \A q \in Pods \ {p} : store'[q] = store[q] /\ flushing'[q] = flushing[q]
    PROVE  /\ InMemory' = InMemory \ S
           /\ S \subseteq InMemory
           /\ Total(InMemory') = Total(InMemory) - Total(S)
<1>1. S \subseteq InMemory /\ InMemory \in SUBSET Ops
  BY MemoryTaken DEF InMemory
<1>2. \A o \in S : \A q \in Pods \ {p} : o \notin store[q] \cup flushing[q]
  BY DEF StoreInv, InPod
<1>3. InMemory' = InMemory \ S
  BY <1>2 DEF InMemory
<1>. QED
  BY <1>1, <1>3, TotalWithout

\* A batch that is written leaves the memory.
LEMMA BatchLeaves ==
    ASSUME StoreInv, StoreInv', NEW p \in Pods, BatchWrite(p)
    PROVE  /\ flushing[p] \in SUBSET Taken
           /\ Total(InMemory') = Total(InMemory) - Total(flushing[p])
           /\ db \in Int /\ Total(InMemory) \in Int /\ Total(flushing[p]) \in Int
<1>1. store[p] \cap flushing[p] = {}
  BY DEF StoreInv, InPod
<1>2. store'[p] \cup flushing'[p] = (store[p] \cup flushing[p]) \ flushing[p]
  BY <1>1 DEF BatchWrite, StoreInv, TypeOK
<1>3. \A q \in Pods \ {p} : store'[q] = store[q] /\ flushing'[q] = flushing[q]
  BY DEF BatchWrite, StoreInv, TypeOK
<1>4. store' \in [Pods -> SUBSET Ops] /\ flushing' \in [Pods -> SUBSET Ops]
  BY DEF StoreInv, TypeOK
<1>5. flushing[p] \subseteq InMemory /\ Total(InMemory') = Total(InMemory) - Total(flushing[p])
  BY <1>2, <1>3, <1>4, LeavesMemory
<1>. QED
  BY <1>5, MemoryTaken, TotalInt DEF StoreInv, TypeOK

\* A batch that succeeds moves what is in memory to the row and changes no value.
LEMMA BatchKeeps ==
    ASSUME StoreInv, StoreInv', NEW p \in Pods, Batch(p), UNCHANGED limits, ~gone
    PROVE  Value' = Value
<1>1. CASE BatchSwap(p)
  <2>1. InMemory' = InMemory
    BY <1>1 DEF BatchSwap, SwapStore, InMemory, StoreInv, TypeOK
  <2>. QED
    BY <1>1, <2>1 DEF BatchSwap, Value
<1>2. CASE BatchWrite(p)
  <2>1. faults \in Int /\ faults' = faults
    BY StoreSets DEF StoreInv, TypeOK, limits
  <2>2. db' = db + Total(flushing[p])
    BY <1>2, <2>1 DEF BatchWrite, Change, Fault
  <2>. QED
    BY <1>2, <2>2, BatchLeaves DEF Value
<1>. QED
  BY <1>1, <1>2 DEF Batch

\* A batch moves what is in memory to the row, or loses it to a fault.
LEMMA BatchMaps ==
    ASSUME StoreInv, StoreInv', NEW p \in Pods, Batch(p)
    PROVE  Count!Next \/ UNCHANGED abstract
<1>1. Taken' = Taken /\ UNCHANGED <<edits, gone>>
  BY DEF Batch, BatchSwap, BatchWrite, Taken, limits, Fault
<1>2. CASE UNCHANGED limits /\ ~gone
  BY <1>1, <1>2, BatchKeeps DEF abstract, limits
<1>3. CASE BatchWrite(p) /\ Fault /\ UNCHANGED db
  <2>1. Value' = Value - Total(flushing[p]) /\ flushing[p] \in SUBSET Taken
    BY <1>3, BatchLeaves DEF Value
  <2>2. Value \in Int /\ Total(flushing[p]) \in Int /\ Total({}) = 0
    BY <1>3, ValueInt, BatchLeaves, TotalSum, SumEmpty
  <2>3. Value' = Value + Total({}) - Total(flushing[p])
    BY <2>1, <2>2
  <2>4. faults' = faults + 1 /\ Taken' = Taken \cup {}
    BY <1>1, <1>3 DEF Fault
  <2>. QED
    BY <1>1, <2>1, <2>3, <2>4, FaultMaps
<1>4. CASE gone
  <2>1. (Value \in Int)'
    BY ValueInt, PTL
  <2>. QED
    BY <1>1, <1>4, <2>1 DEF Count!Next, Count!Deleted
<1>. QED
  BY <1>2, <1>3, <1>4 DEF Batch, BatchSwap, BatchWrite

\* The death of a pod loses what its memory holds.
LEMMA CrashMaps ==
    ASSUME StoreInv, StoreInv', NEW p \in Pods, Crash(p)
    PROVE  Count!Next
<1> DEFINE S == store[p] \cup flushing[p]
<1>1. Taken' = Taken \cup {} /\ faults' = faults + 1 /\ UNCHANGED <<edits, gone, db>>
  BY DEF Crash, Fault, Taken, StoreInv, TypeOK
<1>2. S \subseteq InMemory /\ Total(InMemory') = Total(InMemory) - Total(S)
  <2>1. store'[p] \cup flushing'[p] = (store[p] \cup flushing[p]) \ S
    BY DEF Crash, StoreInv, TypeOK
  <2>2. \A q \in Pods \ {p} : store'[q] = store[q] /\ flushing'[q] = flushing[q]
    BY DEF Crash, StoreInv, TypeOK
  <2>3. store' \in [Pods -> SUBSET Ops] /\ flushing' \in [Pods -> SUBSET Ops]
    BY DEF StoreInv, TypeOK
  <2>. QED
    BY <2>1, <2>2, <2>3, LeavesMemory
<1>3. S \in SUBSET Taken /\ S \in SUBSET Ops /\ InMemory \in SUBSET Ops
  BY <1>2, MemoryTaken
<1> HIDE DEF S
<1>4. /\ db \in Int /\ Total(InMemory) \in Int /\ Total(S) \in Int
      /\ Total({}) = 0
  BY <1>3, TotalInt, TotalSum, SumEmpty DEF StoreInv, TypeOK
<1>5. Value' = Value + Total({}) - Total(S)
  BY <1>1, <1>2, <1>4 DEF Value
<1>. QED
  BY <1>1, <1>3, <1>5, FaultMaps

\* Every step of the store is a step of the counter, or invisible to it.
LEMMA CounterStep ==
    ASSUME StoreInv, StoreInv', [Next]_vars
    PROVE  [Count!Next]_abstract
<1>0. (Value \in Int)'
  BY ValueInt, PTL
<1>1. ASSUME NEW o \in Ops, Begin(o) PROVE UNCHANGED abstract
  <2>1. Taken' = Taken
    BY <1>1 DEF Begin, Taken, StoreInv, TypeOK
  <2>. QED
    BY <1>1, <2>1, Invisible DEF Begin
<1>2. ASSUME NEW o \in Ops, Goroutine(o) PROVE UNCHANGED abstract
  BY <1>2, Invisible DEF Goroutine, HIncrReadTTL, HIncrWrite, Taken
<1>3. ASSUME NEW r \in Readers, ReadMiss(r) \/ ReadQuota(r) \/ Answer(r) PROVE UNCHANGED abstract
  BY <1>3, Invisible DEF ReadMiss, ReadQuota, Answer, FillHash, HSetReadTTL, HSetWrite, Taken
<1>4. CASE Expire \/ EditRead \/ EditHash \/ Purge
  <2>1. UNCHANGED <<tables, limits, Taken>>
    BY <1>4 DEF Expire, EditRead, EditHash, Purge, Taken
  <2>. QED
    BY <2>1, Invisible
<1>5. CASE EditWrite
  BY <1>0, <1>5 DEF EditWrite, Taken, Count!Next, Count!Edit
<1>6. CASE Delete
  <2>1. Value' = Value /\ Taken' = Taken
    BY <1>6 DEF Delete, Value, InMemory, Taken
  <2>. QED
    BY <1>6, <2>1 DEF Delete, limits, Count!Next, Count!Delete
<1>7. CASE UNCHANGED vars
  BY <1>7, Invisible DEF vars, Taken
<1>. QED
  BY <1>1, <1>2, <1>3, <1>4, <1>5, <1>6, <1>7, OperateTakes, ExecuteFailsMaps, BatchMaps, CrashMaps
  DEF Next

\* Through IncreaseUserQuota and DecreaseUserQuota, their statements and batchUpdate alike, an
\* acknowledged change counts exactly once until a fault loses it or an edit overwrites it.
THEOREM ImplementsCounter == Spec => CountsOnce
<1>1. StoreInv /\ StoreInv' /\ [Next]_vars => [Count!Next]_abstract
  BY CounterStep
<1>2. Spec => []StoreInv
  BY InMemoryOnce, PTL
<1>. QED
  BY <1>1, <1>2, CounterInit, PTL DEF Spec, CountsOnce, Count!Spec, abstract

-----------------------------------------------------------------------------
(* The increments of the hash.                                                *)

Open == {o \in Ops : stmt[o] = "open"}
Due  == {o \in Ops : incr[o] \in {"queued", "write"}}

\* The terms of the skew are integers.
LEMMA SkewTerms ==
    ASSUME StoreInv
    PROVE  /\ Open \in SUBSET Ops /\ Due \in SUBSET Ops
           /\ Value \in Int /\ Total(Open) \in Int /\ Total(Due) \in Int /\ hash.quota \in Int
           /\ Skew = hash.quota - (Value + Total(Open) - Total(Due))
<1>1. Open \in SUBSET Ops /\ Due \in SUBSET Ops
  BY DEF Open, Due
<1>2. hash.quota \in Int
  BY DEF StoreInv, TypeOK, Hashes
<1>. QED
  BY <1>1, <1>2, ValueInt, TotalInt DEF Skew, Open, Due

\* One operation less.
LEMMA TotalLess ==
    ASSUME NEW S \in SUBSET Ops, NEW o \in S
    PROVE  Total(S \ {o}) = Total(S) - Delta[o]
<1>1. S \ {o} \in SUBSET Ops /\ o \notin S \ {o} /\ (S \ {o}) \cup {o} = S
  OBVIOUS
<1>2. Total((S \ {o}) \cup {o}) = Total(S \ {o}) + Delta[o]
  BY <1>1, TotalAdd
<1>3. Total(S) = Total(S \ {o}) + Delta[o]
  BY <1>1, <1>2
<1>4. Total(S \ {o}) \in Int /\ Total(S) \in Int /\ Delta[o] \in Int
  BY <1>1, TotalInt, StoreSets
<1>. QED
  BY <1>3, <1>4

\* The statement and the increment of an operation are owed from Begin on and paid one by one;
\* the batches move what is owed to nobody.
LEMMA DriftStep ==
    ASSUME StoreInv, StoreInv', HashInv, [Next]_vars,
           hash.kind = "full", hash'.kind = "full", ~gone', UNCHANGED <<reader, editor, limits>>
    PROVE  Skew' = Skew
<1>0. /\ Skew = hash.quota - (Value + Total(Open) - Total(Due))
      /\ Skew' = hash'.quota - (Value' + Total(Open') - Total(Due'))
      /\ Open \in SUBSET Ops /\ Due \in SUBSET Ops
      /\ Value \in Int /\ Total(Open) \in Int /\ Total(Due) \in Int /\ hash.quota \in Int
  <2>1. Skew' = hash'.quota - (Value' + Total(Open') - Total(Due'))
    BY DEF Skew, Open, Due
  <2>. QED
    BY <2>1, SkewTerms
<1>1. /\ \A o \in Ops : Delta[o] \in Int
      /\ faults \in Int /\ edits \in Int
      /\ stmt \in [Ops -> {"idle", "open", "done", "failed"}]
      /\ incr \in [Ops -> {"idle", "queued", "write", "done"}]
  BY StoreSets DEF StoreInv, TypeOK
<1>2. ASSUME UNCHANGED <<tables, hash, stmt, incr>> PROVE Skew' = Skew
  BY <1>2 DEF Skew, Value, InMemory, tables
<1>3. ASSUME NEW o \in Ops, Begin(o) PROVE Skew' = Skew
  <2>1. incr[o] = "idle"
    BY <1>3 DEF Begin, StoreInv, Started
  <2>2. /\ o \notin Open /\ Open' = Open \cup {o}
        /\ o \notin Due /\ Due' = Due \cup {o}
    BY <1>1, <1>3, <2>1 DEF Begin, Open, Due
  <2>3. Total(Open') = Total(Open) + Delta[o] /\ Total(Due') = Total(Due) + Delta[o]
    BY <1>0, <2>2, TotalAdd
  <2>4. Value' = Value /\ hash' = hash
    BY <1>3 DEF Begin, Value, InMemory, tables
  <2>. QED
    BY <1>0, <1>1, <2>3, <2>4
<1>4. ASSUME NEW o \in Ops, Operate(o) PROVE Skew' = Skew
  <2>1. o \in Open /\ Open' = Open \ {o} /\ Due' = Due /\ hash' = hash /\ ~gone
    BY <1>1, <1>4 DEF Operate, Execute, AddNewRecord, Open, Due
  <2>2. Value' = Value + Delta[o]
    BY <1>4, <2>1, OperateCounts
  <2>3. Total(Open') = Total(Open) - Delta[o]
    BY <1>0, <2>1, TotalLess
  <2>. QED
    BY <1>0, <1>1, <2>1, <2>2, <2>3
<1>5. ASSUME NEW o \in Ops, ExecuteFails(o) PROVE FALSE
  BY <1>1, <1>5 DEF ExecuteFails, Fault, limits
<1>6. ASSUME NEW o \in Ops, HIncrReadTTL(o) PROVE Skew' = Skew
  <2>1. Due' = Due
    BY <1>1, <1>6 DEF HIncrReadTTL, Due, HashInv
  <2>2. Value' = Value /\ hash' = hash /\ Open' = Open
    BY <1>6 DEF HIncrReadTTL, Value, InMemory, Open, tables
  <2>. QED
    BY <1>0, <2>1, <2>2
<1>7. ASSUME NEW o \in Ops, HIncrWrite(o) PROVE Skew' = Skew
  <2>1. o \in Due /\ Due' = Due \ {o}
    BY <1>1, <1>7 DEF HIncrWrite, Due
  <2>2. Value' = Value /\ Open' = Open
    BY <1>7 DEF HIncrWrite, Value, InMemory, Open, tables
  <2>3. hash'.quota = hash.quota + Delta[o]
    <3>1. hash \in Hashes /\ hash.quota + Delta[o] \in Int
      BY <1>0, <1>1 DEF StoreInv, TypeOK
    <3>. QED
      BY <1>7, <3>1, FieldWritten DEF HIncrWrite, Incremented
  <2>4. Total(Due') = Total(Due) - Delta[o]
    BY <1>0, <2>1, TotalLess
  <2>. QED
    BY <1>0, <1>1, <2>2, <2>3, <2>4
<1>8. ASSUME NEW p \in Pods, Batch(p) PROVE Skew' = Skew
  <2>1. UNCHANGED <<hash, stmt, incr, gone>>
    BY <1>8 DEF Batch, BatchSwap, BatchWrite
  <2>2. Value' = Value
    BY <1>8, <2>1, BatchKeeps
  <2>. QED
    BY <2>1, <2>2 DEF Skew
<1>9. ASSUME NEW p \in Pods, Crash(p) PROVE FALSE
  BY <1>1, <1>9 DEF Crash, Fault, limits
<1>10. ASSUME NEW r \in Readers, ReadMiss(r) \/ ReadQuota(r) \/ Answer(r) PROVE Skew' = Skew
  <2>1. reader[r].pc # reader'[r].pc
    BY <1>10, NoReadIs DEF ReadMiss, ReadQuota, Answer, FillHash, HSetReadTTL, HSetWrite,
                           StoreInv, TypeOK
  <2>. QED
    BY <2>1
<1>11. ASSUME EditRead \/ EditWrite \/ EditHash \/ Delete PROVE FALSE
  BY <1>1, <1>11, NoReadIs DEF EditRead, EditWrite, EditHash, Delete, limits
<1>12. ASSUME Expire \/ Purge PROVE FALSE
  BY <1>12, NoHashIs DEF Expire, Purge
<1>13. CASE UNCHANGED vars
  BY <1>2, <1>13 DEF vars
<1>. QED
  BY <1>3, <1>4, <1>5, <1>6, <1>7, <1>8, <1>9, <1>10, <1>11, <1>12, <1>13 DEF Next, Goroutine

\* However the goroutines of RedisHIncrBy, the statements and the batches interleave, a complete
\* hash drifts from the quota only at a refill, an edit, a fault or the deletion.
THEOREM NoDrift == Spec => DriftOnlyAtRefill
<1>1. StoreInv /\ StoreInv' /\ HashInv /\ [Next]_vars
         => (hash.kind = "full" /\ hash'.kind = "full" /\ ~gone' /\ UNCHANGED <<reader, editor, limits>>
               => Skew' = Skew)
  BY DriftStep
<1>. QED
  BY <1>1, InMemoryOnce, PTL DEF Spec, DriftOnlyAtRefill
=============================================================================
