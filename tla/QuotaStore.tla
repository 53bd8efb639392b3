----------------------------- MODULE QuotaStore -----------------------------
(***************************************************************************)
(* The quota of one row, a user or a token, in its three places: the       *)
(* database, the hash in Redis and, with batch updates, the stores in the  *)
(* memory of the pods.  An operation is one call of Increase- or           *)
(* DecreaseUserQuota (or of the token functions): it hands the increment   *)
(* of the hash to a goroutine and executes its statement, or leaves it to  *)
(* the pod's next batch; neither waits for the other.                      *)
(*                                                                         *)
(* The hash is filled from database reads, by a goroutine as well, and     *)
(* overwritten by the edits of the row.  RedisHIncrBy and RedisHSetField   *)
(* read the TTL and then write the field with that TTL: a hash that        *)
(* expired or was deleted in between comes back with this field alone.     *)
(***************************************************************************)
EXTENDS Integers, FiniteSets, FiniteSetsExt

CONSTANTS
    Ops, Delta,      \* the operations and the signed change of each
    Direct,          \* the operations called with db = true
    Pods, PodOf,     \* the pod that serves each operation
    Readers,         \* goroutines that read the row to fill the hash
    IsToken,         \* the row is a token, not a user
    Start,           \* the quota at the beginning
    NewQuotas,       \* the quotas an administrator writes
    MaxFaults, MaxEdits

ASSUME StoreSets ==
    /\ IsFiniteSet(Ops) /\ Delta \in [Ops -> Int] /\ PodOf \in [Ops -> Pods] /\ Direct \subseteq Ops
    /\ IsToken \in BOOLEAN /\ Start \in Int /\ NewQuotas \subseteq Int
    /\ MaxFaults \in Nat /\ MaxEdits \in Nat

VARIABLES
    batching,         \* BatchUpdateEnabled
    db,               \* the quota column
    gone,             \* the row has been deleted
    hash,             \* the hash in Redis
    stmt,             \* operation -> progress of its change
    incr,             \* operation -> progress of its goroutine, RedisHIncrBy
    store, flushing,  \* pod -> operations summed up in its store, in the batch being written
    reader,           \* reader -> what it has read and is about to write
    editor, purge,    \* the edit of the row, the deletion of the hash
    faults, edits

tables == <<db, gone, store, flushing>>
limits == <<faults, edits>>
vars == <<batching, tables, hash, stmt, incr, reader, editor, purge, limits>>

Total(S)  == MapThenSumSet(LAMBDA o : Delta[o], S)
Hashes    == [kind : {"none", "full", "partial"}, quota : Int, ttl : BOOLEAN]
NoHash    == [kind |-> "none", quota |-> 0, ttl |-> FALSE]
Full(q)   == [kind |-> "full", quota |-> q, ttl |-> TRUE]
NoRead    == [pc |-> "idle", quota |-> 0]
InMemory  == UNION {store[p] \cup flushing[p] : p \in Pods}
Taken     == {o \in Ops : stmt[o] = "done"}
Value     == db + Total(InMemory)

Init ==
    /\ batching \in BOOLEAN
    /\ db = Start /\ gone = FALSE /\ hash \in {NoHash, Full(Start)}
    /\ stmt = [o \in Ops |-> "idle"]
    /\ incr = [o \in Ops |-> "idle"]
    /\ store = [p \in Pods |-> {}]
    /\ flushing = [p \in Pods |-> {}]
    /\ reader = [r \in Readers |-> NoRead]
    /\ editor = NoRead /\ purge = "idle"
    /\ faults = 0 /\ edits = 0

Fault == faults < MaxFaults /\ faults' = faults + 1 /\ UNCHANGED edits

-----------------------------------------------------------------------------
(* IncreaseUserQuota, DecreaseUserQuota and the functions of tokens.        *)

Begin(o) ==
    /\ stmt[o] = "idle" /\ ~gone
    /\ stmt' = [stmt EXCEPT ![o] = "open"]
    /\ incr' = [incr EXCEPT ![o] = "queued"]
    /\ UNCHANGED <<batching, tables, hash, reader, editor, purge, limits>>

Batched(o) == batching /\ o \notin Direct

\* The statement names the row by its id and changes nothing once it is deleted.
Change(d) == db' = IF gone THEN db ELSE db + d

Execute(o) ==
    /\ stmt[o] = "open" /\ ~Batched(o)
    /\ Change(Delta[o])
    /\ stmt' = [stmt EXCEPT ![o] = "done"]
    /\ UNCHANGED <<batching, gone, store, flushing, hash, incr, reader, editor, purge, limits>>

\* The statement fails, or is executed and reported as failed.
ExecuteFails(o) ==
    /\ stmt[o] = "open" /\ ~Batched(o)
    /\ Fault
    /\ \/ stmt' = [stmt EXCEPT ![o] = "failed"] /\ UNCHANGED db
       \/ stmt' = [stmt EXCEPT ![o] = "done"] /\ Change(Delta[o])
    /\ UNCHANGED <<batching, gone, store, flushing, hash, incr, reader, editor, purge>>

AddNewRecord(o) ==
    /\ stmt[o] = "open" /\ Batched(o)
    /\ store' = [store EXCEPT ![PodOf[o]] = @ \cup {o}]
    /\ stmt' = [stmt EXCEPT ![o] = "done"]
    /\ UNCHANGED <<batching, db, gone, flushing, hash, incr, reader, editor, purge, limits>>

\* Mutant of SwapStore: the statement is built from the store, emptied after it.
KeepStore(p) == flushing' = [flushing EXCEPT ![p] = store[p]] /\ UNCHANGED store

SwapStore(p) ==
    /\ flushing' = [flushing EXCEPT ![p] = store[p]]
    /\ store' = [store EXCEPT ![p] = {}]

BatchSwap(p) ==
    /\ store[p] # {} /\ flushing[p] = {}
    /\ SwapStore(p)
    /\ UNCHANGED <<batching, db, gone, hash, stmt, incr, reader, editor, purge, limits>>

\* A failed statement is only logged: its sum is lost.
BatchWrite(p) ==
    /\ flushing[p] # {}
    /\ flushing' = [flushing EXCEPT ![p] = {}]
    /\ \/ Change(Total(flushing[p])) /\ UNCHANGED limits
       \/ Fault /\ UNCHANGED db
    /\ UNCHANGED <<batching, gone, store, hash, stmt, incr, reader, editor, purge>>

-----------------------------------------------------------------------------
(* The hash.                                                                *)

\* TTL first: nothing is written to a hash that is not there (or has no TTL).
HIncrReadTTL(o) ==
    /\ incr[o] = "queued"
    /\ incr' = [incr EXCEPT ![o] = IF hash.ttl THEN "write" ELSE "done"]
    /\ UNCHANGED <<batching, tables, hash, stmt, reader, editor, purge, limits>>

\* Mutant of Restored: the TTL is not set again.
KeepTTL(h) == [h EXCEPT !.ttl = hash.ttl]

\* Expire in the same transaction as the field.
Restored(h) == [h EXCEPT !.ttl = TRUE]

\* The field, in the hash that is there or in a new one that has no other.
WithField(q) == Restored([hash EXCEPT !.kind = IF @ = "full" THEN "full" ELSE "partial",
                                      !.quota = q])

\* Mutant of Incremented: a decrease of the quota increases the hash.
AddMagnitude(o) == IF Delta[o] < 0 THEN -Delta[o] ELSE Delta[o]

Incremented(o) == Delta[o]

HIncrWrite(o) ==
    /\ incr[o] = "write"
    /\ incr' = [incr EXCEPT ![o] = "done"]
    /\ hash' = WithField(hash.quota + Incremented(o))
    /\ UNCHANGED <<batching, tables, stmt, reader, editor, purge, limits>>

\* GetUserCache, GetTokenByKey: a miss reads the row and fills the hash later.
ReadMiss(r) ==
    /\ reader[r].pc = "idle" /\ hash.kind = "none" /\ ~gone
    /\ reader' = [reader EXCEPT ![r] = [pc |-> "fill", quota |-> db]]
    /\ UNCHANGED <<batching, tables, hash, stmt, incr, editor, purge, limits>>

\* RedisHSetObj writes every field and the TTL.
FillHash(r) ==
    /\ reader[r].pc = "fill"
    /\ hash' = Full(reader[r].quota)
    /\ reader' = [reader EXCEPT ![r] = NoRead]
    /\ UNCHANGED <<batching, tables, stmt, incr, editor, purge, limits>>

\* GetUserQuota with fromDB: the column is read, the field of the hash set later.
ReadQuota(r) ==
    /\ reader[r].pc = "idle" /\ ~IsToken /\ ~gone
    /\ reader' = [reader EXCEPT ![r] = [pc |-> "ttl", quota |-> db]]
    /\ UNCHANGED <<batching, tables, hash, stmt, incr, editor, purge, limits>>

HSetReadTTL(r) ==
    /\ reader[r].pc = "ttl"
    /\ reader' = [reader EXCEPT ![r] = IF hash.ttl THEN [@ EXCEPT !.pc = "field"] ELSE NoRead]
    /\ UNCHANGED <<batching, tables, hash, stmt, incr, editor, purge, limits>>

HSetWrite(r) ==
    /\ reader[r].pc = "field"
    /\ hash' = WithField(reader[r].quota)
    /\ reader' = [reader EXCEPT ![r] = NoRead]
    /\ UNCHANGED <<batching, tables, stmt, incr, editor, purge, limits>>

Expire ==
    /\ hash.ttl
    /\ hash' = NoHash
    /\ UNCHANGED <<batching, tables, stmt, incr, reader, editor, purge, limits>>

-----------------------------------------------------------------------------
(* Edits of the row.  A user's settings are changed by writing back every   *)
(* non-zero column that was read, the quota included; an administrator's    *)
(* form and a token's form write the quota they carry.                      *)

EditRead ==
    /\ editor.pc = "idle" /\ edits < MaxEdits /\ ~gone
    /\ editor' = [pc |-> "write", quota |-> db]
    /\ UNCHANGED <<batching, tables, hash, stmt, incr, reader, purge, limits>>

WriteBack == IF editor.quota = 0 /\ ~IsToken THEN {db} ELSE {editor.quota}

EditWrite ==
    /\ editor.pc = "write"
    /\ edits' = edits + 1
    /\ \/ gone /\ editor' = NoRead /\ UNCHANGED db
       \/ ~gone /\ \E q \in WriteBack \cup NewQuotas :
             db' = q /\ editor' = [pc |-> "hash", quota |-> q]
    /\ UNCHANGED <<batching, gone, store, flushing, hash, stmt, incr, reader, purge, faults>>

EditHash ==
    /\ editor.pc = "hash"
    /\ hash' = Full(editor.quota)
    /\ editor' = NoRead
    /\ UNCHANGED <<batching, tables, stmt, incr, reader, purge, limits>>

Delete ==
    /\ ~gone
    /\ gone' = TRUE
    /\ purge' = "queued"
    /\ UNCHANGED <<batching, db, store, flushing, hash, stmt, incr, reader, editor, limits>>

Purge ==
    /\ purge = "queued"
    /\ purge' = "done"
    /\ hash' = NoHash
    /\ UNCHANGED <<batching, tables, stmt, incr, reader, editor, limits>>

-----------------------------------------------------------------------------

\* A pod dies with its stores, its open statements and its goroutines.
Crash(p) ==
    /\ Fault
    /\ store' = [store EXCEPT ![p] = {}]
    /\ flushing' = [flushing EXCEPT ![p] = {}]
    /\ stmt' = [o \in Ops |-> IF PodOf[o] = p /\ stmt[o] = "open" THEN "failed" ELSE stmt[o]]
    /\ incr' = [o \in Ops |-> IF PodOf[o] = p /\ stmt[o] # "idle" THEN "done" ELSE incr[o]]
    /\ UNCHANGED <<batching, db, gone, hash, reader, editor, purge>>

Operate(o) == Execute(o) \/ AddNewRecord(o)
Goroutine(o) == HIncrReadTTL(o) \/ HIncrWrite(o)
Batch(p)   == BatchSwap(p) \/ BatchWrite(p)
Answer(r)  == FillHash(r) \/ HSetReadTTL(r) \/ HSetWrite(r)

Next ==
    \/ \E o \in Ops : Begin(o) \/ Operate(o) \/ ExecuteFails(o) \/ Goroutine(o)
    \/ \E p \in Pods : Batch(p) \/ Crash(p)
    \/ \E r \in Readers : ReadMiss(r) \/ ReadQuota(r) \/ Answer(r)
    \/ Expire \/ EditRead \/ EditWrite \/ EditHash \/ Delete \/ Purge

Spec == Init /\ [][Next]_vars

FairSpec ==
    /\ Spec
    /\ \A o \in Ops : WF_vars(Operate(o)) /\ WF_vars(Goroutine(o))
    /\ \A p \in Pods : WF_vars(Batch(p))
    /\ \A r \in Readers : WF_vars(Answer(r))
    /\ WF_vars(EditWrite) /\ WF_vars(EditHash) /\ WF_vars(Purge) /\ WF_vars(Expire)

-----------------------------------------------------------------------------
(* Properties.                                                              *)

\* The state is well typed.
TypeOK ==
    /\ batching \in BOOLEAN /\ db \in Int /\ gone \in BOOLEAN
    /\ hash \in Hashes
    /\ stmt \in [Ops -> {"idle", "open", "done", "failed"}]
    /\ incr \in [Ops -> {"idle", "queued", "write", "done"}]
    /\ store \in [Pods -> SUBSET Ops] /\ flushing \in [Pods -> SUBSET Ops]
    /\ reader \in [Readers -> [pc : {"idle", "fill", "ttl", "field"}, quota : Int]]
    /\ editor \in [pc : {"idle", "write", "hash"}, quota : Int]
    /\ purge \in {"idle", "queued", "done"}
    /\ faults \in 0..MaxFaults /\ edits \in 0..MaxEdits

\* Through statements and batches alike, the quota implements Counter: every
\* acknowledged change counts once until a fault loses it or an edit overwrites it.
Count == INSTANCE Counter WITH value <- Value, taken <- Taken
CountsOnce == Count!Spec

\* How far the hash is from the quota it will show when the open statements and
\* the queued increments have been executed.
Skew == hash.quota - (Value + Total({o \in Ops : stmt[o] = "open"})
                            - Total({o \in Ops : incr[o] \in {"queued", "write"}}))

\* The goroutines of RedisHIncrBy never make a complete hash drift from the quota,
\* whatever their order: only a refill, an edit, a fault or the deletion can.
DriftOnlyAtRefill ==
    [][hash.kind = "full" /\ hash'.kind = "full" /\ ~gone' /\ UNCHANGED <<reader, editor, limits>>
          => Skew' = Skew]_vars

\* A stale hash does not survive: once the operations are over, Redis shows the
\* quota of the database or nothing, and no complete hash of a deleted row (a late
\* refill can bring one back) stays.
EventuallyFresh ==
    <>[](IF gone THEN hash.kind # "full" ELSE hash.kind = "none" \/ hash.quota = db)
=============================================================================
