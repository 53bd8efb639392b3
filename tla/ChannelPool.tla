----------------------------- MODULE ChannelPool -----------------------------
(***************************************************************************)
(* The status of an OpenRouter channel and of the keys in its pool: the    *)
(* row in the database, and the copy in the memory of one relay pod, which *)
(* a ticker refreshes and from which the pod selects.                      *)
(*                                                                         *)
(* Three kinds of writers read the row, change their copy and write it     *)
(* back: the goroutines of failed requests on the relay pod (one at a      *)
(* time, under channelStatusLock), the reaper of the master, and the       *)
(* administrators, served by another pod.  Nothing orders the three, and   *)
(* SaveWithoutKey writes every column except the keys themselves, so a     *)
(* write can undo what another one did since its read.  lost records that. *)
(*                                                                         *)
(* A key's status and cooldown are stored by its position in the list,     *)
(* where the same key may stand twice.                                     *)
(***************************************************************************)
EXTENDS Integers, Sequences, FiniteSets, SequencesExt

CONSTANTS
    Keys,             \* every key an administrator may put in the pool
    InitPools,        \* the pools a channel may begin with, sequences of keys
    Handlers,         \* the failures of requests
    MaxKeys,          \* the longest list of keys an administrator saves
    MaxTime, MaxEdits

Positions == 1..MaxKeys
Pools     == UNION {[1..n -> Keys] : n \in Positions}
NoKey     == "no key"

ASSUME PoolSets ==
    /\ InitPools \subseteq Pools /\ NoKey \notin Keys
    /\ MaxKeys \in Nat /\ MaxTime \in Nat /\ MaxEdits \in Nat

VARIABLES
    db,               \* the row of the channel
    cache, listed,    \* the pod's copy of the row, and whether it is selected from
    snapshot,         \* the row as InitChannelCache has read it
    task,             \* handler -> its goroutine: what it does, to which key
    reaper, admin,    \* the same for the reaper and for an administrator
    now, edits,
    failed, lost, orphan,  \* history: failed keys, writes undone, positions misread,
    barred                 \* and the positions of keys disabled by an administrator

history == <<failed, lost, orphan, barred>>
vars == <<db, cache, listed, snapshot, task, reaper, admin, now, edits, history>>

AllOn == [i \in Positions |-> "on"]
NoCool == [i \in Positions |-> 0]
NoRow == [status |-> "none"]
Unused == [pc |-> "idle", op |-> "none", key |-> NoKey, until |-> 0, row |-> NoRow]
Ended == [Unused EXCEPT !.pc = "done"]
Idle == [pc |-> "idle", row |-> NoRow]

Init ==
    /\ \E pool \in InitPools :
          db = [status |-> "on", keys |-> pool, size |-> Len(pool), st |-> AllOn, cool |-> NoCool]
    /\ cache = db /\ listed = TRUE /\ snapshot = NoRow
    /\ task = [h \in Handlers |-> Unused]
    /\ reaper = Idle /\ admin = Idle
    /\ now = 1 /\ edits = 0
    /\ failed = {} /\ lost = FALSE /\ orphan = FALSE /\ barred = {}

-----------------------------------------------------------------------------
(* Changes of one copy of the row.                                          *)

Down(r)    == {i \in Positions : r.st[i] # "on"}     \* len(MultiKeyStatusList)
Enabled(r) == {i \in 1..Len(r.keys) : r.st[i] = "on"}
Has(r, k)  == \E i \in 1..Len(r.keys) : r.keys[i] = k
Index(r, k) == CHOOSE i \in 1..Len(r.keys) : r.keys[i] = k /\ \A j \in 1..i-1 : r.keys[j] # k

\* The channel goes down with its last key.
CloseIfAllDown(r) == IF Cardinality(Down(r)) >= r.size THEN [r EXCEPT !.status = "auto"] ELSE r

\* The search loop leaves the position at the first one when the key is not there.
IndexOrFirst(r, k) == IF Has(r, k) THEN Index(r, k) ELSE 1

HandlerMultiKeyUpdate(r, k, status) ==
    CloseIfAllDown([r EXCEPT !.st[IndexOrFirst(r, k)] = status])

\* Mutant of ApplyCooldown: an unknown key cools the first one.
CoolFirst(r, k, until) ==
    CloseIfAllDown([r EXCEPT !.st[IndexOrFirst(r, k)] = "auto", !.cool[IndexOrFirst(r, k)] = until])

ApplyCooldown(r, k, until) ==
    IF Has(r, k)
    THEN CloseIfAllDown([r EXCEPT !.st[Index(r, k)] = "auto", !.cool[Index(r, k)] = until])
    ELSE r

Change(r, t) ==
    CASE t.op = "ban"    -> HandlerMultiKeyUpdate(r, t.key, "auto")
      [] t.op = "enable" -> HandlerMultiKeyUpdate(r, t.key, "on")
      [] t.op = "cool"   -> ApplyCooldown(r, t.key, t.until)

SaveWithoutKey(r) == db' = [r EXCEPT !.keys = db.keys]
Undoes(read)      == lost' = (lost \/ read # db)

-----------------------------------------------------------------------------
(* Requests.  On the first attempt the channel comes from the context,      *)
(* without its key information: a missing key is not noticed there, and a   *)
(* rate limit does not look like one of a pool.                             *)

Queue(h, op, k) ==
    /\ task[h].pc = "idle"
    /\ task' = [task EXCEPT ![h] = [pc |-> "queued", op |-> op, key |-> k,
                                   until |-> IF op = "cool" THEN now + 1 ELSE 0, row |-> NoRow]]
    /\ failed' = IF op = "enable" THEN failed ELSE failed \cup ({k} \ {NoKey})
    /\ UNCHANGED <<db, cache, listed, snapshot, reaper, admin, now, edits, lost, orphan, barred>>

Unauthorized(h) == listed /\ \E i \in Enabled(cache) : Queue(h, "ban", cache.keys[i])
SentWithoutKey(h) == listed /\ Enabled(cache) = {} /\ Queue(h, "ban", NoKey)
RateLimited(h)  == listed /\ \E i \in Enabled(cache) : Queue(h, "cool", cache.keys[i])
\* testAllChannels, on a channel that is disabled automatically and answers.
TestSucceeds(h) == db.status = "auto" /\ \E i \in Enabled(db) : Queue(h, "enable", db.keys[i])

\* channelStatusLock is held from the change of the cache to the end.
Locked == \E h \in Handlers : task[h].pc = "save"

Target(t) == IF t.op = "enable" THEN "on" ELSE "auto"

\* The change of the cache and the read of the row that follows it: nobody else sees
\* both.  UpdateChannelStatus returns when the channel has the status already.
UpdateCache(h) ==
    LET t == task[h] IN
    /\ t.pc = "queued" /\ ~Locked
    /\ cache' = Change(cache, t)
    /\ task' = [task EXCEPT ![h] = IF t.op # "cool" /\ db.status = Target(t)
                                   THEN Ended ELSE [t EXCEPT !.pc = "save", !.row = db]]
    /\ UNCHANGED <<db, listed, snapshot, reaper, admin, now, edits, history>>

\* The position the goroutine enables, or disables for a time.
Freed(t) ==
    CASE t.op = "ban"    -> {}
      [] t.op = "enable" -> {IndexOrFirst(t.row, t.key)}
      [] t.op = "cool"   -> IF Has(t.row, t.key) THEN {Index(t.row, t.key)} ELSE {}

SaveRow(h) ==
    LET t == task[h] IN
        /\ t.pc = "save"
        /\ SaveWithoutKey(Change(t.row, t))
        /\ Undoes(t.row)
        /\ orphan' = (orphan \/ (t.op # "cool" /\ ~Has(t.row, t.key)))
        /\ barred' = barred \ Freed(t)
        /\ task' = [task EXCEPT ![h] = Ended]
        /\ UNCHANGED <<cache, listed, snapshot, reaper, admin, now, edits, failed>>

-----------------------------------------------------------------------------
(* The reaper (ReapOnce).                                                   *)

\* Mutant of Expired: the second of the deadline itself does not count.
ExpiredLate(r) == {i \in Positions : r.cool[i] > 0 /\ now > r.cool[i]}

\* Mutant of Expired: a key without a deadline counts as expired.
ExpiredOrNone(r) == {i \in Positions : now >= r.cool[i]}

Expired(r) == {i \in Positions : r.cool[i] > 0 /\ now >= r.cool[i]}

Recovered(r) ==
    LET c == [r EXCEPT !.st = [i \in Positions |-> IF i \in Expired(r) THEN "on" ELSE @[i]],
                       !.cool = [i \in Positions |-> IF i \in Expired(r) THEN 0 ELSE @[i]]]
    IN  IF c.status = "auto" /\ Cardinality(Down(c)) < c.size THEN [c EXCEPT !.status = "on"] ELSE c

ReapRead ==
    /\ reaper.pc = "idle" /\ Expired(db) # {}
    /\ reaper' = [pc |-> "save", row |-> db]
    /\ UNCHANGED <<db, cache, listed, snapshot, task, admin, now, edits, history>>

ReapSave ==
    /\ reaper.pc = "save"
    /\ SaveWithoutKey(Recovered(reaper.row))
    /\ Undoes(reaper.row)
    /\ reaper' = Idle
    /\ UNCHANGED <<cache, listed, snapshot, task, admin, now, edits, failed, orphan, barred>>

-----------------------------------------------------------------------------
(* Administrators: ManageMultiKeys and UpdateChannel.                       *)

\* The n-th smallest of some positions.
Nth(kept, n) == CHOOSE i \in kept : Cardinality({j \in kept : j <= i}) = n

\* The statuses of the remaining positions move with their keys, the cooldowns stay.
Without(r, gone) ==
    LET kept == (1..Len(r.keys)) \ gone
        size == Cardinality(kept)
    IN  [r EXCEPT !.keys = [n \in 1..size |-> r.keys[Nth(kept, n)]],
                  !.size = size,
                  !.st = [n \in Positions |-> IF n <= size THEN r.st[Nth(kept, n)] ELSE "on"]]

AutoOff(r) == {i \in DOMAIN r.keys : r.st[i] = "auto"}

\* ManageMultiKeys: disable_key, enable_key, enable_all_keys, disable_all_keys,
\* delete_key (never the last one) and delete_disabled_keys.
Managed(r) ==
         {[r EXCEPT !.st[i] = "manual"] : i \in 1..r.size}
    \cup {[r EXCEPT !.st[i] = "on"] : i \in 1..r.size}
    \cup {[r EXCEPT !.st = AllOn]}
    \cup {[r EXCEPT !.st = [i \in Positions |-> IF i <= r.size /\ @[i] = "on" THEN "manual" ELSE @[i]]]}
    \cup {Without(r, {i}) : i \in IF Len(r.keys) > 1 THEN DOMAIN r.keys ELSE {}}
    \cup (IF AutoOff(r) = {} THEN {} ELSE {Without(r, AutoOff(r))})

\* UpdateChannel: any keys may follow the list (key_mode append) or take its place
\* (replace), whichever it holds; the statuses stay where they are.  The form may leave
\* out the keys, and it may leave out the status of the channel.
Appended(r) == {keys \in {r.keys \o new : new \in Pools} : Len(keys) <= MaxKeys}

Lists(r) == {<< >>} \cup Appended(r) \cup Pools

\* Channel.Update: an empty list of keys is not written, the one in the database stays;
\* the keys are counted again and the statuses beyond them dropped.
Counted(r) ==
    LET keys == IF r.keys = << >> THEN db.keys ELSE r.keys
    IN  [r EXCEPT !.keys = keys, !.size = Len(keys),
                  !.st = [i \in Positions |-> IF i <= Len(keys) THEN @[i] ELSE "on"]]

\* Another key now stands where one was disabled automatically.
Shifted(old, new) ==
    \E i \in DOMAIN new.keys :
        new.st[i] = "auto" /\ (i \in DOMAIN old.keys => new.keys[i] # old.keys[i])

AdminRead ==
    /\ admin.pc = "idle" /\ edits < MaxEdits
    /\ edits' = edits + 1
    /\ admin' = [pc |-> "write", row |-> db]
    /\ UNCHANGED <<db, cache, listed, snapshot, task, reaper, now, history>>

AdminWrite ==
    /\ admin.pc = "write"
    /\ \/ /\ \E r \in Managed(admin.row) : db' = Counted(r)
          /\ UNCHANGED orphan
       \/ /\ \E keys \in Lists(admin.row), s \in {db.status, "on", "manual"} :
                db' = Counted([admin.row EXCEPT !.keys = keys, !.status = s])
          /\ orphan' = (orphan \/ Shifted(admin.row, db'))
    /\ Undoes(admin.row)
    /\ barred' = {i \in DOMAIN db'.keys : db'.st[i] = "manual" /\ db'.cool[i] = 0}
    /\ admin' = Idle
    /\ UNCHANGED <<cache, listed, snapshot, task, reaper, now, edits, failed>>

-----------------------------------------------------------------------------
(* The ticker of the pod's cache, and time.                                 *)

SyncRead ==
    /\ snapshot = NoRow
    /\ snapshot' = db
    /\ UNCHANGED <<db, cache, listed, task, reaper, admin, now, edits, history>>

\* Mutant of Refresh: a channel the pod has already is not replaced.
RefreshList == listed' = (snapshot.status = "on") /\ UNCHANGED cache

Refresh == listed' = (snapshot.status = "on") /\ cache' = snapshot

SyncSwap ==
    /\ snapshot # NoRow
    /\ Refresh
    /\ snapshot' = NoRow
    /\ UNCHANGED <<db, task, reaper, admin, now, edits, history>>

Tick ==
    /\ now < MaxTime
    /\ now' = now + 1
    /\ UNCHANGED <<db, cache, listed, snapshot, task, reaper, admin, edits, history>>

-----------------------------------------------------------------------------

Fail(h)   == Unauthorized(h) \/ SentWithoutKey(h) \/ RateLimited(h) \/ TestSucceeds(h)
Handle(h) == UpdateCache(h) \/ SaveRow(h)
Reap      == ReapRead \/ ReapSave
Sync      == SyncRead \/ SyncSwap

Next == (\E h \in Handlers : Fail(h) \/ Handle(h)) \/ Reap \/ AdminRead \/ AdminWrite \/ Sync \/ Tick

Spec ==
    /\ Init /\ [][Next]_vars
    /\ \A h \in Handlers : WF_vars(Handle(h))
    /\ WF_vars(Reap) /\ WF_vars(AdminWrite) /\ WF_vars(Sync)

-----------------------------------------------------------------------------
(* Properties.                                                              *)

\* A key is only disabled automatically when a request failed with it, unless a write
\* undid another one, a key no longer in the pool was banned, or a form put another key
\* at the position of a disabled one.  Deleting keys does not shift the blame.
BlameOnlyFailed ==
    \A i \in DOMAIN db.keys : db.st[i] = "auto" => db.keys[i] \in failed \/ lost \/ orphan

\* A key an administrator has left disabled, with no cooldown pending, is not given back
\* by the reaper, by a failing request or by the two together, until the next edit.
\* Excluded are a concurrent write that undoes the edit, a test that answers with the
\* key or with one no longer in the pool, and a rate limit: a 429 of a request that was
\* in flight when the key was disabled puts a deadline on it, and the reaper enables it.
ManualSticks == \A i \in barred : db.st[i] # "on" \/ lost

\* Once no more request fails and no more edit is made, no cooldown outlives its
\* deadline: what a late write restores, the next round of the reaper clears.
ReaperDrains == <>[](\A i \in Positions : db.cool[i] > 0 => now < db.cool[i])

\* Once the row has come to rest, the pod selects from the row as it is: a cache
\* filled from an older read does not last.
CacheConverges == <>[](cache = db /\ listed = (db.status = "on"))
=============================================================================
