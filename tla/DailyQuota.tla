----------------------------- MODULE DailyQuota -----------------------------
(***************************************************************************)
(* The daily quota of one user who has a base and a fallback group.        *)
(* PostConsumeDailyQuota counts what a request consumes and moves the user *)
(* to the fallback group once the day's quota is used up; every minute a   *)
(* cron job in every pod resets the counter of the users whose last reset  *)
(* lies before midnight (UTC) and moves them back.  Both decide on a row   *)
(* they read with a statement of its own.  The handlers of the user's own  *)
(* settings write back every column that was not zero when they read it,   *)
(* these three among them.                                                 *)
(*                                                                         *)
(* left is what daily_used leaves of daily_quota, at least 0; lastReset    *)
(* tells whether last_daily_reset is 0, or lies before or in this day.     *)
(* The cached copies of these columns are not modelled: nothing here reads *)
(* them.                                                                   *)
(***************************************************************************)
EXTENDS Integers

CONSTANTS
    Pods,
    Requests,
    Amounts,      \* what a request may add to the counter
    DailyQuota,
    MaxFaults,    \* bound: failing statements and dying pods
    MaxWrites      \* bound: how often a handler writes the group or the whole row

ASSUME DailyBounds ==
    /\ DailyQuota \in Nat \ {0} /\ Amounts \subseteq Nat \ {0}
    /\ MaxFaults \in Nat /\ MaxWrites \in Nat

Groups == {"base", "fallback"}
Times  == {"never", "before", "today"}

VARIABLES
    left, lastReset, group,   \* the row
    cron,                 \* where the job of each pod is
    req,                  \* where the post-consumption of each request is
    copy,                 \* the row as a handler of the user's settings has read it
    faults, writes,
    overtaken,            \* history: the requests whose exhaustion a reset has overtaken
    excused,              \* history: since the last reset a fault kept the user in the
                          \* fallback group, an overtaken request or an edit of the
                          \* group put it there, or an older copy overwrote the row
    handedOut,            \* history: the counter was reset since midnight
    setBack               \* history: an older copy overwrote the row since midnight

row  == <<left, lastReset, group>>
day  == <<handedOut, setBack>>
hist == <<overtaken, excused, day>>
dailyVars == <<row, cron, req, copy, faults, writes, hist>>

NoCopy == [left |-> 0, lastReset |-> "never", group |-> "none"]

DailyTypeOK ==
    /\ left \in 0 .. DailyQuota /\ lastReset \in Times /\ group \in Groups
    /\ cron \in [Pods -> {"idle", "reset", "restore", "write"}]
    /\ req \in [Requests -> {"idle", "info", "switch", "write"}]
    /\ copy \in [left : 0 .. DailyQuota, lastReset : Times, group : Groups] \cup {NoCopy}
    /\ faults \in 0 .. MaxFaults /\ writes \in 0 .. MaxWrites
    /\ overtaken \subseteq Requests /\ excused \in BOOLEAN
    /\ handedOut \in BOOLEAN /\ setBack \in BOOLEAN

DailyInit ==
    /\ left = DailyQuota /\ lastReset = "never" /\ group = "base"
    /\ cron = [p \in Pods |-> "idle"]
    /\ req = [r \in Requests |-> "idle"]
    /\ copy = NoCopy
    /\ faults = 0 /\ writes = 0
    /\ overtaken = {} /\ excused = FALSE /\ handedOut = FALSE /\ setBack = FALSE

Fault == faults < MaxFaults /\ faults' = faults + 1

Past(time) == IF time = "today" THEN "before" ELSE time

Midnight ==
    /\ lastReset' = Past(lastReset)
    /\ copy' = [copy EXCEPT !.lastReset = Past(@)]
    /\ handedOut' = FALSE /\ setBack' = FALSE
    /\ UNCHANGED <<left, group, cron, req, faults, writes, overtaken, excused>>

-----------------------------------------------------------------------------
(* The cron job: GetUsersNeedingDailyReset, then ProcessDailyQuotaReset.    *)

NeedsReset == lastReset # "today"

\* Mutant of FindUser: the query leaves out the users who have used their quota up.
FindUnexhausted(p) ==
    /\ cron[p] = "idle" /\ NeedsReset /\ left > 0
    /\ cron' = [cron EXCEPT ![p] = "reset"]
    /\ UNCHANGED <<row, req, copy, faults, writes, hist>>

FindUser(p) ==
    /\ cron[p] = "idle" /\ NeedsReset
    /\ cron' = [cron EXCEPT ![p] = "reset"]
    /\ UNCHANGED <<row, req, copy, faults, writes, hist>>

Exhausting == {r \in Requests : req[r] \in {"switch", "write"}}

\* Mutant of Reset: the statement does not look at the time of the last reset.
ResetAnyway ==
    /\ left' = DailyQuota /\ lastReset' = "today"
    /\ overtaken' = Exhausting /\ excused' = FALSE
    /\ handedOut' = TRUE /\ UNCHANGED setBack

\* The statement is conditional: the second pod of a day changes nothing, and goes on.
Reset ==
    IF NeedsReset
    THEN /\ left' = DailyQuota /\ lastReset' = "today"
         /\ overtaken' = Exhausting /\ excused' = FALSE
         /\ handedOut' = TRUE /\ UNCHANGED setBack
    ELSE UNCHANGED <<left, lastReset, hist>>

ResetDailyQuota(p) ==
    /\ cron[p] = "reset"
    /\ \/ /\ Reset
          /\ cron' = [cron EXCEPT ![p] = "restore"]
          /\ UNCHANGED faults
       \/ /\ Fault        \* the next round finds the user again
          /\ cron' = [cron EXCEPT ![p] = "idle"]
          /\ UNCHANGED <<left, lastReset, hist>>
    /\ UNCHANGED <<group, req, copy, writes>>

Restorable == group # "base"

RestoreRead(p) ==
    /\ cron[p] = "restore"
    /\ \/ /\ cron' = [cron EXCEPT ![p] = IF Restorable THEN "write" ELSE "idle"]
          /\ UNCHANGED <<faults, excused>>
       \/ /\ Fault
          /\ cron' = [cron EXCEPT ![p] = "idle"]
          /\ excused' = TRUE
    /\ UNCHANGED <<row, req, copy, writes, overtaken, day>>

RestoreWrite(p) ==
    /\ cron[p] = "write"
    /\ cron' = [cron EXCEPT ![p] = "idle"]
    /\ \/ group' = "base" /\ UNCHANGED <<faults, excused>>
       \/ Fault /\ excused' = TRUE /\ UNCHANGED group
    /\ UNCHANGED <<left, lastReset, req, copy, writes, overtaken, day>>

\* The pod dies: nothing tells the others that the user was to be moved back.
Crash(p) ==
    /\ Fault
    /\ cron[p] # "idle"
    /\ cron' = [cron EXCEPT ![p] = "idle"]
    /\ excused' = (excused \/ cron[p] # "reset")
    /\ UNCHANGED <<row, req, copy, writes, overtaken, day>>

-----------------------------------------------------------------------------
(* PostConsumeDailyQuota, for a request that costs more than it prepaid.    *)

Goto(r, where) == req' = [req EXCEPT ![r] = where]

IncreaseDailyUsed(r) ==
    /\ req[r] = "idle"
    /\ \E a \in Amounts : left' = IF a < left THEN left - a ELSE 0
    /\ Goto(r, "info")
    /\ UNCHANGED <<lastReset, group, cron, copy, faults, writes, hist>>

\* Mutant of Exhausted: the amount that is left counts as used up.
NearlyExhausted == left <= 1

Exhausted == left = 0

\* GetUserDailyQuotaInfo.  A reset from here on is one the request does not know of.
CheckExhausted(r) ==
    /\ req[r] = "info"
    /\ Goto(r, IF Exhausted /\ group # "fallback" THEN "switch" ELSE "idle")
    /\ overtaken' = overtaken \ {r}
    /\ UNCHANGED <<row, cron, copy, faults, writes, excused, day>>

\* SwitchToFallbackGroup reads the row again, for its group only.
SwitchRead(r) ==
    /\ req[r] = "switch"
    /\ Goto(r, IF group = "fallback" THEN "idle" ELSE "write")
    /\ UNCHANGED <<row, cron, copy, faults, writes, hist>>

SwitchWrite(r) ==
    /\ req[r] = "write"
    /\ Goto(r, "idle")
    /\ group' = "fallback"
    /\ excused' = (excused \/ r \in overtaken)
    /\ UNCHANGED <<left, lastReset, cron, copy, faults, writes, overtaken, day>>

\* A failed read or statement is logged; so is one the pod does not live to make.
ConsumeFails(r) ==
    /\ Fault
    /\ req[r] # "idle"
    /\ Goto(r, "idle")
    /\ UNCHANGED <<row, cron, copy, writes, hist>>

-----------------------------------------------------------------------------
(* Edits of the row.                                                        *)

\* User.Edit writes the group of the administrator's form, filled then or earlier, and
\* InternalUpdateUser the one another service names.
SetGroup ==
    /\ writes < MaxWrites /\ writes' = writes + 1
    /\ group' \in Groups
    /\ excused' = (excused \/ group' = "fallback")
    /\ UNCHANGED <<left, lastReset, cron, req, copy, faults, overtaken, day>>

\* UpdateSelf, UpdateUserSetting, GenerateAccessToken: the whole row is read ...
ReadSelf ==
    /\ copy = NoCopy /\ writes < MaxWrites
    /\ copy' = [left |-> left, lastReset |-> lastReset, group |-> group]
    /\ writes' = writes + 1
    /\ UNCHANGED <<row, cron, req, faults, hist>>

\* ... and User.Update writes it back, except for the columns that were zero.
Update ==
    /\ copy # NoCopy
    /\ left' = IF copy.left = DailyQuota THEN left ELSE copy.left
    /\ lastReset' = IF copy.lastReset = "never" THEN lastReset ELSE copy.lastReset
    /\ group' = copy.group
    /\ copy' = NoCopy
    /\ excused' = (excused \/ row' # row) /\ setBack' = (setBack \/ row' # row)
    /\ UNCHANGED <<cron, req, faults, writes, overtaken, handedOut>>

-----------------------------------------------------------------------------

Round(p) == FindUser(p) \/ ResetDailyQuota(p) \/ RestoreRead(p) \/ RestoreWrite(p)
PostConsume(r) == CheckExhausted(r) \/ SwitchRead(r) \/ SwitchWrite(r)

DailyNext ==
    \/ Midnight \/ SetGroup \/ ReadSelf \/ Update
    \/ \E p \in Pods : Round(p) \/ Crash(p)
    \/ \E r \in Requests : IncreaseDailyUsed(r) \/ PostConsume(r) \/ ConsumeFails(r)

\* The clock and the cron jobs go on; a request that has consumed finishes.
DailySpec ==
    /\ DailyInit /\ [][DailyNext]_dailyVars
    /\ WF_dailyVars(Midnight)
    /\ \A p \in Pods : WF_dailyVars(Round(p))
    /\ \A r \in Requests : WF_dailyVars(PostConsume(r))

-----------------------------------------------------------------------------
(* Properties.                                                              *)

Restoring == \E p \in Pods : cron[p] \in {"restore", "write"}

\* A user whose counter was reset today and who has quota left is in the fallback group
\* only while a pod is about to move it back, or because of a fault between the two
\* statements of a reset, of a request whose exhaustion the reset overtook, of an edit
\* of the group, or of a user's save that overwrote the row with an older copy of it:
\* neither the cron jobs of several pods nor the requests of the day demote it.
DemotedOnlyByRace ==
    lastReset = "today" /\ left > 0 /\ group = "fallback" => Restoring \/ excused

\* Of all the pods that find the user in their rounds, one resets the counter in a day:
\* a late one does not hand out the day's quota a second time, and nothing else gives
\* any of it back, unless a user's save has overwritten the row that day with an older
\* copy of it, with an older counter or an older time of the reset.
ResetOncePerDay == [][left' > left => ~handedOut \/ setBack']_dailyVars

\* Whatever kept the user in the fallback group, no more than the days that meet a
\* fault pass before it is in its base group again.
BackToBase == group = "fallback" ~> group = "base"
=============================================================================
