---------------------------- MODULE BillingOutbox ---------------------------
(***************************************************************************)
(* The rows of billing_outbox and the worker that every pod of the hub     *)
(* runs on them (ProcessBillingOutbox, called by a 5 s ticker).            *)
(*                                                                         *)
(* A worker selects the due pending rows, then takes them one by one: it   *)
(* calls the platform, and writes the outcome.  The SELECT ... FOR UPDATE  *)
(* SKIP LOCKED is a statement outside any transaction, so its row locks    *)
(* are gone when it returns, and the workers interleave between their      *)
(* statements and calls.  What a worker knows of a row, retry_count        *)
(* included, is what it read then.                                         *)
(*                                                                         *)
(* The platform accepts a call on a hold that is still held; on a hold     *)
(* that has come to the state the call asks for it may accept or refuse.   *)
(***************************************************************************)
EXTENDS Integers, FiniteSets

CONSTANTS
    Rows,         \* the (preauth_id, action) pairs, one hold each
    Settles,      \* those whose action is "settle"; the others release
    Pods,
    MaxRetries,   \* outboxMaxRetries
    MaxCrashes    \* bound: how often pods restart

ASSUME RowSets == Settles \subseteq Rows
ASSUME Bounds == MaxRetries \in Nat \ {0} /\ MaxCrashes \in Nat

VARIABLES
    status, retry, due,   \* the table: status, retry_count, next_retry <= now
    hold,                 \* the platform's holds
    batch,                \* the rows a worker has read and not yet taken up
    reply,                \* the outcome of the call a worker has to write
    calls,                \* history: how often the platform was called for a row, at most MaxRetries
    crashes

table == <<status, retry, due>>
outboxVars  == <<status, retry, due, hold, batch, reply, calls, crashes>>

Target(e) == IF e \in Settles THEN "settled" ELSE "released"

\* What a worker has read of a row, what it has to write, and nothing to write.
Snapshot == [row : Rows, retry : Nat]
Outcome  == [row : Rows, retry : Nat, ok : BOOLEAN]
NoReply  == [ok |-> FALSE]

OutboxTypeOK ==
    /\ status \in [Rows -> {"absent", "pending", "done", "failed"}]
    /\ retry \in [Rows -> 0 .. MaxRetries]
    /\ due \in [Rows -> BOOLEAN]
    /\ hold \in [Rows -> {"held", "settled", "released", "expired"}]
    /\ batch \in [Pods -> SUBSET Snapshot]
    /\ reply \in [Pods -> Outcome \cup {NoReply}]
    /\ calls \in [Rows -> 0 .. MaxRetries]
    /\ crashes \in 0 .. MaxCrashes

OutboxInit ==
    /\ status = [e \in Rows |-> "absent"]
    /\ retry = [e \in Rows |-> 0]
    /\ due = [e \in Rows |-> FALSE]
    /\ hold = [e \in Rows |-> "held"]
    /\ batch = [p \in Pods |-> {}]
    /\ reply = [p \in Pods |-> NoReply]
    /\ calls = [e \in Rows |-> 0]
    /\ crashes = 0

-----------------------------------------------------------------------------
\* EnqueueSettle and EnqueueRelease, after a call of the handler that failed and
\* was executed, or not.
Enqueue(e) ==
    /\ status[e] = "absent"
    /\ status' = [status EXCEPT ![e] = "pending"]
    /\ due' = [due EXCEPT ![e] = TRUE]
    /\ \/ UNCHANGED hold
       \/ hold[e] = "held" /\ hold' = [hold EXCEPT ![e] = Target(e)]
    /\ UNCHANGED <<retry, batch, reply, calls, crashes>>

Idle(p) == batch[p] = {} /\ reply[p] = NoReply

\* The SELECT of a worker.
Select(p) ==
    /\ Idle(p)
    /\ LET ready == {e \in Rows : status[e] = "pending" /\ due[e]}
       IN  /\ ready # {}
           /\ batch' = [batch EXCEPT ![p] = {[row |-> e, retry |-> retry[e]] : e \in ready}]
    /\ UNCHANGED <<table, hold, reply, calls, crashes>>

\* A plausible bug: every answer of the platform counts as a confirmation.
AnyAnswer(e) == TRUE
Accepts(e) == hold[e] \in {"held", Target(e)}

\* The call for one row of the batch: confirmed, or failed, executed or not.
\* Whether the row is still pending is not looked at.
CallPlatform(p, s) ==
    /\ s \in batch[p] /\ reply[p] = NoReply
    /\ batch' = [batch EXCEPT ![p] = @ \ {s}]
    /\ calls' = [calls EXCEPT ![s.row] = IF @ < MaxRetries THEN @ + 1 ELSE @]
    /\ \E ok \in BOOLEAN, executed \in BOOLEAN :
          /\ ok => Accepts(s.row)
          /\ ok /\ hold[s.row] = "held" => executed
          /\ reply' = [reply EXCEPT ![p] = [row |-> s.row, retry |-> s.retry, ok |-> ok]]
          /\ hold' = [hold EXCEPT ![s.row] =
                         IF executed /\ @ = "held" THEN Target(s.row) ELSE @]
    /\ UNCHANGED <<table, crashes>>

\* "only update if still pending (guard against race)".
StillPending(e) == status[e] = "pending"

\* A plausible bug: the last retry is given up.
ExhaustedEarly(n) == n + 1 >= MaxRetries
Exhausted(n) == n >= MaxRetries

\* The guarded UPDATE that marks the row done.
MarkDone(p) ==
    /\ reply[p] # NoReply /\ reply[p].ok
    /\ LET e == reply[p].row
       IN  status' = [status EXCEPT ![e] = IF StillPending(e) THEN "done" ELSE @]
    /\ reply' = [reply EXCEPT ![p] = NoReply]
    /\ UNCHANGED <<retry, due, hold, batch, calls, crashes>>

\* A plausible bug: a failed row goes on being due without being counted.
CountsNothing(n) == n
NextCount(n) == n + 1

\* The guarded UPDATE after a failure: retry_count is the count read plus one.
MarkRetry(p) ==
    /\ reply[p] # NoReply /\ ~reply[p].ok
    /\ LET e == reply[p].row
           n == NextCount(reply[p].retry)
       IN  IF StillPending(e)
           THEN /\ retry' = [retry EXCEPT ![e] = n]
                /\ status' = [status EXCEPT ![e] = IF Exhausted(n) THEN "failed" ELSE "pending"]
                /\ due' = [due EXCEPT ![e] = Exhausted(n)]
           ELSE UNCHANGED table
    /\ reply' = [reply EXCEPT ![p] = NoReply]
    /\ UNCHANGED <<hold, batch, calls, crashes>>

\* next_retry is reached.
BackoffElapses(e) ==
    /\ status[e] = "pending" /\ ~due[e]
    /\ due' = [due EXCEPT ![e] = TRUE]
    /\ UNCHANGED <<status, retry, hold, batch, reply, calls, crashes>>

\* The TTL of the pre-authorisation runs out.
Expire(e) ==
    /\ hold[e] = "held"
    /\ hold' = [hold EXCEPT ![e] = "expired"]
    /\ UNCHANGED <<table, batch, reply, calls, crashes>>

\* A pod restarts: its batch, and an outcome it has not written, are gone.
Crash(p) ==
    /\ crashes < MaxCrashes /\ ~Idle(p)
    /\ crashes' = crashes + 1
    /\ batch' = [batch EXCEPT ![p] = {}]
    /\ reply' = [reply EXCEPT ![p] = NoReply]
    /\ UNCHANGED <<table, hold, calls>>

Worker(p) ==
    \/ Select(p)
    \/ \E s \in batch[p] : CallPlatform(p, s)
    \/ MarkDone(p)
    \/ MarkRetry(p)

Terminated ==
    /\ \A e \in Rows : status[e] \in {"done", "failed"} /\ hold[e] # "held"
    /\ \A p \in Pods : Idle(p)
    /\ UNCHANGED outboxVars

OutboxNext ==
    \/ \E e \in Rows : Enqueue(e) \/ BackoffElapses(e) \/ Expire(e)
    \/ \E p \in Pods : Worker(p) \/ Crash(p)
    \/ Terminated

\* Every pod's ticker goes on, and time passes.
OutboxFairness ==
    /\ \A p \in Pods : WF_outboxVars(Worker(p))
    /\ \A e \in Rows : WF_outboxVars(BackoffElapses(e))

OutboxSpec == OutboxInit /\ [][OutboxNext]_outboxVars
OutboxFairSpec == OutboxSpec /\ OutboxFairness
-----------------------------------------------------------------------------
\* A row is marked done only when the platform has executed its action, however
\* the workers race, crash and repeat each other's calls.
DoneMeansExecuted == \A e \in Rows : status[e] = "done" => hold[e] = Target(e)

\* A row is given up only after MaxRetries calls: two workers that race on a row
\* can lose a retry from the count, never add one.
FailedMeansTried ==
    \A e \in Rows :
        /\ retry[e] <= calls[e]
        /\ status[e] = "failed" => calls[e] >= MaxRetries

\* What one worker has concluded, no other worker changes.
FinalStatusStays ==
    [][\A e \in Rows : status[e] \in {"done", "failed"} => status'[e] = status[e]]_outboxVars

\* Every queued row is done or given up in the end, although a worker with an
\* old batch can set retry_count back.
EveryRowEnds == \A e \in Rows : status[e] = "pending" ~> status[e] \in {"done", "failed"}
=============================================================================
