------------------------------- MODULE Credits -------------------------------
(***************************************************************************)
(* How quota is credited to a user from outside a relay request: the       *)
(* internal top-up, the transfer from the platform wallet, the currency    *)
(* exchange and the redemption code.  An order is what must be credited    *)
(* once; its attempts are the HTTP calls the client sends for it, one      *)
(* after the other or at the same time.                                    *)
(*                                                                         *)
(* The first two recognise a repeated order by a tag in the log table,     *)
(* which is written after the credit; the exchange by a unique index of    *)
(* the row it inserts in the transaction of the credit; the code by its    *)
(* status, read in the transaction without a row lock (the query option    *)
(* that asks for one is not an option of this version of the ORM).         *)
(***************************************************************************)
EXTENDS Integers, FiniteSets

CONSTANTS
    Attempts,
    Batches,       \* the orders the attempts may be for, as functions on Attempts
    Topups, Transfers, Exchanges, Codes,   \* the orders, by kind
    Longer,        \* top-up -> the others whose log line its tag is found in as well
    Faulty,                                \* the attempts a fault may hit
    MaxEdits                               \* bound: edits of codes by administrators

Orders == Topups \cup Transfers \cup Exchanges \cup Codes

Nobody  == "nobody"
NoOrder == "no order"

ASSUME OrderSets ==
    /\ IsFiniteSet(Attempts) /\ Nobody \notin Attempts /\ NoOrder \notin Orders
    /\ Faulty \subseteq Attempts
    /\ Batches \subseteq [Attempts -> Orders]
    /\ Longer \in [Topups -> SUBSET Topups]
    /\ MaxEdits \in Nat
ASSUME KindsDisjoint ==
    /\ Topups \cap (Transfers \cup Exchanges \cup Codes) = {}
    /\ Transfers \cap (Exchanges \cup Codes) = {}
    /\ Exchanges \cap Codes = {}

VARIABLES
    ord,           \* the order an attempt is for
    pc, reply,     \* where its handler is, and what it answered
    marks,         \* orders whose tag is in the log table
    rows,          \* orders with a committed row in currency_exchanges
    claim,         \* exchange -> the open transaction that inserted its key
    code,          \* code -> its row in redemptions
    expired,       \* codes whose expired_time has passed
    edit, edits,   \* the row an administrator is editing, and the edits made
    credit, debit, refund,   \* ledger: what each attempt did to quota and wallet
    \* History: faults met, orders with two actors at once, redeemed codes enabled again.
    fault, overlapped, reissued

tables  == <<marks, rows, claim, code, expired, edit, edits>>
ledger  == <<credit, debit, refund>>
history == <<fault, overlapped, reissued>>
vars == <<ord, pc, reply, tables, ledger, history>>

Labels   == {"idle", "check", "user", "debit", "credit", "rollback", "log",
             "insert", "commit", "read", "save", "done"}
Statuses == {"enabled", "used", "disabled"}
NoEdit   == [order |-> NoOrder, status |-> "none"]
Faults   == {"query", "db", "lost", "platform", "crash"}

Of(a)       == ord[a]
InFlight(o) == {a \in Attempts : Of(a) = o /\ pc[a] \notin {"idle", "done"}}
Credited(o) == {a \in Attempts : Of(a) = o /\ credit[a] = 1}
TimesCredited(o) == Cardinality(Credited(o))

Init ==
    /\ ord \in Batches
    /\ pc = [a \in Attempts |-> "idle"]
    /\ reply = [a \in Attempts |-> "none"]
    /\ marks = {} /\ rows = {} /\ expired = {}
    /\ claim = [o \in Exchanges |-> Nobody]
    /\ code = [o \in Codes |-> "absent"]
    /\ edit = NoEdit /\ edits = 0
    /\ credit = [a \in Attempts |-> 0]
    /\ debit = [a \in Attempts |-> 0]
    /\ refund = [a \in Attempts |-> 0]
    /\ fault = [a \in Attempts |-> {}]
    /\ overlapped = {} /\ reissued = {}

Goto(a, l)   == pc' = [pc EXCEPT ![a] = l] /\ UNCHANGED <<ord, reply>>
Answer(a, r) == /\ pc' = [pc EXCEPT ![a] = "done"]
                /\ reply' = [reply EXCEPT ![a] = r]
                /\ UNCHANGED ord
Hit(a, f)    == /\ a \in Faulty
                /\ fault' = [fault EXCEPT ![a] = @ \cup {f}]
                /\ UNCHANGED <<overlapped, reissued>>
Credit(a)    == credit' = [credit EXCEPT ![a] = 1] /\ UNCHANGED <<debit, refund>>

-----------------------------------------------------------------------------
(* What the three JSON handlers and RedeemCodeV2 have in common.            *)

Begin(a) ==
    /\ pc[a] = "idle"
    /\ Goto(a, IF Of(a) \in Codes THEN "read" ELSE "check")
    /\ overlapped' = IF InFlight(Of(a)) # {} \/ edit.order = Of(a)
                     THEN overlapped \cup {Of(a)} ELSE overlapped
    /\ UNCHANGED <<tables, ledger, fault, reissued>>

\* The tag of a top-up ends with its id, so LIKE also finds it in the lines of ids that
\* begin with it (or fit it as a pattern).  The key of a transfer is in brackets.
TaggedLike(o) == {o} \cup (IF o \in Topups THEN Longer[o] ELSE {})
Processed(o)  == TaggedLike(o) \cap (marks \cup rows) # {}

\* The error of the counting query is not looked at: its count stays zero.
CheckIdempotency(a) ==
    /\ pc[a] = "check"
    /\ UNCHANGED <<tables, ledger>>
    /\ \/ /\ Processed(Of(a))
          /\ Answer(a, "idempotent")
          /\ UNCHANGED history
       \/ /\ ~Processed(Of(a))
          /\ Goto(a, IF Of(a) \in Transfers THEN "debit" ELSE "user")
          /\ UNCHANGED history
       \/ /\ Goto(a, IF Of(a) \in Transfers THEN "debit" ELSE "user")
          /\ Hit(a, "query")

LookupUser(a) ==
    /\ pc[a] = "user"
    /\ UNCHANGED <<tables, ledger>>
    /\ \/ /\ Goto(a, IF Of(a) \in Exchanges THEN "insert" ELSE "credit")
          /\ UNCHANGED history
       \/ Answer(a, "error") /\ Hit(a, "query")

\* IncreaseUserQuota with db = true: one statement.
IncreaseQuota(a) ==
    /\ pc[a] = "credit"
    /\ Credit(a)
    /\ Goto(a, "log")
    /\ UNCHANGED <<tables, history>>

\* Mutants of AfterFailedCredit: the debit of the wallet is forgotten; the error
\* of the statement is ignored.
ForgetDebit(a) == Answer(a, "error")
IgnoreError(a) == Goto(a, "log")

AfterFailedCredit(a) ==
    IF Of(a) \in Transfers THEN Goto(a, "rollback") ELSE Answer(a, "error")

IncreaseFails(a) ==
    /\ pc[a] = "credit"
    /\ AfterFailedCredit(a)
    /\ \/ Hit(a, "db") /\ UNCHANGED ledger
       \/ Hit(a, "lost") /\ Credit(a)
    /\ UNCHANGED tables

\* RecordLog only logs a failed insertion: the handler answers success.
RecordLog(a) ==
    /\ pc[a] = "log"
    /\ Answer(a, "ok")
    /\ \/ /\ marks' = IF Of(a) \in Topups \cup Transfers THEN marks \cup {Of(a)} ELSE marks
          /\ UNCHANGED history
       \/ Hit(a, "db") /\ UNCHANGED marks
    /\ UNCHANGED <<rows, claim, code, expired, edit, edits, ledger>>

-----------------------------------------------------------------------------
(* TopUpV2: the wallet is debited before the credit and refunded after a    *)
(* failed one.  A failed gRPC call is repeated over HTTP, so a fault may    *)
(* have executed the call twice.                                            *)

DebitWallet(a) ==
    /\ pc[a] = "debit"
    /\ \/ /\ Goto(a, "credit")
          /\ debit' = [debit EXCEPT ![a] = 1]
          /\ UNCHANGED history
       \/ /\ Answer(a, "error")            \* insufficient balance
          /\ UNCHANGED <<debit, history>>
       \/ \E executed \in 0..2 :
             /\ debit' = [debit EXCEPT ![a] = executed]
             /\ \/ Answer(a, "error")
                \/ executed > 0 /\ Goto(a, "credit")
             /\ Hit(a, "platform")
    /\ UNCHANGED <<tables, credit, refund>>

RollbackDebit(a) ==
    /\ pc[a] = "rollback"
    /\ Answer(a, "refunded")
    /\ \/ refund' = [refund EXCEPT ![a] = 1] /\ UNCHANGED history
       \/ /\ \E executed \in 0..2 : refund' = [refund EXCEPT ![a] = executed]
          /\ Hit(a, "platform")
    /\ UNCHANGED <<tables, credit, debit>>

-----------------------------------------------------------------------------
(* InternalExchangeLucToLut: the row and the credit in one transaction.     *)

\* Mutant of KeyFree: an index that is not unique.
KeyNotUnique(a) == TRUE

\* The unique index: an insertion waits for the transaction that holds its key.
KeyFree(a) == Of(a) \notin rows

InsertExchange(a) ==
    /\ pc[a] = "insert"
    /\ claim[Of(a)] = Nobody
    /\ \/ /\ KeyFree(a)
          /\ claim' = [claim EXCEPT ![Of(a)] = a]
          /\ Goto(a, "commit")
          /\ UNCHANGED history
       \/ ~KeyFree(a) /\ Answer(a, "error") /\ UNCHANGED <<claim, history>>
       \/ Hit(a, "db") /\ Answer(a, "error") /\ UNCHANGED claim
    /\ UNCHANGED <<marks, rows, code, expired, edit, edits, ledger>>

\* Mutant of Rollback: the error path returns without a rollback.
NoRollback(a) == UNCHANGED <<claim, rows, ledger>>

Rollback(a) ==
    /\ claim' = [claim EXCEPT ![Of(a)] = Nobody]
    /\ UNCHANGED <<rows, ledger>>

CommitExchange(a) ==
    /\ pc[a] = "commit"
    /\ \/ /\ rows' = rows \cup {Of(a)}
          /\ claim' = [claim EXCEPT ![Of(a)] = Nobody]
          /\ Credit(a)
          /\ \/ Goto(a, "log") /\ UNCHANGED history
             \/ Answer(a, "error") /\ Hit(a, "lost")
       \/ Answer(a, "error") /\ Hit(a, "db") /\ Rollback(a)
    /\ UNCHANGED <<marks, code, expired, edit, edits>>

-----------------------------------------------------------------------------
(* Redeem, and what administrators do to a code.                            *)

Redeemable(o) == code[o] = "enabled" /\ o \notin expired

ReadCode(a) ==
    /\ pc[a] = "read"
    /\ IF Redeemable(Of(a)) THEN Goto(a, "save") ELSE Answer(a, "error")
    /\ UNCHANGED <<tables, ledger, history>>

\* Save writes every column of the row that was read, and inserts it again
\* when it has been deleted meanwhile.  The tag-less log line comes after.
SaveCode(a) ==
    /\ pc[a] = "save"
    /\ \/ /\ code' = [code EXCEPT ![Of(a)] = "used"]
          /\ Credit(a)
          /\ \/ Answer(a, "ok") /\ UNCHANGED history
             \/ Answer(a, "error") /\ Hit(a, "lost")
       \/ Answer(a, "error") /\ Hit(a, "db") /\ UNCHANGED <<code, ledger>>
    /\ UNCHANGED <<marks, rows, claim, expired, edit, edits>>

AddRedemption(o) ==
    /\ code[o] = "absent"
    /\ code' = [code EXCEPT ![o] = "enabled"]
    /\ UNCHANGED <<ord, pc, reply, marks, rows, claim, expired, edit, edits, ledger, history>>

CodeExpires(o) ==
    /\ code[o] \in Statuses /\ o \notin expired
    /\ expired' = expired \cup {o}
    /\ UNCHANGED <<ord, pc, reply, marks, rows, claim, code, edit, edits, ledger, history>>

\* UpdateRedemption reads the row and writes its status back with the edit.
EditRead(o) ==
    /\ edit = NoEdit /\ edits < MaxEdits
    /\ code[o] \in Statuses
    /\ edit' = [order |-> o, status |-> code[o]]
    /\ edits' = edits + 1
    /\ overlapped' = IF InFlight(o) # {} THEN overlapped \cup {o} ELSE overlapped
    /\ UNCHANGED <<ord, pc, reply, marks, rows, claim, code, expired, ledger, fault, reissued>>

WriteStatus(o, s) == code' = IF code[o] \in Statuses THEN [code EXCEPT ![o] = s] ELSE code

EditWrite(o) ==
    /\ edit.order = o
    /\ edit' = NoEdit
    /\ \/ /\ WriteStatus(o, edit.status)              \* name, quota, expired_time
          /\ expired' = expired \ {o}
          /\ UNCHANGED reissued
       \/ \E s \in Statuses :                         \* status_only
             /\ WriteStatus(o, s)
             /\ reissued' = IF s = "enabled" /\ edit.status # "enabled" /\ Credited(o) # {}
                            THEN reissued \cup {o} ELSE reissued
             /\ UNCHANGED expired
    /\ UNCHANGED <<ord, pc, reply, marks, rows, claim, edits, ledger, fault, overlapped>>

DeleteRedemption(o) ==
    /\ code[o] \in Statuses
    /\ code' = [code EXCEPT ![o] = "deleted"]
    /\ UNCHANGED <<ord, pc, reply, marks, rows, claim, expired, edit, edits, ledger, history>>

Invalid(o) == code[o] \in {"used", "disabled"} \/ (code[o] = "enabled" /\ o \in expired)

DeleteInvalidRedemptions ==
    /\ \E o \in Codes : Invalid(o)
    /\ code' = [o \in Codes |-> IF Invalid(o) THEN "deleted" ELSE code[o]]
    /\ UNCHANGED <<ord, pc, reply, marks, rows, claim, expired, edit, edits, ledger, history>>

-----------------------------------------------------------------------------

\* The pod dies: an open transaction is rolled back, nothing else is undone.
Crash(a) ==
    /\ pc[a] \notin {"idle", "done"}
    /\ Hit(a, "crash")
    /\ Goto(a, "done")
    /\ claim' = [o \in Exchanges |-> IF claim[o] = a THEN Nobody ELSE claim[o]]
    /\ UNCHANGED <<marks, rows, code, expired, edit, edits, ledger>>

Handle(a) ==
    \/ CheckIdempotency(a) \/ LookupUser(a) \/ IncreaseQuota(a) \/ IncreaseFails(a)
    \/ RecordLog(a) \/ DebitWallet(a) \/ RollbackDebit(a) \/ InsertExchange(a)
    \/ CommitExchange(a) \/ ReadCode(a) \/ SaveCode(a)

Administer(o) ==
    \/ AddRedemption(o) \/ CodeExpires(o) \/ EditRead(o) \/ EditWrite(o) \/ DeleteRedemption(o)

Next ==
    \/ \E a \in Attempts : Begin(a) \/ Handle(a) \/ Crash(a)
    \/ \E o \in Codes : Administer(o)
    \/ DeleteInvalidRedemptions

Spec == Init /\ [][Next]_vars /\ \A a \in Attempts : WF_vars(Handle(a))

-----------------------------------------------------------------------------
(* Properties.                                                              *)

\* The state is well typed.
TypeOK ==
    /\ ord \in [Attempts -> Orders]
    /\ pc \in [Attempts -> Labels]
    /\ reply \in [Attempts -> {"none", "ok", "idempotent", "error", "refunded"}]
    /\ marks \subseteq Topups \cup Transfers
    /\ rows \subseteq Exchanges
    /\ claim \in [Exchanges -> Attempts \cup {Nobody}]
    /\ code \in [Codes -> Statuses \cup {"absent", "deleted"}]
    /\ expired \subseteq Codes
    /\ edit \in [order : Codes, status : Statuses] \cup {NoEdit}
    /\ edits \in 0..MaxEdits
    /\ credit \in [Attempts -> 0..1]
    /\ debit \in [Attempts -> 0..2]
    /\ refund \in [Attempts -> 0..2]
    /\ fault \in [Attempts -> SUBSET Faults]
    /\ overlapped \subseteq Orders
    /\ reissued \subseteq Codes

\* However many calls are sent for one exchange, at whatever time, and whatever fails,
\* InternalExchangeLucToLut credits it once and exactly when its row exists.  The others
\* are credited twice only when two of their calls overlapped (or a call overlapped an
\* edit of the code), when a fault hit one of their calls, or when an administrator
\* enabled the redeemed code again: calls sent one after the other are recognised by the
\* log tag or by the status.
CreditedOnce ==
    /\ \A o \in Exchanges : TimesCredited(o) = IF o \in rows THEN 1 ELSE 0
    /\ \A o \in Orders \ Exchanges :
          \/ TimesCredited(o) <= 1
          \/ o \in overlapped \cup reissued
          \/ \E a \in Attempts : Of(a) = o /\ fault[a] # {}

\* A client that is told "done" has been credited, and one that is told "already
\* processed" too, for this order or for one whose id begins with its own: the tag and
\* the row are never visible before the credit they stand for.
AnsweredMeansCredited ==
    \A a \in Attempts :
        /\ reply[a] = "ok" => TimesCredited(Of(a)) >= 1
        /\ reply[a] = "idempotent" => \E o \in TaggedLike(Of(a)) : TimesCredited(o) >= 1

\* TopUpV2 neither makes nor loses money unless a platform call failed, the reply
\* to the quota statement was lost or the pod died: a failed credit alone is
\* compensated by the rollback of the debit.
TransferBalanced ==
    \A a \in Attempts :
        Of(a) \in Transfers /\ pc[a] = "done" /\ fault[a] \cap {"platform", "lost", "crash"} = {}
            => debit[a] = credit[a] + refund[a]

\* Every call that was begun ends: none waits for ever for the key of an exchange,
\* also when the pod that inserted it has died.
EveryAttemptEnds ==
    \A a \in Attempts : (pc[a] # "idle") ~> (pc[a] = "done")
=============================================================================
