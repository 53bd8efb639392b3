---------------------------- MODULE CreditsProofs ----------------------------
(* Theorems about Credits, for any number of calls, orders, faults and edits: *)
(* what is credited, and how often.                                           *)
EXTENDS Credits, FiniteSetTheorems, TLAPS

\* The steps of each kind of order.
Route(a) ==
    /\ Of(a) \in Codes => pc[a] \in {"idle", "read", "save", "done"}
    /\ Of(a) \in Transfers => pc[a] \in {"idle", "check", "debit", "credit", "rollback", "log", "done"}
    /\ Of(a) \in Exchanges => pc[a] \in {"idle", "check", "user", "insert", "commit", "log", "done"}
    /\ Of(a) \in Topups => pc[a] \in {"idle", "check", "user", "credit", "log", "done"}

RouteInv == TypeOK /\ \A a \in Attempts : Route(a)

-----------------------------------------------------------------------------
(* Typing.                                                                    *)

\* An order has one kind.
LEMMA OneKind ==
    ASSUME NEW o \in Orders
    PROVE  /\ o \in Codes <=> o \notin Topups \cup Transfers \cup Exchanges
           /\ o \in Transfers <=> o \notin Topups \cup Codes \cup Exchanges
           /\ o \in Exchanges <=> o \notin Topups \cup Transfers \cup Codes
           /\ o \in Topups <=> o \notin Transfers \cup Exchanges \cup Codes
  BY KindsDisjoint DEF Orders

\* No edit is under way.
LEMMA NoEditIs == NoEdit.order = NoOrder /\ NoEdit.status = "none"
  BY DEF NoEdit

\* An edit under way is one of a code.
LEMMA EditOf ==
    ASSUME TypeOK, NEW o \in Orders, edit.order = o
    PROVE  edit # NoEdit /\ o \in Codes /\ edit.status \in Statuses
  BY OrderSets, NoEditIs DEF TypeOK

\* A status written is a status.
LEMMA StatusWritten ==
    ASSUME TypeOK, NEW o \in Codes, NEW s \in Statuses, WriteStatus(o, s)
    PROVE  /\ code' \in [Codes -> Statuses \cup {"absent", "deleted"}]
           /\ \A c \in Codes : c # o => code'[c] = code[c]
           /\ code'[o] = IF code[o] \in Statuses THEN s ELSE code[o]
  BY DEF TypeOK, WriteStatus

\* Every handler keeps the types and follows the route of its order.
LEMMA RouteHandle ==
    ASSUME RouteInv, NEW a \in Attempts, Handle(a) \/ Begin(a)
    PROVE  RouteInv'
<1>0. /\ TypeOK /\ Of(a) \in Orders /\ Route(a) /\ ord' = ord
      /\ \A b \in Attempts : b # a => pc'[b] = pc[b]
  BY DEF RouteInv, TypeOK, Of, Handle, Begin, CheckIdempotency, LookupUser, IncreaseQuota,
     IncreaseFails, RecordLog, DebitWallet, RollbackDebit, InsertExchange, CommitExchange, ReadCode,
     SaveCode, Goto, Answer, AfterFailedCredit
<1> USE OrderSets, OneKind DEF TypeOK, Goto, Answer, Hit, tables, ledger, history, Labels, Faults
<1>1. ASSUME TypeOK', Route(a)' PROVE RouteInv'
  BY <1>0, <1>1 DEF RouteInv, Route, Of
<1>2. CASE Begin(a)
  BY <1>0, <1>1, <1>2 DEF Begin, Route, Of
<1>3. CASE CheckIdempotency(a)
  BY <1>0, <1>1, <1>3 DEF CheckIdempotency, Route, Of
<1>4. CASE LookupUser(a)
  BY <1>0, <1>1, <1>4 DEF LookupUser, Route, Of
<1>5. CASE IncreaseQuota(a)
  BY <1>0, <1>1, <1>5 DEF IncreaseQuota, Credit, Route, Of
<1>6. CASE IncreaseFails(a)
  BY <1>0, <1>1, <1>6 DEF IncreaseFails, AfterFailedCredit, Credit, Route, Of
<1>7. CASE RecordLog(a)
  BY <1>0, <1>1, <1>7 DEF RecordLog, Route, Of
<1>8. CASE DebitWallet(a)
  BY <1>0, <1>1, <1>8 DEF DebitWallet, Route, Of
<1>9. CASE RollbackDebit(a)
  BY <1>0, <1>1, <1>9 DEF RollbackDebit, Route, Of
<1>10. CASE InsertExchange(a)
  BY <1>0, <1>1, <1>10 DEF InsertExchange, Route, Of
<1>11. CASE CommitExchange(a)
  BY <1>0, <1>1, <1>11 DEF CommitExchange, Rollback, Credit, Route, Of
<1>12. CASE ReadCode(a)
  BY <1>0, <1>1, <1>12 DEF ReadCode, Route, Of
<1>13. CASE SaveCode(a)
  BY <1>0, <1>1, <1>13 DEF SaveCode, Credit, Route, Of, Statuses
<1>. QED
  BY <1>2, <1>3, <1>4, <1>5, <1>6, <1>7, <1>8, <1>9, <1>10, <1>11, <1>12, <1>13 DEF Handle

\* What the steps outside the handlers leave alone.
LEMMA Outside ==
    ASSUME TypeOK, (\E o \in Codes : Administer(o)) \/ DeleteInvalidRedemptions \/ UNCHANGED vars
    PROVE  UNCHANGED <<ord, pc, reply, marks, rows, claim, ledger, fault>>
  BY DEF Administer, AddRedemption, CodeExpires, EditRead, EditWrite, DeleteRedemption,
     DeleteInvalidRedemptions, vars, tables, ledger, history

\* Every step keeps the types and the routes.
LEMMA RouteStep == RouteInv /\ [Next]_vars => RouteInv'
<1> SUFFICES ASSUME RouteInv, [Next]_vars PROVE RouteInv'
  OBVIOUS
<1>0. TypeOK
  BY DEF RouteInv
<1>1. ASSUME NEW a \in Attempts, Begin(a) \/ Handle(a) PROVE RouteInv'
  BY <1>1, RouteHandle
<1>2. ASSUME NEW a \in Attempts, Crash(a) PROVE RouteInv'
  BY <1>2 DEF Crash, Goto, Hit, RouteInv, TypeOK, Route, Of, Labels, Faults, ledger
<1>3. ASSUME TypeOK', UNCHANGED <<ord, pc>> PROVE RouteInv'
  BY <1>3 DEF RouteInv, Route, Of
<1>4. ASSUME NEW o \in Codes, Administer(o) PROVE RouteInv'
  <2>0. o \in Orders /\ o # NoOrder /\ UNCHANGED <<ord, pc>>
    BY <1>0, <1>4, Outside, OrderSets DEF Orders
  <2>1. CASE AddRedemption(o) \/ CodeExpires(o) \/ DeleteRedemption(o)
    BY <1>0, <1>3, <2>0, <2>1
    DEF AddRedemption, CodeExpires, DeleteRedemption, TypeOK, Statuses, ledger, history
  <2>2. CASE EditRead(o)
    BY <1>0, <1>3, <2>0, <2>2, OrderSets DEF EditRead, TypeOK, ledger
  <2>3. CASE EditWrite(o)
    <3>1. edit.status \in Statuses
      BY <1>0, <2>0, <2>3, EditOf DEF EditWrite
    <3>2. PICK s \in Statuses : WriteStatus(o, s)
      BY <2>3, <3>1 DEF EditWrite
    <3>3. code' \in [Codes -> Statuses \cup {"absent", "deleted"}]
      BY <1>0, <3>2, StatusWritten
    <3>4. expired' \subseteq Codes /\ reissued' \subseteq Codes /\ edit' = NoEdit
      BY <1>0, <2>3 DEF EditWrite, TypeOK
    <3>5. UNCHANGED <<ord, pc, reply, marks, rows, claim, edits, ledger, fault, overlapped>>
      BY <2>3, Zenon DEF EditWrite
    <3>. QED
      BY <1>0, <1>3, <3>3, <3>4, <3>5 DEF TypeOK, ledger
  <2>. QED
    BY <1>4, <2>1, <2>2, <2>3 DEF Administer
<1>5. CASE DeleteInvalidRedemptions
  BY <1>0, <1>3, <1>5 DEF DeleteInvalidRedemptions, TypeOK, ledger, history
<1>6. CASE UNCHANGED vars
  BY <1>0, <1>3, <1>6 DEF vars, tables, ledger, history, TypeOK
<1>. QED
  BY <1>1, <1>2, <1>4, <1>5, <1>6 DEF Next

\* Every variable has its type, and every call the steps of its kind of order.
THEOREM Routed == Spec => []RouteInv
<1>1. Init => RouteInv
  BY OrderSets DEF Init, RouteInv, TypeOK, Route, Labels, Statuses
<1>. QED
  BY <1>1, RouteStep, PTL DEF Spec

-----------------------------------------------------------------------------
(* The wallet.                                                                *)

\* No platform call failed, no reply was lost, the pod lives.
Compensable(a) == fault[a] \cap {"platform", "lost", "crash"} = {}

\* What a transfer has moved, by the position of its handler.
Moved(a, d, c, r) == debit[a] = d /\ credit[a] = c /\ refund[a] = r

Balance(a) ==
    Of(a) \in Transfers /\ Compensable(a) =>
        /\ pc[a] \in {"idle", "check", "debit"} => Moved(a, 0, 0, 0)
        /\ pc[a] \in {"credit", "rollback"} => Moved(a, 1, 0, 0)
        /\ pc[a] = "log" => Moved(a, 1, 1, 0)
        /\ pc[a] = "done" => debit[a] = credit[a] + refund[a]

\* A call that a step leaves alone keeps its balance.
LEMMA BalanceSame ==
    ASSUME NEW a \in Attempts, Balance(a), pc'[a] = pc[a], ord'[a] = ord[a], fault'[a] = fault[a],
           debit'[a] = debit[a], credit'[a] = credit[a], refund'[a] = refund[a]
    PROVE  Balance(a)'
  BY DEF Balance, Compensable, Moved, Of

\* Every handler keeps the balance of its call.
LEMMA BalanceHandle ==
    ASSUME RouteInv, NEW a \in Attempts, Balance(a), Begin(a) \/ Handle(a) \/ Crash(a)
    PROVE  Balance(a)'
<1>0. TypeOK /\ Route(a) /\ Of(a) \in Orders
  BY DEF RouteInv, TypeOK, Of
<1> USE <1>0, OneKind DEF TypeOK, Goto, Answer, Hit, tables, ledger, history,
        Balance, Compensable, Moved, Of, Route
<1>1. CASE Begin(a)
  BY <1>1 DEF Begin
<1>2. CASE CheckIdempotency(a)
  BY <1>2 DEF CheckIdempotency
<1>3. CASE LookupUser(a) \/ InsertExchange(a) \/ CommitExchange(a) \/ ReadCode(a) \/ SaveCode(a)
  <2>1. Of(a) \notin Transfers /\ ord' = ord
    BY <1>3 DEF LookupUser, InsertExchange, CommitExchange, ReadCode, SaveCode
  <2>. QED
    BY <2>1
<1>4. CASE IncreaseQuota(a)
  BY <1>4 DEF IncreaseQuota, Credit
<1>5. CASE IncreaseFails(a)
  <2>1. ASSUME Of(a) \in Transfers PROVE pc'[a] = "rollback" /\ ord' = ord
    BY <1>5, <2>1 DEF IncreaseFails, AfterFailedCredit
  <2>2. pc[a] = "credit" /\ ord' = ord
    BY <1>5 DEF IncreaseFails, AfterFailedCredit
  <2>3. CASE Hit(a, "db") /\ UNCHANGED ledger
    BY <2>1, <2>2, <2>3
  <2>4. CASE Hit(a, "lost")
    <3>1. fault'[a] \cap {"platform", "lost", "crash"} # {}
      BY <2>4
    <3>. QED
      BY <3>1
  <2>. QED
    BY <1>5, <2>3, <2>4 DEF IncreaseFails
<1>6. CASE RecordLog(a)
  BY <1>6 DEF RecordLog
<1>7. CASE DebitWallet(a)
  BY <1>7 DEF DebitWallet
<1>8. CASE RollbackDebit(a)
  BY <1>8 DEF RollbackDebit
<1>9. CASE Crash(a)
  BY <1>9 DEF Crash
<1>. QED
  BY <1>1, <1>2, <1>3, <1>4, <1>5, <1>6, <1>7, <1>8, <1>9 DEF Handle

\* A handler leaves the other calls alone.
LEMMA OtherCalls ==
    ASSUME TypeOK, NEW a \in Attempts, Begin(a) \/ Handle(a) \/ Crash(a),
           NEW b \in Attempts, b # a
    PROVE  /\ pc'[b] = pc[b] /\ reply'[b] = reply[b] /\ fault'[b] = fault[b] /\ ord' = ord
           /\ credit'[b] = credit[b] /\ debit'[b] = debit[b] /\ refund'[b] = refund[b]
<1> USE DEF TypeOK, Goto, Answer, Hit, Credit, ledger, history
<1>1. CASE Begin(a) \/ Crash(a) \/ CheckIdempotency(a) \/ LookupUser(a) \/ RecordLog(a)
  BY <1>1 DEF Begin, Crash, CheckIdempotency, LookupUser, RecordLog
<1>2. CASE IncreaseQuota(a) \/ IncreaseFails(a)
  BY <1>2 DEF IncreaseQuota, IncreaseFails, AfterFailedCredit
<1>3. CASE DebitWallet(a) \/ RollbackDebit(a)
  BY <1>3 DEF DebitWallet, RollbackDebit
<1>4. CASE InsertExchange(a) \/ CommitExchange(a)
  BY <1>4 DEF InsertExchange, CommitExchange, Rollback
<1>5. CASE ReadCode(a) \/ SaveCode(a)
  BY <1>5 DEF ReadCode, SaveCode
<1>. QED
  BY <1>1, <1>2, <1>3, <1>4, <1>5 DEF Handle

\* TopUpV2 neither makes nor loses money unless a platform call failed, the reply to the
\* quota statement was lost or the pod died.
THEOREM Balanced == Spec => []TransferBalanced
<1> DEFINE Inv == \A a \in Attempts : Balance(a)
<1>1. Init => Inv
  BY DEF Init, Balance, Moved
<1>2. RouteInv /\ Inv /\ [Next]_vars => Inv'
  <2> SUFFICES ASSUME RouteInv, Inv, [Next]_vars, NEW b \in Attempts PROVE Balance(b)'
    OBVIOUS
  <2>0. TypeOK /\ Balance(b)
    BY DEF RouteInv
  <2>1. ASSUME NEW a \in Attempts, Begin(a) \/ Handle(a) \/ Crash(a) PROVE Balance(b)'
    <3>1. CASE b = a
      BY <2>0, <2>1, <3>1, BalanceHandle
    <3>2. CASE b # a
      BY <2>0, <2>1, <3>2, OtherCalls, BalanceSame
    <3>. QED
      BY <3>1, <3>2
  <2>2. CASE (\E o \in Codes : Administer(o)) \/ DeleteInvalidRedemptions \/ UNCHANGED vars
    BY <2>0, <2>2, Outside, BalanceSame DEF ledger
  <2>. QED
    BY <2>1, <2>2 DEF Next
<1>3. Inv => TransferBalanced
  BY DEF Balance, Compensable, TransferBalanced
<1>. QED
  BY <1>1, <1>2, <1>3, Routed, PTL DEF Spec

-----------------------------------------------------------------------------
(* The answers.                                                               *)

\* The credit an answer, the step before it, a tag and a row stand for.
Backed(a) ==
    /\ pc[a] = "log" \/ reply[a] = "ok" => credit[a] = 1
    /\ reply[a] = "idempotent" => \E o \in TaggedLike(Of(a)) : Credited(o) # {}
Recorded == \A o \in marks \cup rows : Credited(o) # {}

EvidenceInv == Recorded /\ \A a \in Attempts : Backed(a)

\* No step takes a credit back.
LEMMA CreditKept ==
    ASSUME TypeOK, [Next]_vars
    PROVE  ord' = ord /\ \A a \in Attempts : credit[a] = 1 => credit'[a] = 1
<1>1. ASSUME NEW a \in Attempts, Begin(a) \/ Handle(a) \/ Crash(a)
      PROVE  ord' = ord /\ (credit[a] = 1 => credit'[a] = 1)
  BY <1>1 DEF Handle, Begin, Crash, CheckIdempotency, LookupUser, IncreaseQuota, IncreaseFails,
     AfterFailedCredit, RecordLog, DebitWallet, RollbackDebit, InsertExchange, CommitExchange,
     Rollback, ReadCode, SaveCode, Goto, Answer, Credit, ledger, TypeOK
<1>2. CASE (\E o \in Codes : Administer(o)) \/ DeleteInvalidRedemptions \/ UNCHANGED vars
  BY <1>2, Outside DEF ledger
<1>3. ASSUME NEW a \in Attempts, Begin(a) \/ Handle(a) \/ Crash(a)
      PROVE  ord' = ord /\ \A b \in Attempts : credit[b] = 1 => credit'[b] = 1
  BY <1>1, <1>3, OtherCalls
<1>. QED
  BY <1>2, <1>3 DEF Next

\* The orders that are credited stay so.
LEMMA CreditedGrows ==
    ASSUME TypeOK, [Next]_vars, NEW o
    PROVE  Credited(o) \subseteq Credited(o)'
  BY CreditKept DEF Credited, Of

\* Every handler answers with evidence, and records what is credited.
LEMMA EvidenceHandle ==
    ASSUME TypeOK, EvidenceInv, NEW a \in Attempts, Begin(a) \/ Handle(a) \/ Crash(a)
    PROVE  Recorded' /\ Backed(a)'
<1>0. /\ ord' = ord /\ Of(a)' = Of(a) /\ [Next]_vars
      /\ \A o : Credited(o) \subseteq Credited(o)'
      /\ TaggedLike(Of(a))' = TaggedLike(Of(a))
  <2>1. [Next]_vars
    BY DEF Next
  <2>. QED
    BY <2>1, CreditKept, CreditedGrows DEF Of, TaggedLike
<1>1. ASSUME credit'[a] = 1, marks' \cup rows' \subseteq marks \cup rows \cup {Of(a)} PROVE Recorded'
  <2>1. a \in Credited(Of(a))'
    BY <1>0, <1>1 DEF Credited, Of
  <2>. QED
    BY <1>0, <1>1, <2>1 DEF Recorded, EvidenceInv
<1>2. ASSUME UNCHANGED <<marks, rows>> PROVE Recorded'
  BY <1>0, <1>2 DEF Recorded, EvidenceInv
<1>3. ASSUME reply'[a] = reply[a], pc'[a] # "log" \/ credit'[a] = 1 PROVE Backed(a)'
  BY <1>0, <1>3, CreditKept DEF Backed, EvidenceInv
<1>4. ASSUME reply'[a] \in {"error", "refunded"}, pc'[a] # "log" PROVE Backed(a)'
  BY <1>4 DEF Backed
<1> USE DEF TypeOK, Goto, Answer
<1>5. CASE Begin(a) \/ Crash(a)
  BY <1>2, <1>3, <1>5 DEF Begin, Crash, tables
<1>6. CASE CheckIdempotency(a)
  <2>1. CASE Processed(Of(a)) /\ Answer(a, "idempotent")
    BY <1>0, <1>2, <1>6, <2>1 DEF CheckIdempotency, Processed, Backed, EvidenceInv, Recorded, tables
  <2>2. CASE Goto(a, IF Of(a) \in Transfers THEN "debit" ELSE "user")
    BY <1>2, <1>3, <1>6, <2>2 DEF CheckIdempotency, tables
  <2>. QED
    BY <1>6, <2>1, <2>2 DEF CheckIdempotency
<1>7. CASE LookupUser(a) \/ ReadCode(a)
  BY <1>2, <1>3, <1>4, <1>7 DEF LookupUser, ReadCode, tables
<1>8. CASE IncreaseQuota(a)
  BY <1>2, <1>3, <1>8 DEF IncreaseQuota, Credit, tables
<1>9. CASE IncreaseFails(a)
  BY <1>2, <1>3, <1>4, <1>9 DEF IncreaseFails, AfterFailedCredit, tables
<1>10. CASE RecordLog(a)
  <2>1. credit'[a] = 1
    BY <1>10 DEF RecordLog, EvidenceInv, Backed, ledger
  <2>2. marks' \cup rows' \subseteq marks \cup rows \cup {Of(a)} /\ reply'[a] = "ok"
    BY <1>10 DEF RecordLog
  <2>. QED
    BY <1>1, <2>1, <2>2 DEF Backed
<1>11. CASE DebitWallet(a) \/ RollbackDebit(a)
  BY <1>2, <1>3, <1>4, <1>11 DEF DebitWallet, RollbackDebit, tables
<1>12. CASE InsertExchange(a)
  BY <1>2, <1>3, <1>4, <1>12 DEF InsertExchange
<1>13. CASE CommitExchange(a)
  BY <1>1, <1>2, <1>3, <1>4, <1>13 DEF CommitExchange, Credit, Rollback
<1>14. CASE SaveCode(a)
  BY <1>2, <1>4, <1>14 DEF SaveCode, Credit, Backed
<1>. QED
  BY <1>5, <1>6, <1>7, <1>8, <1>9, <1>10, <1>11, <1>12, <1>13, <1>14 DEF Handle

\* A finite set with a member counts one at least.
LEMMA AtLeastOne ==
    ASSUME NEW S, IsFiniteSet(S), NEW x \in S
    PROVE  Cardinality(S) >= 1
  BY FS_CardinalityType, FS_EmptySet

\* The calls that credited an order are finitely many.
LEMMA CreditedFinite ==
    ASSUME NEW o PROVE IsFiniteSet(Credited(o))
  BY OrderSets, FS_Subset DEF Credited

\* A client that is told "done" or "already processed" has been credited: the tag and the
\* row are never visible before the credit they stand for.
THEOREM Answered == Spec => []AnsweredMeansCredited
<1>1. Init => EvidenceInv
  BY DEF Init, EvidenceInv, Backed, Recorded
<1>2. RouteInv /\ EvidenceInv /\ [Next]_vars => EvidenceInv'
  <2> SUFFICES ASSUME RouteInv, EvidenceInv, [Next]_vars PROVE EvidenceInv'
    OBVIOUS
  <2>0. TypeOK /\ ord' = ord /\ \A o : Credited(o) \subseteq Credited(o)'
    BY CreditKept, CreditedGrows DEF RouteInv
  <2>1. ASSUME NEW b \in Attempts, pc'[b] = pc[b], reply'[b] = reply[b] PROVE Backed(b)'
    BY <2>0, <2>1, CreditKept DEF EvidenceInv, Backed, Of, TaggedLike
  <2>2. ASSUME NEW a \in Attempts, Begin(a) \/ Handle(a) \/ Crash(a) PROVE EvidenceInv'
    BY <2>0, <2>1, <2>2, EvidenceHandle, OtherCalls DEF EvidenceInv
  <2>3. CASE (\E o \in Codes : Administer(o)) \/ DeleteInvalidRedemptions \/ UNCHANGED vars
    BY <2>0, <2>1, <2>3, Outside DEF EvidenceInv, Recorded
  <2>. QED
    BY <2>2, <2>3 DEF Next
<1>3. EvidenceInv => AnsweredMeansCredited
  <2> SUFFICES ASSUME EvidenceInv PROVE AnsweredMeansCredited
    OBVIOUS
  <2>1. ASSUME NEW o, Credited(o) # {} PROVE TimesCredited(o) >= 1
    BY <2>1, CreditedFinite, AtLeastOne DEF TimesCredited
  <2>2. ASSUME NEW a \in Attempts, credit[a] = 1 PROVE TimesCredited(Of(a)) >= 1
    BY <2>1, <2>2 DEF Credited
  <2>. QED
    BY <2>1, <2>2 DEF AnsweredMeansCredited, EvidenceInv, Backed
<1>. QED
  BY <1>1, <1>2, <1>3, Routed, PTL DEF Spec

-----------------------------------------------------------------------------
(* Exchanges: the unique key.                                                 *)

\* The row of an exchange stands for its one credit, and the holder of its key is about
\* to commit it.
Keyed(o) ==
    /\ o \notin rows => Credited(o) = {}
    /\ o \in rows => \E a \in Attempts : Credited(o) = {a}
    /\ claim[o] \in Attempts => Of(claim[o]) = o /\ pc[claim[o]] = "commit" /\ o \notin rows
    /\ \A a \in Attempts : Of(a) = o /\ pc[a] = "commit" => claim[o] = a

KeyInv == \A o \in Exchanges : Keyed(o)

\* What a step of a call does to the orders of the others.
LEMMA OtherOrders ==
    ASSUME RouteInv, NEW a \in Attempts, Begin(a) \/ Handle(a) \/ Crash(a),
           NEW o \in Orders, o # Of(a)
    PROVE  /\ Credited(o)' = Credited(o) /\ InFlight(o)' = InFlight(o)
           /\ o \in marks' <=> o \in marks
           /\ o \in rows' <=> o \in rows
           /\ o \in Codes => code'[o] = code[o]
           /\ o \in Exchanges => claim'[o] = claim[o] \/ (claim[o] = a /\ Crash(a))
           /\ edit' = edit
<1>0. TypeOK
  BY DEF RouteInv
<1>1. \A b \in Attempts : Of(b) = o => b # a
  OBVIOUS
<1>2. ord' = ord /\ \A b \in Attempts : b # a => pc'[b] = pc[b] /\ credit'[b] = credit[b]
  <2>1. ord' = ord
    BY <1>0, CreditKept DEF Next
  <2>. QED
    BY <1>0, <2>1, OtherCalls
<1>3. Credited(o)' = Credited(o) /\ InFlight(o)' = InFlight(o)
  BY <1>1, <1>2 DEF Credited, InFlight, Of
<1>4. edit' = edit
  BY DEF Handle, Begin, Crash, CheckIdempotency, LookupUser, IncreaseQuota, IncreaseFails, RecordLog,
     DebitWallet, RollbackDebit, InsertExchange, CommitExchange, ReadCode, SaveCode, tables
<1>5. o \in marks' <=> o \in marks
  BY DEF Handle, Begin, Crash, CheckIdempotency, LookupUser, IncreaseQuota, IncreaseFails, RecordLog,
     DebitWallet, RollbackDebit, InsertExchange, CommitExchange, ReadCode, SaveCode, tables
<1>6. o \in rows' <=> o \in rows
  BY DEF Handle, Begin, Crash, CheckIdempotency, LookupUser, IncreaseQuota, IncreaseFails, RecordLog,
     DebitWallet, RollbackDebit, InsertExchange, CommitExchange, Rollback, ReadCode, SaveCode, tables
<1>7. ASSUME o \in Codes PROVE code'[o] = code[o]
  BY <1>0, <1>7 DEF Handle, Begin, Crash, CheckIdempotency, LookupUser, IncreaseQuota, IncreaseFails,
     RecordLog, DebitWallet, RollbackDebit, InsertExchange, CommitExchange, ReadCode, SaveCode, tables,
     TypeOK
<1>8. ASSUME o \in Exchanges PROVE claim'[o] = claim[o] \/ (claim[o] = a /\ Crash(a))
  <2>1. CASE Begin(a) \/ CheckIdempotency(a) \/ LookupUser(a) \/ IncreaseQuota(a) \/ IncreaseFails(a)
             \/ RecordLog(a) \/ DebitWallet(a) \/ RollbackDebit(a) \/ ReadCode(a) \/ SaveCode(a)
    <3>1. claim' = claim
      BY <2>1 DEF Begin, CheckIdempotency, LookupUser, IncreaseQuota, IncreaseFails, RecordLog,
         DebitWallet, RollbackDebit, ReadCode, SaveCode, tables
    <3>. QED
      BY <3>1
  <2>2. CASE InsertExchange(a) \/ CommitExchange(a)
    <3>1. claim'[o] = claim[o]
      BY <1>0, <1>8, <2>2 DEF InsertExchange, CommitExchange, Rollback, TypeOK
    <3>. QED
      BY <3>1
  <2>3. CASE Crash(a)
    BY <1>8, <2>3 DEF Crash
  <2>. QED
    BY <2>1, <2>2, <2>3 DEF Handle
<1>. QED
  BY <1>3, <1>4, <1>5, <1>6, <1>7, <1>8

\* The steps of a call keep the key of its own exchange.
LEMMA KeyOwn ==
    ASSUME RouteInv, KeyInv, NEW a \in Attempts, Begin(a) \/ Handle(a) \/ Crash(a),
           NEW o \in Exchanges, Of(a) = o
    PROVE  Keyed(o)'
<1>0. /\ TypeOK /\ Keyed(o) /\ Route(a) /\ ord' = ord /\ Of(a) = o
      /\ o \notin Topups \cup Transfers \cup Codes
  <2>1. TypeOK /\ o \in Orders /\ [Next]_vars
    BY DEF RouteInv, TypeOK, Of, Next
  <2>. QED
    BY <2>1, CreditKept, OneKind DEF RouteInv, KeyInv, Of
<1>1. \A b \in Attempts : b # a => pc'[b] = pc[b] /\ credit'[b] = credit[b]
  BY <1>0, OtherCalls
<1>2. ASSUME pc[a] # "commit", pc'[a] # "commit", UNCHANGED <<rows, claim, credit>>
      PROVE  Keyed(o)'
  BY <1>0, <1>1, <1>2 DEF Keyed, Credited, Of
<1> USE <1>0, OrderSets DEF TypeOK, Goto, Answer, ledger
<1>3. CASE Begin(a)
  BY <1>2, <1>3 DEF Begin, tables
<1>4. CASE CheckIdempotency(a)
  BY <1>2, <1>4 DEF CheckIdempotency, tables
<1>5. CASE LookupUser(a)
  BY <1>2, <1>5 DEF LookupUser, tables
<1>6. CASE RecordLog(a)
  BY <1>2, <1>6 DEF RecordLog
<1>7. CASE InsertExchange(a)
  <2>1. UNCHANGED <<rows, credit>> /\ pc[a] = "insert" /\ claim[o] = Nobody
    BY <1>7 DEF InsertExchange
  <2>2. CASE KeyFree(a) /\ claim' = [claim EXCEPT ![o] = a] /\ Goto(a, "commit")
    <3>1. o \notin rows' /\ claim'[o] = a /\ pc'[a] = "commit" /\ Credited(o)' = {}
      BY <2>1, <2>2 DEF KeyFree, Keyed, Credited, Of
    <3>2. \A b \in Attempts : Of(b) # o \/ pc[b] # "commit"
      BY <2>1 DEF Keyed
    <3>. QED
      BY <1>1, <3>1, <3>2 DEF Keyed, Of
  <2>3. CASE Answer(a, "error") /\ UNCHANGED claim
    BY <1>2, <2>1, <2>3
  <2>. QED
    BY <1>7, <2>2, <2>3 DEF InsertExchange
<1>8. CASE CommitExchange(a)
  <2>1. pc[a] = "commit" /\ claim[o] = a /\ o \notin rows /\ Credited(o) = {}
    BY <1>8 DEF CommitExchange, Keyed
  <2>2. pc'[a] # "commit" /\ claim'[o] = Nobody
    BY <1>8 DEF CommitExchange, Rollback
  <2>3. \A b \in Attempts : Of(b) = o /\ pc[b] = "commit" => b = a
    BY <2>1 DEF Keyed
  <2>4. CASE rows' = rows \cup {o} /\ Credit(a)
    <3>1. Credited(o)' = {a}
      BY <2>1, <2>4 DEF Credited, Credit, Of
    <3>. QED
      BY <1>1, <2>2, <2>3, <2>4, <3>1 DEF Keyed, Of
  <2>5. CASE UNCHANGED <<rows, ledger>>
    <3>1. Credited(o)' = {} /\ o \notin rows'
      BY <2>1, <2>5 DEF Credited, Of
    <3>. QED
      BY <1>1, <2>2, <2>3, <3>1 DEF Keyed, Of
  <2>. QED
    BY <1>8, <2>4, <2>5 DEF CommitExchange, Rollback
<1>9. CASE Crash(a)
  <2>1. /\ UNCHANGED <<rows, credit>> /\ pc'[a] = "done"
        /\ claim' = [c \in Exchanges |-> IF claim[c] = a THEN Nobody ELSE claim[c]]
    BY <1>9 DEF Crash
  <2>2. Credited(o)' = Credited(o)
    BY <2>1 DEF Credited, Of
  <2>. QED
    BY <1>1, <2>1, <2>2 DEF Keyed, Of
<1>10. CASE IncreaseQuota(a) \/ IncreaseFails(a) \/ DebitWallet(a) \/ RollbackDebit(a)
            \/ ReadCode(a) \/ SaveCode(a)
  BY <1>10 DEF IncreaseQuota, IncreaseFails, DebitWallet, RollbackDebit, ReadCode, SaveCode, Route
<1>. QED
  BY <1>3, <1>4, <1>5, <1>6, <1>7, <1>8, <1>9, <1>10 DEF Handle

\* Every step keeps the keys.
LEMMA KeyStep == RouteInv /\ KeyInv /\ [Next]_vars => KeyInv'
<1> SUFFICES ASSUME RouteInv, KeyInv, [Next]_vars, NEW o \in Exchanges PROVE Keyed(o)'
  BY DEF KeyInv
<1>0. TypeOK /\ Keyed(o) /\ ord' = ord /\ o \in Orders
  BY CreditKept DEF RouteInv, KeyInv, Orders
<1>1. ASSUME NEW a \in Attempts, Begin(a) \/ Handle(a) \/ Crash(a) PROVE Keyed(o)'
  <2>1. CASE o = Of(a)
    BY <1>1, <2>1, KeyOwn
  <2>2. CASE o # Of(a)
    <3>1. claim'[o] = claim[o]
      BY <1>0, <1>1, <2>2, OtherOrders DEF Keyed
    <3>2. Credited(o)' = Credited(o) /\ (o \in rows' <=> o \in rows)
      BY <1>0, <1>1, <2>2, OtherOrders
    <3>3. \A b \in Attempts : Of(b) = o => pc'[b] = pc[b]
      BY <1>0, <1>1, <2>2, OtherCalls
    <3>. QED
      BY <1>0, <3>1, <3>2, <3>3 DEF Keyed, Of
  <2>. QED
    BY <2>1, <2>2
<1>2. CASE (\E c \in Codes : Administer(c)) \/ DeleteInvalidRedemptions \/ UNCHANGED vars
  BY <1>0, <1>2, Outside DEF Keyed, Credited, Of, ledger
<1>. QED
  BY <1>1, <1>2 DEF Next

-----------------------------------------------------------------------------
(* The other orders: the log tag and the status of a code.                    *)

\* Nothing has happened that lets two calls credit one order.
Clean(o) ==
    /\ o \notin overlapped \cup reissued
    /\ \A a \in Attempts : Of(a) = o => fault[a] = {}

\* One call at a time; the first credit is the last, because the tag or the status shows
\* it to every later call before that reaches the credit.
OneCall(o)   == \A x, y \in InFlight(o) : x = y
OneCredit(o) == \A x, y \in Credited(o) : x = y
Tagged(o)    == \A x \in Credited(o) : o \in Topups \cup Transfers => o \in marks \/ pc[x] = "log"
Ahead(o)     == \A x \in InFlight(o) :
                    pc[x] \in {"user", "debit", "credit", "save"} => Credited(o) = {}
Spent(o)     == o \in Codes /\ Credited(o) # {} =>
                    /\ code[o] \notin {"enabled", "absent"}
                    /\ ~(edit.order = o /\ edit.status = "enabled")
Alone(o)     == edit.order = o => InFlight(o) = {}

Single(o) == OneCall(o) /\ OneCredit(o) /\ Tagged(o) /\ Ahead(o) /\ Spent(o) /\ Alone(o)

SingleInv == \A o \in Orders \ Exchanges : Clean(o) => Single(o)

\* What has happened stays known.
LEMMA CleanBefore ==
    ASSUME TypeOK, [Next]_vars, NEW o, Clean(o)'
    PROVE  Clean(o)
<1>0. ord' = ord
  BY CreditKept
<1>1. overlapped \cup reissued \subseteq overlapped' \cup reissued'
  <2>1. ASSUME NEW a \in Attempts, Begin(a) \/ Handle(a) \/ Crash(a)
        PROVE  overlapped \subseteq overlapped' /\ reissued \subseteq reissued'
    BY <2>1 DEF Begin, Handle, Crash, CheckIdempotency, LookupUser, IncreaseQuota, IncreaseFails,
       RecordLog, DebitWallet, RollbackDebit, InsertExchange, CommitExchange, ReadCode, SaveCode,
       Hit, history
  <2>2. ASSUME NEW c \in Codes, Administer(c)
        PROVE  overlapped \subseteq overlapped' /\ reissued \subseteq reissued'
    BY <2>2, Zenon DEF Administer, AddRedemption, CodeExpires, EditRead, EditWrite, DeleteRedemption,
       history
  <2>3. CASE DeleteInvalidRedemptions \/ UNCHANGED vars
    BY <2>3 DEF DeleteInvalidRedemptions, vars, history
  <2>. QED
    BY <2>1, <2>2, <2>3 DEF Next
<1>2. ASSUME NEW b \in Attempts PROVE fault[b] \subseteq fault'[b]
  <2>1. ASSUME NEW a \in Attempts, Begin(a) \/ Handle(a) \/ Crash(a) PROVE fault[b] \subseteq fault'[b]
    BY <2>1 DEF Begin, Handle, Crash, CheckIdempotency, LookupUser, IncreaseQuota, IncreaseFails,
       RecordLog, DebitWallet, RollbackDebit, InsertExchange, CommitExchange, ReadCode, SaveCode,
       Hit, history, TypeOK
  <2>2. CASE (\E c \in Codes : Administer(c)) \/ DeleteInvalidRedemptions \/ UNCHANGED vars
    BY <2>2, Outside
  <2>. QED
    BY <2>1, <2>2 DEF Next
<1>. QED
  BY <1>0, <1>1, <1>2 DEF Clean, Of

\* A fault is remembered.
LEMMA HitIsDirty ==
    ASSUME TypeOK, ord' = ord, NEW a \in Attempts, NEW o, Of(a) = o, Clean(o)', NEW f, Hit(a, f)
    PROVE  FALSE
  BY DEF Hit, Clean, Of, TypeOK

\* A step of a call in flight that credits nothing.
LEMMA SingleMove ==
    ASSUME RouteInv, NEW a \in Attempts, NEW o, Of(a) = o, Single(o), ord' = ord,
           \A b \in Attempts : b # a => pc'[b] = pc[b],
           pc[a] \notin {"idle", "done"}, pc[a] = "log" /\ o \in Topups \cup Transfers => o \in marks',
           pc'[a] \in {"user", "debit", "credit", "save"} => Credited(o) = {},
           marks \subseteq marks', UNCHANGED <<code, edit, credit>>
    PROVE  Single(o)'
<1>1. Credited(o)' = Credited(o)
  BY DEF Credited, Of
<1>2. a \in InFlight(o) /\ InFlight(o)' \subseteq InFlight(o)
  BY DEF InFlight, Of
<1>3. OneCall(o)' /\ OneCredit(o)'
  BY <1>1, <1>2 DEF Single, OneCall, OneCredit
<1>4. Tagged(o)'
  BY <1>1 DEF Single, Tagged, Credited
<1>5. Ahead(o)'
  BY <1>1, <1>2 DEF Single, Ahead, InFlight
<1>6. Spent(o)' /\ Alone(o)'
  BY <1>1, <1>2 DEF Single, Spent, Alone
<1>. QED
  BY <1>3, <1>4, <1>5, <1>6 DEF Single

\* The step of a call in flight that credits its order.
LEMMA SinglePay ==
    ASSUME RouteInv, NEW a \in Attempts, NEW o, Of(a) = o, Single(o), Credit(a), ord' = ord,
           \A b \in Attempts : b # a => pc'[b] = pc[b],
           pc[a] \in {"credit", "save"}, pc'[a] \in {"log", "done"},
           o \in Topups \cup Transfers => pc'[a] = "log",
           o \in Codes => code'[o] = "used", edit' = edit
    PROVE  Single(o)'
<1>1. a \in InFlight(o) /\ InFlight(o)' \subseteq {a}
  BY DEF InFlight, Of, Single, OneCall
<1>2. Credited(o) = {}
  BY <1>1 DEF Single, Ahead
<1>3. Credited(o)' = {a}
  BY <1>2 DEF Credited, Credit, Of, RouteInv, TypeOK
<1>4. OneCall(o)' /\ OneCredit(o)' /\ Tagged(o)' /\ Ahead(o)'
  BY <1>1, <1>3 DEF OneCall, OneCredit, Tagged, Ahead
<1>5. Spent(o)' /\ Alone(o)'
  BY <1>1 DEF Single, Spent, Alone
<1>. QED
  BY <1>4, <1>5 DEF Single

\* Every step of a call keeps its order credited once.
LEMMA SingleOwn ==
    ASSUME RouteInv, NEW a \in Attempts, Begin(a) \/ Handle(a) \/ Crash(a),
           NEW o \in Orders \ Exchanges, Of(a) = o, Single(o), Clean(o)'
    PROVE  Single(o)'
<1>0. TypeOK /\ Route(a) /\ ord' = ord /\ \A b \in Attempts : b # a => pc'[b] = pc[b]
  <2>1. TypeOK /\ Route(a) /\ [Next]_vars
    BY DEF RouteInv, Next
  <2>. QED
    BY <2>1, CreditKept, OtherCalls
<1>1. \A f : ~Hit(a, f)
  BY <1>0, HitIsDirty
<1>2. o \notin Exchanges /\ Of(a) \notin Exchanges
  OBVIOUS
<1>3. /\ o \in Codes => o \notin Topups \cup Transfers
      /\ o \in Topups => o \notin Codes \cup Transfers
      /\ o \in Codes \cup Topups \cup Transfers
  BY OneKind
<1>4. pc \in [Attempts -> Labels]
  BY <1>0 DEF TypeOK
<1> USE DEF Goto, Answer
<1>5. CASE Begin(a)
  <2>1. InFlight(o) = {} /\ edit.order # o
    BY <1>5 DEF Begin, Clean
  <2>2. /\ pc[a] = "idle" /\ pc'[a] \in {"read", "check"}
        /\ UNCHANGED <<marks, code, edit, credit>>
    BY <1>4, <1>5 DEF Begin, tables, ledger
  <2>3. InFlight(o)' \subseteq {a}
    BY <1>0, <2>1 DEF InFlight, Of
  <2>4. Credited(o)' = Credited(o)
    BY <1>0, <2>2 DEF Credited, Of
  <2>5. OneCall(o)' /\ OneCredit(o)' /\ Ahead(o)'
    BY <2>2, <2>3, <2>4 DEF Single, OneCall, OneCredit, Ahead
  <2>6. Tagged(o)'
    BY <1>0, <2>2, <2>4 DEF Single, Tagged, Credited
  <2>7. Spent(o)' /\ Alone(o)'
    BY <2>1, <2>2, <2>4 DEF Single, Spent, Alone
  <2>. QED
    BY <2>5, <2>6, <2>7 DEF Single
<1>6. CASE CheckIdempotency(a)
  <2>1. pc[a] = "check" /\ UNCHANGED <<marks, code, edit, credit>>
    BY <1>6 DEF CheckIdempotency, tables, ledger
  <2>2. CASE ~Processed(o) /\ pc'[a] \in {"user", "debit"}
    <3>1. o \notin marks /\ o \notin Codes
      BY <1>0, <1>3, <2>1, <2>2 DEF Processed, TaggedLike, Route
    <3>2. \A x \in Credited(o) : x = a
      BY <1>3, <2>1, <3>1 DEF Single, Tagged, OneCall, Credited, InFlight
    <3>3. Credited(o) = {}
      BY <1>3, <2>1, <3>1, <3>2 DEF Single, Tagged
    <3>. QED
      BY <1>0, <2>1, <3>3, SingleMove
  <2>3. CASE pc'[a] = "done"
    BY <1>0, <2>1, <2>3, SingleMove
  <2>. QED
    BY <1>1, <1>4, <1>6, <2>2, <2>3 DEF CheckIdempotency
<1>7. CASE LookupUser(a) \/ DebitWallet(a)
  <2>1. pc[a] \in {"user", "debit"} /\ pc'[a] \in {"credit", "done"}
    BY <1>1, <1>2, <1>4, <1>7 DEF LookupUser, DebitWallet
  <2>2. UNCHANGED <<marks, code, edit, credit>>
    BY <1>7 DEF LookupUser, DebitWallet, tables, ledger
  <2>3. Credited(o) = {}
    BY <2>1 DEF Single, Ahead, InFlight
  <2>. QED
    BY <1>0, <2>1, <2>2, <2>3, SingleMove
<1>8. CASE IncreaseQuota(a)
  BY <1>0, <1>3, <1>4, <1>8, SinglePay DEF IncreaseQuota, Route, tables
<1>9. CASE RecordLog(a)
  <2>1. pc[a] = "log" /\ pc'[a] = "done" /\ UNCHANGED <<code, edit, credit>>
    BY <1>4, <1>9 DEF RecordLog, ledger
  <2>2. marks \subseteq marks' /\ (o \in Topups \cup Transfers => o \in marks')
    BY <1>1, <1>9 DEF RecordLog
  <2>. QED
    BY <1>0, <2>1, <2>2, SingleMove
<1>10. CASE RollbackDebit(a)
  BY <1>0, <1>4, <1>10, SingleMove DEF RollbackDebit, tables
<1>11. CASE ReadCode(a)
  <2>1. pc[a] = "read" /\ UNCHANGED <<marks, code, edit, credit>>
    BY <1>11 DEF ReadCode, tables, ledger
  <2>2. CASE Redeemable(o) /\ pc'[a] = "save"
    <3>1. o \in Codes
      BY <1>0, <1>3, <2>1 DEF Route
    <3>2. Credited(o) = {}
      BY <2>2, <3>1 DEF Redeemable, Single, Spent
    <3>. QED
      BY <1>0, <2>1, <3>2, SingleMove
  <2>3. CASE pc'[a] = "done"
    BY <1>0, <2>1, <2>3, SingleMove
  <2>. QED
    BY <1>4, <1>11, <2>2, <2>3 DEF ReadCode
<1>12. CASE SaveCode(a)
  <2>1. o \in Codes
    BY <1>0, <1>3, <1>12 DEF SaveCode, Route
  <2>2. pc[a] = "save" /\ pc'[a] = "done" /\ Credit(a) /\ code'[o] = "used" /\ edit' = edit
    BY <1>0, <1>1, <1>4, <1>12, <2>1 DEF SaveCode, TypeOK
  <2>. QED
    BY <1>0, <1>3, <2>1, <2>2, SinglePay
<1>13. CASE IncreaseFails(a) \/ Crash(a)
  BY <1>1, <1>13 DEF IncreaseFails, Crash
<1>14. CASE InsertExchange(a) \/ CommitExchange(a)
  BY <1>0, <1>3, <1>14 DEF InsertExchange, CommitExchange, Route
<1>. QED
  BY <1>5, <1>6, <1>7, <1>8, <1>9, <1>10, <1>11, <1>12, <1>13, <1>14 DEF Handle

\* What administrators do to a code keeps it credited once.
LEMMA SingleAdminister ==
    ASSUME RouteInv, NEW o \in Orders \ Exchanges, Single(o), Clean(o)',
           (\E c \in Codes : Administer(c)) \/ DeleteInvalidRedemptions \/ UNCHANGED vars
    PROVE  Single(o)'
<1>0. TypeOK /\ UNCHANGED <<ord, pc, marks, credit>>
  BY Outside DEF RouteInv, ledger
<1>1. Credited(o)' = Credited(o) /\ InFlight(o)' = InFlight(o)
  BY <1>0 DEF Credited, InFlight, Of
<1>2. OneCall(o)' /\ OneCredit(o)' /\ Tagged(o)' /\ Ahead(o)'
  BY <1>0, <1>1 DEF Single, OneCall, OneCredit, Tagged, Ahead
<1>3. ASSUME UNCHANGED edit, o \in Codes /\ Credited(o) # {} => code'[o] = code[o] \/ code'[o] = "deleted"
      PROVE  Spent(o)' /\ Alone(o)'
  BY <1>1, <1>3 DEF Single, Spent, Alone
<1>4. ASSUME NEW c \in Codes, Administer(c) PROVE Spent(o)' /\ Alone(o)'
  <2>1. CASE AddRedemption(c)
    BY <1>0, <1>3, <2>1 DEF AddRedemption, TypeOK, Single, Spent
  <2>2. CASE CodeExpires(c)
    BY <1>3, <2>2 DEF CodeExpires
  <2>3. CASE DeleteRedemption(c)
    BY <1>0, <1>3, <2>3 DEF DeleteRedemption, TypeOK
  <2>4. CASE EditRead(c)
    <3>1. edit'.order = c /\ edit'.status = code[c] /\ code' = code
      BY <2>4 DEF EditRead
    <3>2. Spent(o)'
      BY <1>1, <3>1 DEF Single, Spent
    <3>3. c = o => InFlight(o) = {}
      BY <2>4 DEF EditRead, Clean
    <3>. QED
      BY <1>1, <3>1, <3>2, <3>3 DEF Alone
  <2>5. CASE EditWrite(c)
    <3>0. edit.order = c /\ edit.status \in Statuses /\ c \in Orders
      BY <1>0, <2>5, EditOf DEF EditWrite, Orders
    <3>1. edit'.order # o
      BY <2>5, NoEditIs, OrderSets DEF EditWrite
    <3>2. PICK s \in Statuses : /\ WriteStatus(c, s)
                                /\ Credited(c) # {} /\ c \notin reissued' /\ s = "enabled"
                                       => edit.status = "enabled"
      <4>1. CASE WriteStatus(c, edit.status)
        BY <3>0, <4>1
      <4>2. CASE \E s \in Statuses :
                    /\ WriteStatus(c, s)
                    /\ reissued' = IF s = "enabled" /\ edit.status # "enabled" /\ Credited(c) # {}
                                   THEN reissued \cup {c} ELSE reissued
        BY <4>2
      <4>. QED
        BY <2>5, <4>1, <4>2 DEF EditWrite
    <3>3. code'[o] = code[o] \/ (c = o /\ code[o] \in Statuses /\ code'[o] = s) \/ o \notin Codes
      BY <1>0, <3>2, StatusWritten
    <3>4. o \notin reissued'
      BY DEF Clean
    <3>5. ASSUME o \in Codes, Credited(o) # {} PROVE code'[o] \notin {"enabled", "absent"}
      <4>1. code[o] \notin {"enabled", "absent"} /\ ~(edit.order = o /\ edit.status = "enabled")
        BY <3>5 DEF Single, Spent
      <4>2. CASE c = o /\ code'[o] = s
        BY <3>0, <3>2, <3>4, <3>5, <4>1, <4>2 DEF Statuses
      <4>. QED
        BY <3>3, <3>5, <4>1, <4>2
    <3>. QED
      BY <1>1, <3>1, <3>5 DEF Spent, Alone
  <2>. QED
    BY <1>4, <2>1, <2>2, <2>3, <2>4, <2>5 DEF Administer
<1>5. CASE DeleteInvalidRedemptions
  BY <1>2, <1>3, <1>5 DEF DeleteInvalidRedemptions, Single
<1>6. CASE UNCHANGED vars
  BY <1>2, <1>3, <1>6 DEF vars, tables, Single
<1>. QED
  BY <1>2, <1>4, <1>5, <1>6 DEF Single

\* Every step keeps the orders credited once.
LEMMA SingleStep == RouteInv /\ SingleInv /\ [Next]_vars => SingleInv'
<1> SUFFICES ASSUME RouteInv, SingleInv, [Next]_vars, NEW o \in Orders \ Exchanges, Clean(o)'
             PROVE  Single(o)'
  BY DEF SingleInv
<1>0. TypeOK /\ Single(o) /\ ord' = ord
  BY CleanBefore, CreditKept DEF RouteInv, SingleInv
<1>1. ASSUME NEW a \in Attempts, Begin(a) \/ Handle(a) \/ Crash(a) PROVE Single(o)'
  <2>1. CASE Of(a) = o
    BY <1>0, <1>1, <2>1, SingleOwn
  <2>2. CASE Of(a) # o
    <3>1. /\ Credited(o)' = Credited(o) /\ InFlight(o)' = InFlight(o) /\ edit' = edit
          /\ o \in marks' <=> o \in marks
          /\ o \in Codes => code'[o] = code[o]
      BY <1>1, <2>2, OtherOrders
    <3>2. \A b \in Attempts : Of(b) = o => pc'[b] = pc[b]
      BY <1>0, <1>1, <2>2, OtherCalls
    <3>3. OneCall(o)' /\ OneCredit(o)' /\ Tagged(o)' /\ Ahead(o)'
      <4>1. \A x \in Credited(o) \cup InFlight(o) : pc'[x] = pc[x]
        BY <3>2 DEF Credited, InFlight
      <4>. QED
        BY <1>0, <3>1, <4>1 DEF Single, OneCall, OneCredit, Tagged, Ahead
    <3>4. Spent(o)' /\ Alone(o)'
      BY <1>0, <3>1 DEF Single, Spent, Alone
    <3>. QED
      BY <3>3, <3>4 DEF Single
  <2>. QED
    BY <2>1, <2>2
<1>2. CASE (\E c \in Codes : Administer(c)) \/ DeleteInvalidRedemptions \/ UNCHANGED vars
  BY <1>0, <1>2, SingleAdminister
<1>. QED
  BY <1>1, <1>2 DEF Next

\* A set of which all members are equal counts one at most.
LEMMA AtMostOne ==
    ASSUME NEW S, \A x, y \in S : x = y
    PROVE  Cardinality(S) <= 1
<1>1. CASE S = {}
  BY <1>1, FS_EmptySet
<1>2. CASE S # {}
  <2>1. PICK x \in S : S = {x}
    BY <1>2
  <2>. QED
    BY <2>1, FS_Singleton
<1>. QED
  BY <1>1, <1>2

\* An exchange is credited once and exactly when its row exists, whatever is sent and fails;
\* any other order once, unless two of its calls (or a call and an edit) overlapped, a fault
\* hit one of them or an administrator enabled the redeemed code again.
THEOREM Once == Spec => []CreditedOnce
<1>1. Init => KeyInv /\ SingleInv
  <2> SUFFICES ASSUME Init PROVE KeyInv /\ SingleInv
    OBVIOUS
  <2>1. \A o : Credited(o) = {} /\ InFlight(o) = {}
    BY DEF Init, Credited, InFlight
  <2>2. \A o \in Exchanges : Keyed(o)
    BY <2>1, OrderSets DEF Init, Keyed
  <2>3. \A o \in Orders : edit.order # o
    BY NoEditIs, OrderSets DEF Init
  <2>. QED
    BY <2>1, <2>2, <2>3
    DEF KeyInv, SingleInv, Single, OneCall, OneCredit, Tagged, Ahead, Spent, Alone
<1>2. KeyInv /\ SingleInv => CreditedOnce
  <2> SUFFICES ASSUME KeyInv, SingleInv PROVE CreditedOnce
    OBVIOUS
  <2>1. ASSUME NEW o \in Exchanges PROVE TimesCredited(o) = IF o \in rows THEN 1 ELSE 0
    BY FS_EmptySet, FS_Singleton DEF KeyInv, Keyed, TimesCredited
  <2>2. ASSUME NEW o \in Orders \ Exchanges, Clean(o) PROVE TimesCredited(o) <= 1
    BY <2>2, AtMostOne DEF SingleInv, Single, OneCredit, TimesCredited
  <2>. QED
    BY <2>1, <2>2 DEF CreditedOnce, Clean
<1>. QED
  BY <1>1, <1>2, KeyStep, SingleStep, Routed, PTL DEF Spec
=============================================================================
