------------------------- MODULE RelayBillingProofs -------------------------
(* Theorems about RelayBilling, for any number of requests, any faults and   *)
(* any amounts.                                                              *)
EXTENDS RelayBilling, SetSums

\* What the request has cost once PostConsumeQuota is done: its price or nothing.
Due(r) == IF Served(r) THEN cost[r] ELSE 0

\* The part of an amount the token pays.
TokenPart(r, q) == IF r \in Playground THEN 0 ELSE q

\* Both ledgers of the request hold q.
Took(r, q) == user[r] = q /\ token[r] = TokenPart(r, q)

BeforeDeduction == {"idle", "preauth", "check", "tokenCheck", "tokenDec"}
Unanswered      == BeforeDeduction \cup {"userDec", "reject", "attempt", "release"}
InPostConsume   == {"postUser", "postToken", "compensate", "wallet", "walletBad"}

\* Where a request can be, given what it has met.
Position(r) ==
    /\ pc[r] \in {"tokenDec", "compensate"} => r \notin Playground
    /\ pc[r] \in {"compensate", "walletBad"} => r \in Faulty
    /\ pc[r] \in Unanswered => ~Served(r)
    /\ pc[r] \in BeforeDeduction \cup {"userDec", "reject"} => pre[r] = 0
    /\ pc[r] \in InPostConsume \cup {"release"} => Served(r) \/ err[r]
    /\ Served(r) => ~err[r]

\* What the ledgers hold at each point; a fault may leave one of them behind.
Taken(r) ==
    /\ user[r] >= 0 /\ token[r] >= 0
    /\ pc[r] \in BeforeDeduction => Took(r, 0)
    /\ pc[r] \in {"userDec", "reject"} => user[r] = 0
    /\ At(r, "userDec") => token[r] = TokenPart(r, est[r])
    /\ At(r, "reject") /\ r \notin Faulty => token[r] = 0
    /\ pc[r] \in {"attempt", "postUser"} => Took(r, pre[r])
    /\ pc[r] \in {"postToken", "compensate"} => user[r] = Due(r)
    /\ pc[r] \in {"postToken", "compensate", "walletBad"} => token[r] = TokenPart(r, pre[r])
    /\ At(r, "wallet") => Took(r, Due(r))
    /\ At(r, "finish") /\ ~Served(r) => Took(r, pre[r])
    /\ At(r, "finish") /\ Served(r) /\ r \notin Faulty => Took(r, cost[r])
    /\ At(r, "release") /\ r \notin Faulty => Took(r, 0)
    /\ At(r, "done") /\ r \notin Faulty /\ Served(r) => Took(r, cost[r])
    /\ At(r, "done") /\ r \notin Faulty /\ err[r] => Took(r, 0)

LedgerInv == \A r \in Requests : Position(r) /\ Taken(r)

-----------------------------------------------------------------------------
(* Typing.                                                                   *)

\* Releasing a hold, or queueing the release, keeps the platform's state well typed.
LEMMA ReleaseTyping ==
    ASSUME TypeOK, NEW r \in Requests, ReleaseHold(r)
    PROVE  /\ hold' \in [Requests -> {"none", "held", "settled", "released", "expired"}]
           /\ wallet' \in [Requests -> Int]
           /\ outbox' \in SUBSET Row
<1>1. Row0(r, "release") \in Row
  BY DEF Row0, Row, Actions
<1>. QED
  BY <1>1 DEF ReleaseHold, ReleaseFails, PlatformRelease, Enqueue, TypeOK, platform

\* The price of a served request is a natural number.
LEMMA CostTyping ==
    ASSUME TypeOK, NEW r \in Requests
    PROVE  pre[r] \in Nat /\ cost[r] \in Int /\ (Served(r) => cost[r] \in Nat)
<1>1. Costs \subseteq Nat /\ Unserved \in Int
  BY Amounts DEF Unserved
<1>2. (cost[r] \in Costs \/ cost[r] = Unserved) /\ pre[r] \in Nat
  BY DEF TypeOK
<1>3. cost[r] \in Costs => cost[r] \in Nat
  BY <1>1
<1>4. cost[r] \in Int
  BY <1>1, <1>2, <1>3
<1>5. Served(r) => cost[r] \in Nat
  BY <1>2, <1>3 DEF Served
<1>. QED
  BY <1>2, <1>4, <1>5

\* The amounts PostConsumeQuota computes are integers.
LEMMA AmountTyping ==
    ASSUME TypeOK, NEW r \in Requests
    PROVE  Delta(r) \in Int /\ SettleAmount(r) \in Int
<1>1. Delta(r) \in Int
  BY CostTyping DEF Delta, Served
<1>. QED
  BY CostTyping, <1>1 DEF SettleAmount

\* The number of retries stays in its range because a request that is at an
\* attempt, or may still come there, has one left.
AttemptsLeft ==
    \A r \in Requests :
        pc[r] \in BeforeDeduction \cup {"userDec", "attempt"} => retry[r] <= RetryTimes

Typed == TypeOK /\ AttemptsLeft

\* Every step keeps the types and the bound on the retries.
LEMMA TypedInvariant == Spec => []Typed
<1>1. Init => Typed
  BY Amounts, Limits DEF Init, Typed, TypeOK, AttemptsLeft, BeforeDeduction, At, Labels, Unserved
<1>2. Typed /\ [Next]_vars => Typed'
  <2> SUFFICES ASSUME Typed, [Next]_vars PROVE Typed'
    OBVIOUS
  <2> USE Amounts, Limits DEF Typed, TypeOK, AttemptsLeft, BeforeDeduction, localVars, quotas, platform, At, Goto
  <2>1. ASSUME NEW r \in Requests, NEW e \in Estimates, Begin(r, e) PROVE Typed'
    BY <2>1 DEF Begin, Labels
  <2>2. ASSUME NEW r \in Requests, Unauthorized(r) PROVE Typed'
    BY <2>2 DEF Unauthorized, Labels
  <2>3. ASSUME NEW r \in Requests, LegacyDebit(r) PROVE Typed'
    <3>1. (IF r \in Faulty THEN 0 .. 2 ELSE {1}) \subseteq Int
      OBVIOUS
    <3>2. PICK times \in Int : wallet' = [wallet EXCEPT ![r] = @ + times * SettleAmount(r)]
      BY <2>3, <3>1 DEF LegacyDebit
    <3>3. wallet[r] + times * SettleAmount(r) \in Int
      BY AmountTyping
    <3>. QED
      BY <2>3, <3>2, <3>3 DEF LegacyDebit
  <2>4. ASSUME NEW r \in Requests, Expire(r) PROVE Typed'
    BY <2>4 DEF Expire
  <2>5. ASSUME NEW r \in Requests, Crash(r) PROVE Typed'
    BY <2>5 DEF Crash, Labels
  <2>6. ASSUME NEW r \in Requests, Handle(r) PROVE Typed'
    <3>1. CASE SkipPreAuth(r)
      BY <3>1 DEF SkipPreAuth, Labels
    <3>2. CASE PreAuthorize(r)
      BY <3>2 DEF PreAuthorize, Labels
    <3>3. CASE PreAuthFails(r)
      BY <3>3 DEF PreAuthFails, Labels
    <3>4. CASE QuotaQueryFails(r)
      BY <3>4 DEF QuotaQueryFails, Labels
    <3>5. CASE CheckQuota(r)
      BY <3>5 DEF CheckQuota, Labels
    <3>6. CASE CheckToken(r)
      BY <3>6 DEF CheckToken, Labels
    <3>7. CASE PreDeductToken(r)
      BY <3>7 DEF PreDeductToken, ChargeToken, Labels
    <3>8. CASE PreDeductUser(r)
      BY <3>8 DEF PreDeductUser, ChargeUser, Labels
    <3>9. CASE Reject(r)
      BY <3>9, ReleaseTyping DEF Reject, Labels
    <3>10. CASE AttemptFails(r)
      BY <3>10 DEF AttemptFails, Labels
    <3>11. CASE AttemptRetried(r)
      BY <3>11 DEF AttemptRetried, RetriesLeft
    <3>12. CASE BreakerSkips(r)
      BY <3>12 DEF BreakerSkips, RetriesLeft, Labels
    <3>13. ASSUME NEW c \in Costs, UpstreamServes(r, c) PROVE Typed'
      BY <3>13 DEF UpstreamServes, EqualsPre, Labels
    <3>14. CASE Finish(r)
      BY <3>14 DEF Finish, Labels
    <3>15. CASE PostUser(r)
      BY <3>15, AmountTyping DEF PostUser, ChargeUser, AfterPostConsume, Labels
    <3>16. CASE PostToken(r)
      BY <3>16, AmountTyping DEF PostToken, ChargeToken, Labels
    <3>17. CASE Compensate(r)
      BY <3>17, AmountTyping DEF Compensate, GiveBack, ChargeUser, Labels
    <3>18. CASE NoSettlement(r)
      BY <3>18 DEF NoSettlement, AfterPostConsume, Labels
    <3>19. CASE SettlePreAuth(r)
      <4>1. Row0(r, "settle") \in Row
        BY DEF Row0, Row, Actions
      <4>2. /\ hold' \in [Requests -> {"none", "held", "settled", "released", "expired"}]
            /\ wallet' \in [Requests -> Int]
            /\ outbox' \in SUBSET Row
        BY <3>19, <4>1, ReleaseTyping, AmountTyping
        DEF SettlePreAuth, PlatformSettle, Enqueue
      <4>. QED
        BY <3>19, <4>2 DEF SettlePreAuth, AfterPostConsume, Labels
    <3>20. CASE StartDebit(r)
      BY <3>20 DEF StartDebit, AfterPostConsume, Labels
    <3>21. CASE Release(r)
      BY <3>21, ReleaseTyping DEF Release, Labels
    <3>. QED
      BY <2>6, <3>1, <3>2, <3>3, <3>4, <3>5, <3>6, <3>7, <3>8, <3>9, <3>10, <3>11, <3>12,
         <3>13, <3>14, <3>15, <3>16, <3>17, <3>18, <3>19, <3>20, <3>21 DEF Handle
  <2>7. ASSUME NEW e \in outbox, OutboxAttempt(e) PROVE Typed'
    <3>1. /\ e \in Row /\ e.req \in Requests
          /\ [e EXCEPT !.status = "done"] \in Row
          /\ Retried(e) \in Row
      <4>1. e \in Row
        BY <2>7
      <4>2. e.retry \in Nat /\ e.retry + 1 \in Nat /\ e.req \in Requests
        BY <4>1 DEF Row
      <4>3. [e EXCEPT !.status = "done"] \in Row
        BY <4>1 DEF Row
      <4>4. ASSUME NEW s \in {"failed", "pending"}
            PROVE  [e EXCEPT !.retry = @ + 1, !.status = s] \in Row
        BY <4>1, <4>2 DEF Row
      <4>. QED
        BY <4>1, <4>2, <4>3, <4>4 DEF Retried
    <3>2. /\ hold' \in [Requests -> {"none", "held", "settled", "released", "expired"}]
          /\ wallet' \in [Requests -> Int]
      BY <2>7, <3>1, AmountTyping DEF OutboxAttempt, Execute, PlatformSettle, PlatformRelease
    <3>3. outbox' \in SUBSET Row
      BY <2>7, <3>1 DEF OutboxAttempt
    <3>. QED
      BY <2>7, <3>2, <3>3 DEF OutboxAttempt
  <2>8. CASE UNCHANGED vars
    BY <2>8 DEF vars
  <2>. QED
    BY <2>1, <2>2, <2>3, <2>4, <2>5, <2>6, <2>7, <2>8 DEF Next, Worker, Terminated
<1>. QED
  BY <1>1, <1>2, PTL DEF Spec

\* Every variable keeps its type: in particular no request makes more than
\* RetryTimes + 1 attempts (relay.go:228).
THEOREM Typing == Spec => []TypeOK
<1>1. Typed => TypeOK
  BY DEF Typed
<1>. QED
  BY <1>1, TypedInvariant, PTL

-----------------------------------------------------------------------------
(* The ledgers.                                                              *)

\* A request that a step leaves alone keeps its part of the invariant.
LEMMA Undisturbed ==
    ASSUME NEW s \in Requests, Position(s), Taken(s),
           pc'[s] = pc[s], est'[s] = est[s], pre'[s] = pre[s], err'[s] = err[s],
           cost'[s] = cost[s], user'[s] = user[s], token'[s] = token[s]
    PROVE  (Position(s) /\ Taken(s))'
  BY DEF Position, Taken, Took, At, Served, Due, TokenPart

\* No request has taken anything at first.
LEMMA LedgerInit == Init => LedgerInv
  BY Amounts DEF Init, LedgerInv, Position, Taken, Took, At, Served, Due, TokenPart,
     BeforeDeduction, Unanswered, InPostConsume

\* The handler of a request keeps its ledgers as its position says.
LEMMA LedgerHandle ==
    ASSUME Typed, LedgerInv, NEW r \in Requests, Handle(r)
    PROVE  (Position(r) /\ Taken(r))'
<1> USE Amounts DEF Typed, TypeOK, LedgerInv, Position, Taken, Took, At, Goto, Served, Due,
        TokenPart, BeforeDeduction, Unanswered, InPostConsume, localVars, quotas, platform
<1>1. CASE SkipPreAuth(r)
  BY <1>1 DEF SkipPreAuth
<1>2. CASE PreAuthorize(r)
  BY <1>2 DEF PreAuthorize
<1>3. CASE PreAuthFails(r)
  BY <1>3 DEF PreAuthFails
<1>4. CASE QuotaQueryFails(r)
  BY <1>4 DEF QuotaQueryFails
<1>5. CASE CheckQuota(r)
  BY <1>5 DEF CheckQuota
<1>6. CASE CheckToken(r)
  BY <1>6 DEF CheckToken
<1>7. CASE PreDeductToken(r)
  BY <1>7 DEF PreDeductToken, ChargeToken
<1>8. CASE PreDeductUser(r)
  BY <1>8 DEF PreDeductUser, ChargeUser
<1>9. CASE Reject(r)
  BY <1>9 DEF Reject
<1>10. CASE AttemptFails(r)
  BY <1>10 DEF AttemptFails
<1>11. CASE AttemptRetried(r)
  BY <1>11 DEF AttemptRetried
<1>12. CASE BreakerSkips(r)
  BY <1>12 DEF BreakerSkips
<1>13. ASSUME NEW c \in Costs, UpstreamServes(r, c) PROVE (Position(r) /\ Taken(r))'
  BY <1>13 DEF UpstreamServes, EqualsPre, Unserved
<1>14. CASE Finish(r)
  BY <1>14 DEF Finish, Refunds
<1>15. CASE PostUser(r)
  <2>1. CASE ChargeUser(r, Delta(r)) /\ Goto(r, "postToken")
    <3>1. user[r] + Delta(r) = Due(r) /\ Due(r) >= 0
      BY <1>15, CostTyping DEF PostUser, Delta
    <3>2. Due(r)' = Due(r) /\ user'[r] = Due(r)
      BY <1>15, <2>1, <3>1 DEF PostUser, ChargeUser
    <3>. QED
      BY <1>15, <2>1, <3>1, <3>2 DEF PostUser, ChargeUser
  <2>2. CASE r \in Faulty /\ UNCHANGED quotas /\ Goto(r, AfterPostConsume(r))
    BY <1>15, <2>2 DEF PostUser, AfterPostConsume
  <2>. QED
    BY <1>15, <2>1, <2>2 DEF PostUser
<1>16. CASE PostToken(r)
  BY <1>16, AmountTyping DEF PostToken, ChargeToken, Delta
<1>17. CASE Compensate(r)
  BY <1>17, AmountTyping DEF Compensate, GiveBack, ChargeUser, Delta
<1>18. CASE NoSettlement(r)
  BY <1>18 DEF NoSettlement, AfterPostConsume
<1>19. CASE SettlePreAuth(r)
  BY <1>19 DEF SettlePreAuth, AfterPostConsume
<1>20. CASE StartDebit(r)
  BY <1>20 DEF StartDebit, AfterPostConsume
<1>21. CASE Release(r)
  BY <1>21 DEF Release
<1>. QED
  BY <1>1, <1>2, <1>3, <1>4, <1>5, <1>6, <1>7, <1>8, <1>9, <1>10, <1>11, <1>12,
     <1>13, <1>14, <1>15, <1>16, <1>17, <1>18, <1>19, <1>20, <1>21 DEF Handle

\* The handler of one request does not touch the ledgers of another.
LEMMA HandleOthers ==
    ASSUME Typed, NEW r \in Requests, Handle(r), NEW s \in Requests, s # r
    PROVE  /\ pc'[s] = pc[s] /\ est'[s] = est[s] /\ pre'[s] = pre[s] /\ err'[s] = err[s]
           /\ cost'[s] = cost[s] /\ user'[s] = user[s] /\ token'[s] = token[s]
  BY DEF Typed, TypeOK, Goto, localVars, quotas, platform, Handle,
     SkipPreAuth, PreAuthorize, PreAuthFails, QuotaQueryFails, CheckQuota, CheckToken,
     PreDeductToken, PreDeductUser, Reject, AttemptFails, AttemptRetried, BreakerSkips,
     UpstreamServes, Finish, PostUser, PostToken, Compensate, GiveBack,
     NoSettlement, SettlePreAuth, StartDebit, Release, ChargeUser, ChargeToken

\* Every step keeps every ledger as the position of its request says.
LEMMA LedgerStep ==
    ASSUME Typed, LedgerInv, [Next]_vars
    PROVE  LedgerInv'
<1> SUFFICES ASSUME NEW s \in Requests PROVE (Position(s) /\ Taken(s))'
  BY DEF LedgerInv
<1>0. Position(s) /\ Taken(s)
  BY DEF LedgerInv
<1> DEFINE Same == /\ pc'[s] = pc[s] /\ est'[s] = est[s] /\ pre'[s] = pre[s] /\ err'[s] = err[s]
                   /\ cost'[s] = cost[s] /\ user'[s] = user[s] /\ token'[s] = token[s]
<1>1. ASSUME NEW r \in Requests, NEW e \in Estimates, Begin(r, e)
      PROVE  (Position(s) /\ Taken(s))'
  <2>1. CASE s = r
    BY <1>0, <1>1, <2>1 DEF Begin, Typed, TypeOK, At, Goto, quotas, platform, Position, Taken,
       Took, Served, Due, TokenPart, BeforeDeduction, Unanswered, InPostConsume
  <2>2. CASE s # r
    <3>1. Same
      BY <1>1, <2>2 DEF Begin, Goto, Typed, TypeOK, quotas, platform
    <3>. QED
      BY <1>0, <3>1, Undisturbed
  <2>. QED
    BY <2>1, <2>2
<1>2. ASSUME NEW r \in Requests, Unauthorized(r)
      PROVE  (Position(s) /\ Taken(s))'
  <2>1. CASE s = r
    BY <1>0, <1>2, <2>1 DEF Unauthorized, Typed, TypeOK, At, Goto, localVars, quotas, platform,
       Position, Taken, Took, Served, Due, TokenPart, BeforeDeduction, Unanswered, InPostConsume
  <2>2. CASE s # r
    <3>1. Same
      BY <1>2, <2>2 DEF Unauthorized, Goto, Typed, TypeOK, localVars, quotas
    <3>. QED
      BY <1>0, <3>1, Undisturbed
  <2>. QED
    BY <2>1, <2>2
<1>3. ASSUME NEW r \in Requests, Handle(r)
      PROVE  (Position(s) /\ Taken(s))'
  <2>1. CASE s = r
    BY <1>3, <2>1, LedgerHandle
  <2>2. CASE s # r
    <3>1. Same
      BY <1>3, <2>2, HandleOthers
    <3>. QED
      BY <1>0, <3>1, Undisturbed
  <2>. QED
    BY <2>1, <2>2
<1>4. ASSUME NEW r \in Requests, LegacyDebit(r) \/ Expire(r)
      PROVE  (Position(s) /\ Taken(s))'
  <2>1. Same
    BY <1>4 DEF LegacyDebit, Expire, localVars, quotas
  <2>. QED
    BY <1>0, <2>1, Undisturbed
<1>5. ASSUME NEW r \in Requests, Crash(r)
      PROVE  (Position(s) /\ Taken(s))'
  BY <1>0, <1>5 DEF Crash, Typed, TypeOK, At, Goto, localVars, quotas, platform, Position, Taken,
     Took, Served, Due, TokenPart, BeforeDeduction, Unanswered, InPostConsume
<1>6. ASSUME NEW e \in outbox, OutboxAttempt(e)
      PROVE  (Position(s) /\ Taken(s))'
  <2>1. Same
    BY <1>6 DEF OutboxAttempt, localVars, quotas
  <2>. QED
    BY <1>0, <2>1, Undisturbed
<1>7. CASE UNCHANGED vars
  <2>1. Same
    BY <1>7 DEF vars, localVars, quotas
  <2>. QED
    BY <1>0, <2>1, Undisturbed
<1>. QED
  BY <1>1, <1>2, <1>3, <1>4, <1>5, <1>6, <1>7 DEF Next, Worker, Terminated

\* What the two quotas have paid for a request is, at each of its positions, what
\* PreConsumeQuota and PostConsumeQuota should have taken by then.
THEOREM Ledgers == Spec => []LedgerInv
<1>1. Typed /\ LedgerInv /\ [Next]_vars => LedgerInv'
  BY LedgerStep
<1>. QED
  BY <1>1, LedgerInit, TypedInvariant, PTL DEF Spec

\* ReturnPreConsumedQuota and the compensation of PostConsumeQuota never give back
\* more than was taken, whatever fails.
THEOREM OverRefund == Spec => []NoOverRefund
<1>1. LedgerInv => NoOverRefund
  BY DEF LedgerInv, Taken, NoOverRefund
<1>. QED
  BY <1>1, Ledgers, PTL

\* postConsumeQuota leaves an undisturbed served request with exactly its price
\* taken, from both quotas.
THEOREM ServedCharged == Spec => []ServedMeansCharged
<1>1. LedgerInv => ServedMeansCharged
  BY DEF LedgerInv, Taken, Took, TokenPart, ServedMeansCharged, Over, At
<1>. QED
  BY <1>1, Ledgers, PTL

-----------------------------------------------------------------------------
(* The wallet, the holds and the outbox.                                     *)

NoRow(r, a) == \A e \in outbox : ~(e.req = r /\ e.action = a)

\* The handler has not come to the end of its dealings with the platform.
Open(r) ==
    \/ pc[r] \in Labels \ {"finish", "done", "crashed"}
    \/ At(r, "finish") /\ ~Served(r)

\* Until then the hold, if there is one, is known to the handler and to nobody else.
OpenPlatform(r) ==
    Open(r) => /\ wallet[r] = 0 /\ ~debit[r]
               /\ hold[r] \notin {"settled", "released"}
               /\ ~preAuth[r] <=> hold[r] = "none"
               /\ NoRow(r, "settle") /\ NoRow(r, "release")

\* What the wallet has paid, by the state of the hold.
Paid(r) ==
    /\ pc[r] \in {"idle", "preauth"} => hold[r] = "none"
    /\ ~Served(r) => wallet[r] = 0 /\ ~debit[r] /\ hold[r] # "settled" /\ NoRow(r, "settle")
    /\ hold[r] = "settled" => wallet[r] = cost[r]
    /\ hold[r] \notin {"none", "settled"} => wallet[r] = 0
    /\ debit[r] => hold[r] = "none" /\ wallet[r] = 0
    /\ r \notin Faulty /\ wallet[r] # 0 => wallet[r] = cost[r]

\* What a queued row excludes.
Queued(r) ==
    /\ hold[r] = "none" => NoRow(r, "settle") /\ NoRow(r, "release")
    /\ hold[r] = "released" => NoRow(r, "settle")
    /\ hold[r] = "settled" => NoRow(r, "release")
    /\ NoRow(r, "settle") \/ NoRow(r, "release")

WalletInv == \A r \in Requests : OpenPlatform(r) /\ Paid(r) /\ Queued(r)

\* What the platform is asked for is the price of a served request, nothing positive otherwise.
LEMMA AmountIsDue ==
    ASSUME TypeOK, NEW r \in Requests
    PROVE  /\ Served(r) => SettleAmount(r) = cost[r] /\ cost[r] \in Nat
           /\ ~Served(r) => SettleAmount(r) <= 0
  BY CostTyping DEF SettleAmount, Delta

\* PostConsumeQuota asks the wallet of served requests only.
LEMMA PositiveAmount ==
    ASSUME TypeOK, NEW r \in Requests, SettleAmount(r) > 0
    PROVE  Served(r) /\ SettleAmount(r) = cost[r] /\ cost[r] \in Nat
<1>1. SettleAmount(r) \in Int
  BY AmountTyping
<1>. QED
  BY <1>1, AmountIsDue

\* No hold, no debit and no row at first.
LEMMA WalletInit == Init => WalletInv
  BY DEF Init, WalletInv, OpenPlatform, Paid, Queued, NoRow, Open, Served, At

\* The position, the hold and the wallet of s, and its rows, stay as they are.
SameWallet(s) ==
    /\ pc'[s] = pc[s] /\ preAuth'[s] = preAuth[s] /\ cost'[s] = cost[s]
    /\ hold'[s] = hold[s] /\ wallet'[s] = wallet[s] /\ debit'[s] = debit[s]
    /\ \A a \in Actions : NoRow(s, a)' <=> NoRow(s, a)

\* A request whose platform side a step leaves alone keeps its part of the invariant.
LEMMA WalletUndisturbed ==
    ASSUME NEW s \in Requests, OpenPlatform(s), Paid(s), Queued(s), SameWallet(s)
    PROVE  (OpenPlatform(s) /\ Paid(s) /\ Queued(s))'
<1>1. /\ NoRow(s, "settle")' <=> NoRow(s, "settle")
      /\ NoRow(s, "release")' <=> NoRow(s, "release")
  BY DEF SameWallet, Actions
<1>. QED
  BY <1>1 DEF SameWallet, OpenPlatform, Paid, Queued, Open, Served, At

\* A new row belongs to its request; a row that is tried again keeps its action.
LEMMA EnqueueRows ==
    ASSUME NEW r \in Requests, NEW a \in Actions, Enqueue(r, a),
           NEW s \in Requests, NEW b \in Actions, s # r \/ b # a
    PROVE  NoRow(s, b)' <=> NoRow(s, b)
  BY DEF Enqueue, NoRow, Row0

\* A row that is tried again adds no row of another action or request.
LEMMA RetryRows ==
    ASSUME TypeOK, NEW e \in outbox, OutboxAttempt(e),
           NEW s \in Requests, NEW b \in Actions
    PROVE  NoRow(s, b)' <=> NoRow(s, b)
<1>1. e \in Row
  BY DEF TypeOK
<1>2. PICK f : /\ f.req = e.req /\ f.action = e.action
               /\ outbox' = (outbox \ {e}) \cup {f}
  BY <1>1 DEF OutboxAttempt, Retried, Row
<1>. QED
  BY <1>2 DEF NoRow

\* The handler of a request keeps its own hold, wallet and rows in order.
LEMMA WalletHandle ==
    ASSUME Typed, LedgerInv, WalletInv, NEW r \in Requests, Handle(r)
    PROVE  (OpenPlatform(r) /\ Paid(r) /\ Queued(r))'
<1> USE DEF Typed, TypeOK, LedgerInv, Position, WalletInv, OpenPlatform, Paid, Queued, NoRow, Open,
        At, Goto, Served, BeforeDeduction, Unanswered, InPostConsume, Labels,
        localVars, quotas, platform
<1>1. CASE SkipPreAuth(r)
  BY <1>1 DEF SkipPreAuth
<1>2. CASE PreAuthorize(r)
  BY <1>2 DEF PreAuthorize
<1>3. CASE PreAuthFails(r)
  BY <1>3 DEF PreAuthFails
<1>4. CASE QuotaQueryFails(r)
  BY <1>4 DEF QuotaQueryFails
<1>5. CASE CheckQuota(r)
  BY <1>5 DEF CheckQuota
<1>6. CASE CheckToken(r)
  BY <1>6 DEF CheckToken
<1>7. CASE PreDeductToken(r)
  BY <1>7 DEF PreDeductToken, ChargeToken
<1>8. CASE PreDeductUser(r)
  BY <1>8 DEF PreDeductUser, ChargeUser
<1>9. CASE Reject(r)
  BY <1>9 DEF Reject, ReleaseHold, ReleaseFails, PlatformRelease, Enqueue, Row0
<1>10. CASE AttemptFails(r)
  BY <1>10 DEF AttemptFails
<1>11. CASE AttemptRetried(r)
  BY <1>11 DEF AttemptRetried
<1>12. CASE BreakerSkips(r)
  BY <1>12 DEF BreakerSkips
<1>13. ASSUME NEW c \in Costs, UpstreamServes(r, c)
       PROVE  (OpenPlatform(r) /\ Paid(r) /\ Queued(r))'
  BY <1>13 DEF UpstreamServes, EqualsPre
<1>14. CASE Finish(r)
  BY <1>14 DEF Finish, Refunds
<1>15. CASE PostUser(r)
  BY <1>15 DEF PostUser, ChargeUser, AfterPostConsume
<1>16. CASE PostToken(r)
  BY <1>16 DEF PostToken, ChargeToken
<1>17. CASE Compensate(r)
  BY <1>17 DEF Compensate, GiveBack, ChargeUser
<1>18. CASE NoSettlement(r)
  BY <1>18 DEF NoSettlement, AfterPostConsume
<1>19. CASE SettlePreAuth(r)
  <2>1. Served(r) /\ SettleAmount(r) = cost[r] /\ cost[r] \in Nat
    <3>1. SettleAmount(r) > 0
      BY <1>19 DEF SettlePreAuth
    <3>. QED
      BY <3>1, PositiveAmount
  <2>2. wallet[r] = 0 /\ hold[r] \notin {"settled", "released"}
    BY <1>19 DEF SettlePreAuth
  <2>3. CASE At(r, "walletBad") /\ ReleaseHold(r)
    BY <1>19, <2>1, <2>2, <2>3
    DEF SettlePreAuth, ReleaseHold, ReleaseFails, PlatformRelease, Enqueue, Row0, AfterPostConsume
  <2>4. CASE hold[r] = "held" /\ PlatformSettle(r, SettleAmount(r)) /\ UNCHANGED outbox
    BY <1>19, <2>1, <2>2, <2>4 DEF SettlePreAuth, PlatformSettle, AfterPostConsume
  <2>5. CASE /\ CallMayFail(r)
             /\ PlatformSettle(r, SettleAmount(r)) \/ UNCHANGED <<hold, wallet>>
             /\ Enqueue(r, "settle")
    BY <1>19, <2>1, <2>2, <2>5
    DEF SettlePreAuth, PlatformSettle, Enqueue, Row0, AfterPostConsume
  <2>. QED
    BY <1>19, <2>3, <2>4, <2>5 DEF SettlePreAuth
<1>20. CASE StartDebit(r)
  <2>1. SettleAmount(r) > 0
    BY <1>20 DEF StartDebit
  <2>2. Served(r)
    BY <2>1, PositiveAmount
  <2>. QED
    BY <1>20, <2>2 DEF StartDebit, AfterPostConsume
<1>21. CASE Release(r)
  BY <1>21 DEF Release, ReleaseHold, ReleaseFails, PlatformRelease, Enqueue, Row0
<1>. QED
  BY <1>1, <1>2, <1>3, <1>4, <1>5, <1>6, <1>7, <1>8, <1>9, <1>10, <1>11, <1>12,
     <1>13, <1>14, <1>15, <1>16, <1>17, <1>18, <1>19, <1>20, <1>21 DEF Handle

\* Nor does it touch the hold, the wallet or the rows of another request.
LEMMA WalletOthers ==
    ASSUME Typed, NEW r \in Requests, Handle(r), NEW s \in Requests, s # r
    PROVE  SameWallet(s)
<1> USE DEF Typed, TypeOK, SameWallet, Goto, localVars, quotas, platform, NoRow
<1>1. pc'[s] = pc[s] /\ cost'[s] = cost[s]
  BY HandleOthers
<1>2. CASE Reject(r) \/ Release(r) \/ SettlePreAuth(r)
  <2>1. preAuth'[s] = preAuth[s] /\ debit'[s] = debit[s]
    BY <1>2 DEF Reject, Release, SettlePreAuth
  <2>2. hold'[s] = hold[s] /\ wallet'[s] = wallet[s]
    BY <1>2 DEF Reject, Release, SettlePreAuth, ReleaseHold, ReleaseFails,
       PlatformRelease, PlatformSettle
  <2>3. \A a \in Actions : NoRow(s, a)' <=> NoRow(s, a)
    BY <1>2, EnqueueRows
    DEF Reject, Release, SettlePreAuth, ReleaseHold, ReleaseFails, Enqueue, Row0
  <2>. QED
    BY <1>1, <2>1, <2>2, <2>3
<1>3. CASE ~(Reject(r) \/ Release(r) \/ SettlePreAuth(r))
  <2>1. outbox' = outbox /\ wallet'[s] = wallet[s] /\ hold'[s] = hold[s]
        /\ preAuth'[s] = preAuth[s] /\ debit'[s] = debit[s]
    BY <1>3 DEF Handle,
       SkipPreAuth, PreAuthorize, PreAuthFails, QuotaQueryFails, CheckQuota, CheckToken,
       PreDeductToken, PreDeductUser, AttemptFails, AttemptRetried, BreakerSkips,
       UpstreamServes, Finish, PostUser, PostToken, Compensate,
       NoSettlement, StartDebit
  <2>. QED
    BY <1>1, <2>1
<1>. QED
  BY <1>2, <1>3

\* Every step keeps the holds, the wallet and the outbox in order.
LEMMA WalletStep ==
    ASSUME Typed, LedgerInv, WalletInv, [Next]_vars
    PROVE  WalletInv'
<1> SUFFICES ASSUME NEW s \in Requests
             PROVE  (OpenPlatform(s) /\ Paid(s) /\ Queued(s))'
  BY DEF WalletInv
<1>0. OpenPlatform(s) /\ Paid(s) /\ Queued(s) /\ TypeOK
  BY DEF WalletInv, Typed
<1>1. ASSUME NEW r \in Requests, NEW e \in Estimates, Begin(r, e)
      PROVE  (OpenPlatform(s) /\ Paid(s) /\ Queued(s))'
  BY <1>0, <1>1 DEF Begin, TypeOK, At, Goto, quotas, platform, OpenPlatform, Paid, Queued, NoRow,
     Open, Served, Labels
<1>2. ASSUME NEW r \in Requests, Unauthorized(r)
      PROVE  (OpenPlatform(s) /\ Paid(s) /\ Queued(s))'
  BY <1>0, <1>2 DEF Unauthorized, TypeOK, At, Goto, localVars, quotas, platform, OpenPlatform,
     Paid, Queued, NoRow, Open, Served, Labels
<1>3. ASSUME NEW r \in Requests, Handle(r)
      PROVE  (OpenPlatform(s) /\ Paid(s) /\ Queued(s))'
  <2>1. CASE s = r
    BY <1>3, <2>1, WalletHandle
  <2>2. CASE s # r
    BY <1>0, <1>3, <2>2, WalletOthers, WalletUndisturbed
  <2>. QED
    BY <2>1, <2>2
<1>4. ASSUME NEW r \in Requests, LegacyDebit(r)
      PROVE  (OpenPlatform(s) /\ Paid(s) /\ Queued(s))'
  <2>1. CASE s = r
    <3>1. Served(s) /\ ~Open(s) /\ hold[s] = "none" /\ wallet[s] = 0
      BY <1>0, <1>4, <2>1 DEF LegacyDebit, Paid, OpenPlatform
    <3>2. SettleAmount(s) = cost[s] /\ cost[s] \in Nat
      BY <1>0, <3>1, AmountIsDue
    <3>3. s \notin Faulty => wallet'[s] = cost[s]
      BY <1>0, <1>4, <2>1, <3>1, <3>2 DEF LegacyDebit, TypeOK
    <3>. QED
      BY <1>0, <1>4, <2>1, <3>1, <3>3 DEF LegacyDebit, TypeOK, OpenPlatform, Paid, Queued, NoRow,
         Open, Served, At
  <2>2. CASE s # r
    <3>1. SameWallet(s)
      BY <1>0, <1>4, <2>2 DEF LegacyDebit, TypeOK, SameWallet, NoRow
    <3>. QED
      BY <1>0, <3>1, WalletUndisturbed
  <2>. QED
    BY <2>1, <2>2
<1>5. ASSUME NEW r \in Requests, Expire(r)
      PROVE  (OpenPlatform(s) /\ Paid(s) /\ Queued(s))'
  BY <1>0, <1>5 DEF Expire, TypeOK, OpenPlatform, Paid, Queued, NoRow, Open, Served, At
<1>6. ASSUME NEW r \in Requests, Crash(r)
      PROVE  (OpenPlatform(s) /\ Paid(s) /\ Queued(s))'
  BY <1>0, <1>6 DEF Crash, Ended, TypeOK, Goto, localVars, quotas, platform, OpenPlatform, Paid,
     Queued, NoRow, Open, Served, At
<1>7. ASSUME NEW e \in outbox, OutboxAttempt(e)
      PROVE  (OpenPlatform(s) /\ Paid(s) /\ Queued(s))'
  <2>1. e.req \in Requests /\ e.action \in Actions
    BY <1>0 DEF TypeOK, Row
  <2>2. \A a \in Actions : NoRow(s, a)' <=> NoRow(s, a)
    BY <1>0, <1>7, RetryRows
  <2>3. CASE s = e.req
    <3>1. ~Open(s) /\ ~NoRow(s, e.action) /\ hold[s] # "none" /\ ~debit[s]
      BY <1>0, <2>1, <2>3 DEF OpenPlatform, Queued, Paid, NoRow, Actions
    <3>2. ~Open(s)'
      BY <1>7, <3>1 DEF OutboxAttempt, Open, At, Served
    <3>3. CASE hold'[s] = hold[s] /\ wallet'[s] = wallet[s]
      BY <1>0, <1>7, <2>2, <3>3, WalletUndisturbed DEF OutboxAttempt, SameWallet
    <3>4. CASE e.action = "settle" /\ PlatformSettle(s, SettleAmount(s)) /\ hold[s] = "held"
      <4>1. Served(s) /\ wallet[s] = 0 /\ NoRow(s, "release")
        BY <1>0, <3>1, <3>4 DEF Paid, Queued
      <4>2. SettleAmount(s) = cost[s] /\ cost[s] \in Nat
        BY <1>0, <4>1, AmountIsDue
      <4>3. hold'[s] = "settled" /\ wallet'[s] = cost[s]
        BY <1>0, <3>4, <4>1, <4>2 DEF PlatformSettle, TypeOK
      <4>. QED
        BY <1>0, <1>7, <2>2, <3>1, <3>2, <4>1, <4>3
        DEF OutboxAttempt, OpenPlatform, Paid, Queued, Served, Actions
    <3>5. CASE e.action = "release" /\ PlatformRelease(s) /\ hold[s] = "held"
      <4>1. NoRow(s, "settle") /\ wallet[s] = 0
        BY <1>0, <3>1, <3>5 DEF Paid, Queued
      <4>2. hold'[s] = "released" /\ wallet'[s] = 0
        BY <1>0, <3>5, <4>1 DEF PlatformRelease, TypeOK
      <4>. QED
        BY <1>0, <1>7, <2>2, <3>1, <3>2, <4>1, <4>2
        DEF OutboxAttempt, OpenPlatform, Paid, Queued, Served, Actions
    <3>. QED
      BY <1>0, <1>7, <2>1, <2>3, <3>3, <3>4, <3>5
      DEF OutboxAttempt, Execute, PlatformSettle, PlatformRelease, TypeOK, Actions
  <2>4. CASE s # e.req
    <3>1. SameWallet(s)
      BY <1>0, <1>7, <2>1, <2>2, <2>4
      DEF OutboxAttempt, Execute, PlatformSettle, PlatformRelease, TypeOK, SameWallet
    <3>. QED
      BY <1>0, <3>1, WalletUndisturbed
  <2>. QED
    BY <2>3, <2>4
<1>8. CASE UNCHANGED vars
  <2>1. SameWallet(s)
    BY <1>8 DEF vars, platform, SameWallet, NoRow
  <2>. QED
    BY <1>0, <2>1, WalletUndisturbed
<1>. QED
  BY <1>1, <1>2, <1>3, <1>4, <1>5, <1>6, <1>7, <1>8 DEF Next, Worker, Terminated

\* The hold, the wallet and the outbox of every request are in order at all times.
THEOREM Wallets == Spec => []WalletInv
<1>1. Typed /\ LedgerInv /\ WalletInv /\ [Next]_vars => WalletInv'
  BY WalletStep
<1>. QED
  BY <1>1, WalletInit, TypedInvariant, Ledgers, PTL DEF Spec

\* PostConsumeQuota and the outbox worker settle a hold once, for the price,
\* and the wallet of an undisturbed request pays nothing else.
THEOREM ChargedOnce == Spec => []WalletChargedOnce
<1>1. WalletInv => WalletChargedOnce
  BY DEF WalletInv, Paid, WalletChargedOnce, Served
<1>. QED
  BY <1>1, Wallets, PTL

\* releasePlatformPreAuth and the settlement never queue or execute opposite
\* actions for one hold.
THEOREM NotMixed == Spec => []NoMixedSettlement
<1>1. Typed /\ WalletInv => NoMixedSettlement
  <2> SUFFICES ASSUME Typed, WalletInv, NEW e \in outbox
               PROVE  /\ e.action = "settle"  => hold[e.req] # "released"
                      /\ e.action = "release" => hold[e.req] # "settled"
                      /\ \A f \in outbox : f.req = e.req => f.action = e.action
    BY DEF NoMixedSettlement
  <2>1. \A f \in outbox : f.req \in Requests /\ f.action \in Actions
    BY DEF Typed, TypeOK, Row
  <2>2. Queued(e.req)
    BY <2>1 DEF WalletInv
  <2>. QED
    BY <2>1, <2>2 DEF Queued, NoRow, Actions
<1>. QED
  BY <1>1, TypedInvariant, Wallets, PTL

\* ReturnPreConsumedQuota leaves an undisturbed failed request with nothing
\* taken from the quotas and from the wallet.
THEOREM ErrorUncharged == Spec => []ErrorMeansUncharged
<1>1. LedgerInv /\ WalletInv => ErrorMeansUncharged
  BY DEF LedgerInv, WalletInv, Position, Taken, Took, TokenPart, Paid, ErrorMeansUncharged,
     Over, At
<1>. QED
  BY <1>1, Ledgers, Wallets, PTL

-----------------------------------------------------------------------------
(* The holds that stay frozen.                                               *)

\* What a request that met no fault has met when it leaves its hold behind.
Frozen(r) ==
    /\ hold[r] # "none" => r \in Linked
    /\ pc[r] \in {"finish", "done"} /\ Served(r) /\ hold[r] = "held" => cost[r] \in {0, pre[r]}
    /\ At(r, "done") /\ ~Served(r) /\ hold[r] = "held" => ~err[r] \/ (pre[r] = 0 /\ preAuth[r])

FrozenInv == \A r \in Requests \ Faulty : Frozen(r)

\* The release of an undisturbed request leaves no hold behind.
LEMMA ReleaseThaws ==
    ASSUME TypeOK, NEW r \in Requests \ Faulty, ReleaseHold(r), ~preAuth[r] => hold[r] = "none"
    PROVE  hold'[r] # "held" /\ (hold'[r] # "none" => hold[r] # "none")
  BY DEF TypeOK, ReleaseHold, ReleaseFails, PlatformRelease, CallMayFail, platform

\* The handler of an undisturbed request leaves its hold behind in these cases only.
LEMMA FrozenHandle ==
    ASSUME Typed, LedgerInv, WalletInv, NEW r \in Requests \ Faulty, Frozen(r), Handle(r)
    PROVE  Frozen(r)'
<1> USE DEF Typed, TypeOK, At, Goto, Served, Frozen, localVars, quotas, platform
<1>0. /\ Position(r) /\ OpenPlatform(r) /\ Paid(r)
      /\ r \in Requests /\ r \notin Faulty
  BY DEF LedgerInv, WalletInv
<1>1. CASE SkipPreAuth(r)
  BY <1>1 DEF SkipPreAuth
<1>2. CASE PreAuthorize(r)
  BY <1>2 DEF PreAuthorize
<1>3. CASE PreAuthFails(r)
  BY <1>0, <1>3 DEF PreAuthFails, Paid
<1>4. CASE QuotaQueryFails(r)
  BY <1>0, <1>4 DEF QuotaQueryFails
<1>5. CASE CheckQuota(r)
  BY <1>5 DEF CheckQuota
<1>6. CASE CheckToken(r)
  BY <1>6 DEF CheckToken
<1>7. CASE PreDeductToken(r)
  BY <1>7 DEF PreDeductToken
<1>8. CASE PreDeductUser(r)
  BY <1>8 DEF PreDeductUser
<1>9. CASE Reject(r) \/ Release(r)
  <2>1. ~preAuth[r] => hold[r] = "none"
    BY <1>0, <1>9 DEF Reject, Release, OpenPlatform, Open, Labels
  <2>2. hold'[r] # "held" /\ (hold'[r] # "none" => hold[r] # "none")
    BY <1>9, <2>1, ReleaseThaws DEF Reject, Release
  <2>. QED
    BY <2>2
<1>10. CASE AttemptFails(r)
  BY <1>0, <1>10 DEF AttemptFails, Position, Unanswered
<1>11. CASE AttemptRetried(r)
  BY <1>11 DEF AttemptRetried
<1>12. CASE BreakerSkips(r)
  BY <1>0, <1>12 DEF BreakerSkips, Position, Unanswered
<1>13. ASSUME NEW c \in Costs, UpstreamServes(r, c) PROVE Frozen(r)'
  BY <1>13 DEF UpstreamServes, EqualsPre
<1>14. CASE Finish(r)
  BY <1>0, <1>14 DEF Finish, Refunds, OpenPlatform, Open
<1>15. CASE PostUser(r)
  BY <1>0, <1>15 DEF PostUser
<1>16. CASE PostToken(r)
  BY <1>0, <1>16 DEF PostToken
<1>17. CASE Compensate(r)
  BY <1>0, <1>17 DEF Compensate, Position
<1>18. CASE NoSettlement(r)
  <2>1. CASE r \notin Linked
    BY <1>18, <2>1 DEF NoSettlement
  <2>2. CASE Served(r) /\ SettleAmount(r) <= 0
    <3>1. cost[r] = 0
      BY <1>0, <2>2, AmountIsDue
    <3>. QED
      BY <1>18, <3>1 DEF NoSettlement, AfterPostConsume
  <2>3. CASE ~Served(r)
    BY <1>18, <2>3 DEF NoSettlement, AfterPostConsume
  <2>. QED
    BY <1>18, <2>1, <2>2, <2>3 DEF NoSettlement, NothingToSettle
<1>19. CASE SettlePreAuth(r)
  <2>1. At(r, "wallet") /\ r \in Linked
    BY <1>0, <1>19 DEF SettlePreAuth, Position
  <2>2. hold'[r] # "held"
    BY <1>0, <1>19, <2>1 DEF SettlePreAuth, PlatformSettle, CallMayFail
  <2>. QED
    BY <2>1, <2>2
<1>20. CASE StartDebit(r)
  <2>1. hold[r] = "none"
    BY <1>0, <1>20 DEF StartDebit, OpenPlatform, Open, Labels
  <2>. QED
    BY <1>20, <2>1 DEF StartDebit
<1>. QED
  BY <1>1, <1>2, <1>3, <1>4, <1>5, <1>6, <1>7, <1>8, <1>9, <1>10, <1>11, <1>12,
     <1>13, <1>14, <1>15, <1>16, <1>17, <1>18, <1>19, <1>20 DEF Handle

\* Nobody else freezes a hold, and what a hold stays frozen for does not change.
LEMMA FrozenStep ==
    ASSUME Typed, LedgerInv, WalletInv, FrozenInv, [Next]_vars
    PROVE  FrozenInv'
<1> SUFFICES ASSUME NEW s \in Requests \ Faulty PROVE Frozen(s)'
  BY DEF FrozenInv
<1>0. /\ Frozen(s) /\ Paid(s) /\ Position(s) /\ TypeOK
      /\ s \in Requests /\ s \notin Faulty
  BY DEF FrozenInv, WalletInv, LedgerInv, Typed
<1> DEFINE Same == /\ pc'[s] = pc[s] /\ pre'[s] = pre[s] /\ err'[s] = err[s]
                   /\ cost'[s] = cost[s] /\ preAuth'[s] = preAuth[s]
<1>1. ASSUME Same, hold'[s] # hold[s] => hold[s] = "held" /\ hold'[s] # "held" PROVE Frozen(s)'
  BY <1>0, <1>1 DEF Frozen, At, Served
<1>2. ASSUME NEW r \in Requests, (\E e \in Estimates : Begin(r, e)) \/ Unauthorized(r)
      PROVE  Frozen(s)'
  BY <1>0, <1>2 DEF Begin, Unauthorized, Frozen, Paid, At, Goto, Served, TypeOK,
     localVars, quotas, platform
<1>3. ASSUME NEW r \in Requests, Handle(r) PROVE Frozen(s)'
  <2>1. CASE s = r
    BY <1>0, <1>3, <2>1, FrozenHandle
  <2>2. CASE s # r
    BY <1>1, <1>3, <2>2, HandleOthers, WalletOthers DEF SameWallet
  <2>. QED
    BY <2>1, <2>2
<1>4. ASSUME NEW r \in Requests, LegacyDebit(r) \/ Expire(r) PROVE Frozen(s)'
  BY <1>0, <1>1, <1>4 DEF LegacyDebit, Expire, TypeOK, localVars
<1>5. ASSUME NEW r \in Requests, Crash(r) PROVE Frozen(s)'
  BY <1>0, <1>1, <1>5 DEF Crash, Goto, TypeOK, localVars, platform
<1>6. ASSUME NEW e \in outbox, OutboxAttempt(e) PROVE Frozen(s)'
  <2>1. e.req \in Requests
    BY <1>0 DEF TypeOK, Row
  <2>. QED
    BY <1>0, <1>1, <1>6, <2>1
    DEF OutboxAttempt, Execute, PlatformSettle, PlatformRelease, TypeOK, localVars
<1>7. CASE UNCHANGED vars
  BY <1>1, <1>7 DEF vars, localVars, platform
<1>. QED
  BY <1>2, <1>3, <1>4, <1>5, <1>6, <1>7 DEF Next, Worker, Terminated

\* The three ways out of Relay that leave the hold of an undisturbed request frozen are all.
THEOREM HoldLeaks == Spec => []HoldLeakCases
<1>1. Init => FrozenInv
  BY DEF Init, FrozenInv, Frozen, At
<1>2. Typed /\ LedgerInv /\ WalletInv /\ FrozenInv /\ [Next]_vars => FrozenInv'
  BY FrozenStep
<1>3. FrozenInv => HoldLeakCases
  BY DEF FrozenInv, Frozen, HoldLeakCases, Over, At
<1>. QED
  BY <1>1, <1>2, <1>3, TypedInvariant, Ledgers, Wallets, PTL DEF Spec

-----------------------------------------------------------------------------
(* The overdraft.                                                            *)

\* The user's quota is what the requests have left of it.
Conserved == userQuota = InitUserQuota - Sum(user, Requests)

\* A request that may still take something, or has taken it, could be paid when it was checked.
Afforded(r) ==
    user[r] # 0 \/ pc[r] \notin {"idle", "preauth", "check", "reject"} \cup Ended
        => est[r] = 0 \/ est[r] <= InitUserQuota

OverdraftInv == Conserved /\ \A r \in Requests : Afforded(r)

\* What a request takes is missing in the quota.
LEMMA ChargeConserved ==
    ASSUME TypeOK, Conserved, NEW r \in Requests, NEW q \in Int, ChargeUser(r, q)
    PROVE  Conserved'
<1>1. /\ user \in [Requests -> Int] /\ userQuota \in Int
      /\ user' = [user EXCEPT ![r] = @ + q] /\ userQuota' = userQuota - q
  BY DEF TypeOK, ChargeUser
<1>2. \A x \in Requests : user[x] \in Int /\ user'[x] = IF x = r THEN user[x] + q ELSE user[x]
  BY <1>1
<1>3. Sum(user', Requests) = Sum(user, Requests) + q /\ Sum(user, Requests) \in Int
  BY <1>2, RequestSets, SumUpdate, SumInt
<1>. QED
  BY <1>1, <1>3, Amounts DEF Conserved

\* Whoever passes the balance check asks for no more than there was at first.
LEMMA CheckAffords ==
    ASSUME TypeOK, LedgerInv, Conserved, NEW r \in Requests, Sufficient(r)
    PROVE  est[r] <= InitUserQuota
<1>1. \A x \in Requests : user[x] \in Nat
  BY DEF TypeOK, LedgerInv, Taken
<1>2. Sum(user, Requests) \in Int /\ Sum(user, Requests) >= 0
  BY <1>1, RequestSets, SumTerm, SumInt
<1>3. userQuota >= est[r] /\ est[r] \in Nat
  BY DEF Sufficient, TypeOK
<1>. QED
  BY <1>2, <1>3, Amounts DEF Conserved

\* Every step keeps the account of the user's quota.
LEMMA OverdraftStep ==
    ASSUME Typed, LedgerInv, OverdraftInv, [Next]_vars
    PROVE  OverdraftInv'
<1>0. Conserved /\ TypeOK /\ \A r \in Requests : Afforded(r) /\ Taken(r)
  BY DEF OverdraftInv, LedgerInv, Typed
<1>1. ASSUME UNCHANGED <<userQuota, user, pc, est>> PROVE OverdraftInv'
  BY <1>0, <1>1 DEF OverdraftInv, Conserved, Afforded
<1>2. ASSUME NEW r \in Requests, (\E e \in Estimates : Begin(r, e)) \/ Unauthorized(r) \/ Crash(r)
      PROVE  OverdraftInv'
  <2>1. Conserved'
    BY <1>0, <1>2 DEF Begin, Unauthorized, Crash, Conserved, quotas
  <2>2. ASSUME NEW s \in Requests PROVE Afforded(s)'
    BY <1>0, <1>2 DEF Begin, Unauthorized, Crash, Afforded, Taken, Took, BeforeDeduction,
       At, Goto, TypeOK, Ended, quotas, localVars
  <2>. QED
    BY <2>1, <2>2 DEF OverdraftInv
<1>3. ASSUME NEW r \in Requests, Handle(r) PROVE OverdraftInv'
  <2>1. Conserved'
    <3>1. CASE \E q \in Int : ChargeUser(r, q)
      BY <1>0, <3>1, ChargeConserved
    <3>2. CASE UNCHANGED <<userQuota, user>>
      BY <1>0, <3>2 DEF Conserved
    <3>3. est[r] \in Int /\ Delta(r) \in Int /\ - Delta(r) \in Int
      BY <1>0, AmountTyping DEF TypeOK
    <3>. QED
      BY <1>3, <3>1, <3>2, <3>3
      DEF Handle, SkipPreAuth, PreAuthorize, PreAuthFails, QuotaQueryFails, CheckQuota, CheckToken,
          PreDeductToken, PreDeductUser, Reject, AttemptFails, AttemptRetried, BreakerSkips,
          UpstreamServes, Finish, PostUser, PostToken, Compensate, GiveBack,
          NoSettlement, SettlePreAuth, StartDebit, Release, ChargeToken, quotas
  <2>2. ASSUME NEW s \in Requests, s # r PROVE Afforded(s)'
    BY <1>0, <1>3, <2>2, HandleOthers DEF Afforded, Ended
  <2>3. Afforded(r)'
    <3> USE <1>0 DEF Afforded, At, Goto, TypeOK, Ended, localVars, quotas
    <3>1. CASE CheckQuota(r)
      BY <3>1, CheckAffords DEF CheckQuota, Taken, Took, BeforeDeduction
    <3>2. CASE \/ SkipPreAuth(r) \/ PreAuthorize(r) \/ PreAuthFails(r) \/ QuotaQueryFails(r)
               \/ Reject(r)
      BY <3>2 DEF SkipPreAuth, PreAuthorize, PreAuthFails, QuotaQueryFails, Reject
    <3>3. CASE CheckToken(r) \/ PreDeductToken(r) \/ PreDeductUser(r)
      BY <3>3 DEF CheckToken, PreDeductToken, PreDeductUser, ChargeToken, ChargeUser
    <3>4. CASE \/ AttemptFails(r) \/ AttemptRetried(r) \/ BreakerSkips(r)
               \/ (\E c \in Costs : UpstreamServes(r, c)) \/ Finish(r)
      BY <3>4 DEF AttemptFails, AttemptRetried, BreakerSkips, UpstreamServes, Finish
    <3>5. CASE PostUser(r) \/ PostToken(r) \/ Compensate(r)
      BY <3>5 DEF PostUser, PostToken, Compensate, GiveBack, ChargeUser, ChargeToken
    <3>6. CASE NoSettlement(r) \/ SettlePreAuth(r) \/ StartDebit(r) \/ Release(r)
      BY <3>6 DEF NoSettlement, SettlePreAuth, StartDebit, Release
    <3>. QED
      BY <1>3, <3>1, <3>2, <3>3, <3>4, <3>5, <3>6 DEF Handle
  <2>. QED
    BY <2>1, <2>2, <2>3 DEF OverdraftInv
<1>4. ASSUME NEW r \in Requests, LegacyDebit(r) \/ Expire(r) PROVE OverdraftInv'
  BY <1>1, <1>4 DEF LegacyDebit, Expire, localVars, quotas
<1>5. ASSUME NEW e \in outbox, OutboxAttempt(e) PROVE OverdraftInv'
  BY <1>1, <1>5 DEF OutboxAttempt, localVars, quotas
<1>6. CASE UNCHANGED vars
  BY <1>1, <1>6 DEF vars, localVars, quotas
<1>. QED
  BY <1>2, <1>3, <1>4, <1>5, <1>6 DEF Next, Worker, Terminated

\* The account implies the bound.
LEMMA OverdraftImplied ==
    ASSUME Typed, LedgerInv, OverdraftInv
    PROVE  OverdraftBounded
<1> SUFFICES ASSUME \A x \in Requests : user[x] <= est[x], NEW r \in Requests, user[r] > 0
             PROVE  userQuota + Sum(est, Requests \ {r}) >= 0
  BY DEF OverdraftBounded, Sum
<1>1. /\ \A x \in Requests : user[x] \in Int /\ est[x] \in Int
      /\ IsFiniteSet(Requests) /\ IsFiniteSet(Requests \ {r})
  BY RequestSets, FS_Subset DEF Typed, TypeOK
<1>2. Sum(user, Requests) = user[r] + Sum(user, Requests \ {r})
  BY <1>1, SumRemove
<1>3. Sum(user, Requests \ {r}) <= Sum(est, Requests \ {r})
  BY <1>1, SumMonotone
<1>4. Sum(user, Requests \ {r}) \in Int /\ Sum(est, Requests \ {r}) \in Int
  BY <1>1, SumInt
<1>5. user[r] <= InitUserQuota /\ InitUserQuota \in Int
  BY <1>1, Amounts DEF OverdraftInv, Afforded
<1>. QED
  BY <1>1, <1>2, <1>3, <1>4, <1>5 DEF OverdraftInv, Conserved

\* Requests that pass the check of PreConsumeQuota together overdraw the user's quota by no
\* more than the others' estimates, however many there are.
THEOREM Overdraft == Spec => []OverdraftBounded
<1>1. Init => OverdraftInv
  <2>1. ASSUME Init PROVE Sum(user, Requests) = 0
    <3>1. \A x \in Requests : user[x] = 0
      BY <2>1 DEF Init
    <3>. QED
      BY <3>1, RequestSets, SumZero
  <2>. QED
    BY <2>1, Amounts DEF Init, OverdraftInv, Conserved, Afforded, Ended
<1>2. Typed /\ LedgerInv /\ OverdraftInv /\ [Next]_vars => OverdraftInv'
  BY OverdraftStep
<1>3. Typed /\ LedgerInv /\ OverdraftInv => OverdraftBounded
  BY OverdraftImplied
<1>. QED
  BY <1>1, <1>2, <1>3, TypedInvariant, Ledgers, PTL DEF Spec
=============================================================================
