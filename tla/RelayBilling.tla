---------------------------- MODULE RelayBilling ----------------------------
(***************************************************************************)
(* The billing life of the relay requests of one user, who uses one API    *)
(* token: what Relay (adapter/handler/relay.go) does to the user's quota,  *)
(* to the token's quota and to the platform wallet, from the token check   *)
(* in the authentication middleware to the deferred refund.                *)
(*                                                                         *)
(* Every database statement and every platform call is a step of its own,  *)
(* so the requests interleave exactly where the handlers do.  The platform *)
(* (identity service) is modelled from the calls the hub makes: a hold is  *)
(* created by a pre-authorisation and leaves the state "held" once, when   *)
(* it is settled, released or when its TTL runs out.                       *)
(*                                                                         *)
(* Infrastructure faults (a failed statement, an unreachable platform, a   *)
(* reply lost after the call was executed, the death of the process) can   *)
(* hit the requests in Faulty, at every step and any number of times; the  *)
(* others run undisturbed, next to them.                                   *)
(*                                                                         *)
(* The quotas are those of the database; an open billing breaker is one of *)
(* the faults that make a platform call fail.                              *)
(***************************************************************************)
EXTENDS Integers, FiniteSets, FiniteSetsExt

CONSTANTS
    Requests,         \* the requests in flight, all of the same user and token
    Faulty,           \* the requests infrastructure faults may hit
    Playground,       \* the requests that bypass the token's quota
    Linked,           \* the requests whose token has a platform account
    Estimates,        \* the values of QuotaToPreConsume
    Costs,            \* the actual quota of a served request, 0 when no usage came back
    InitUserQuota,
    InitTokenQuota,
    TokenUnlimited,   \* the token has no limit of its own
    TrustQuota,       \* above this quota nothing is pre-deducted
    RetryTimes,
    OutboxMaxRetries

ASSUME RequestSets ==
    /\ IsFiniteSet(Requests)
    /\ Faulty \subseteq Requests
    /\ Playground \subseteq Requests
    /\ Linked \subseteq Requests
ASSUME Amounts ==
    /\ Estimates \subseteq Nat
    /\ Costs \subseteq Nat
    /\ InitUserQuota \in Int
    /\ InitTokenQuota \in Int
    /\ TrustQuota \in Nat
ASSUME Limits ==
    /\ TokenUnlimited \in BOOLEAN
    /\ RetryTimes \in Nat
    /\ OutboxMaxRetries \in Nat \ {0}

VARIABLES
    \* The request: its position, and what RelayInfo and the handler's locals hold.
    pc,
    est,              \* QuotaToPreConsume
    ctxToken,         \* "token_quota" in the context: the token's quota at authentication
    preAuth,          \* PlatformPreAuthID > 0
    pre,              \* FinalPreConsumedQuota
    retry,
    err,              \* newAPIError # nil
    cost,             \* the quota the served request costs, Unserved before
    \* The ledgers: the two quotas, and what each request has taken from each.
    userQuota, tokenQuota,
    user, token, wallet,
    debit,            \* the goroutine of the legacy wallet debit has been started
    \* The platform's holds and the rows of billing_outbox.
    hold, outbox

localVars == <<est, ctxToken, pre, retry>>
quotas    == <<userQuota, tokenQuota, user, token>>
platform  == <<wallet, hold, outbox>>
vars == <<pc, preAuth, err, cost, debit, localVars, quotas, platform>>

Unserved == -1
Actions  == {"settle", "release"}
Labels   == {"idle", "preauth", "check", "tokenCheck", "tokenDec", "userDec", "reject",
             "attempt", "postUser", "postToken", "compensate", "wallet", "walletBad",
             "finish", "release", "done", "crashed"}
Ended    == {"done", "crashed"}
Row      == [req : Requests, action : Actions,
             status : {"pending", "done", "failed"}, retry : Nat]

TypeOK ==
    /\ pc \in [Requests -> Labels]
    /\ est \in [Requests -> Nat]
    /\ ctxToken \in [Requests -> Int]
    /\ preAuth \in [Requests -> BOOLEAN]
    /\ pre \in [Requests -> Nat]
    /\ retry \in [Requests -> 0 .. RetryTimes + 1]
    /\ err \in [Requests -> BOOLEAN]
    /\ cost \in [Requests -> Costs \cup {Unserved}]
    /\ userQuota \in Int /\ tokenQuota \in Int
    /\ user \in [Requests -> Int] /\ token \in [Requests -> Int]
    /\ wallet \in [Requests -> Int] /\ debit \in [Requests -> BOOLEAN]
    /\ hold \in [Requests -> {"none", "held", "settled", "released", "expired"}]
    /\ outbox \in SUBSET Row

Init ==
    /\ pc = [r \in Requests |-> "idle"]
    /\ est = [r \in Requests |-> 0]
    /\ ctxToken = [r \in Requests |-> 0]
    /\ preAuth = [r \in Requests |-> FALSE]
    /\ pre = [r \in Requests |-> 0]
    /\ retry = [r \in Requests |-> 0]
    /\ err = [r \in Requests |-> FALSE]
    /\ cost = [r \in Requests |-> Unserved]
    /\ userQuota = InitUserQuota /\ tokenQuota = InitTokenQuota
    /\ user = [r \in Requests |-> 0] /\ token = [r \in Requests |-> 0]
    /\ wallet = [r \in Requests |-> 0] /\ debit = [r \in Requests |-> FALSE]
    /\ hold = [r \in Requests |-> "none"]
    /\ outbox = {}

-----------------------------------------------------------------------------
(* Helpers.                                                                *)

At(r, l)   == pc[r] = l
Goto(r, l) == pc' = [pc EXCEPT ![r] = l]

Served(r) == cost[r] # Unserved

\* DecreaseUserQuota / IncreaseUserQuota, the latter when q is negative.
ChargeUser(r, q) ==
    /\ userQuota' = userQuota - q
    /\ user' = [user EXCEPT ![r] = @ + q]
    /\ UNCHANGED <<tokenQuota, token>>

\* DecreaseTokenQuota / IncreaseTokenQuota.
ChargeToken(r, q) ==
    /\ tokenQuota' = tokenQuota - q
    /\ token' = [token EXCEPT ![r] = @ + q]
    /\ UNCHANGED <<userQuota, user>>

\* The quota PostConsumeQuota is called with: the difference to the actual
\* cost for a served request, the whole pre-deduction back for a failed one.
Delta(r) == IF Served(r) THEN cost[r] - pre[r] ELSE - pre[r]

\* A plausible bug: only the difference is settled.
SettleDelta(r) == Delta(r)
\* totalQuota, what the wallet is asked for: quota + preConsumedQuota; a refund
\* passes no preConsumedQuota, so its total is negative.
SettleAmount(r) == Delta(r) + (IF Served(r) THEN pre[r] ELSE 0)

Row0(r, a) == [req |-> r, action |-> a, status |-> "pending", retry |-> 0]

\* EnqueueSettle, EnqueueRelease: the insert may fail too, and is then only logged.
Enqueue(r, a) ==
    \/ outbox' = outbox \cup {Row0(r, a)}
    \/ r \in Faulty /\ UNCHANGED outbox

\* What the platform does when it executes a call.
PlatformSettle(r, amount) ==
    /\ hold' = [hold EXCEPT ![r] = IF @ = "held" THEN "settled" ELSE @]
    /\ wallet' = [wallet EXCEPT ![r] = IF hold[r] = "held" THEN @ + amount ELSE @]

PlatformRelease(r) ==
    /\ hold' = [hold EXCEPT ![r] = IF @ = "held" THEN "released" ELSE @]
    /\ UNCHANGED wallet

\* A call fails when a fault hits it, or when the hold is no longer held.
CallMayFail(r) == r \in Faulty \/ hold[r] # "held"

\* releasePlatformPreAuth: release, and queue the release when the call fails.
\* A failed call may have been executed all the same.
ReleaseFails(r, action) ==
    /\ CallMayFail(r)
    /\ PlatformRelease(r) \/ UNCHANGED <<hold, wallet>>
    /\ Enqueue(r, action)

\* A plausible bug: the hold is forgotten.
ForgetHold(r) == UNCHANGED platform
\* A plausible bug: the failed release is queued as a settlement.
ReleaseHoldAsSettle(r) ==
    \/ ~preAuth[r] /\ UNCHANGED platform
    \/ preAuth[r] /\ PlatformRelease(r) /\ UNCHANGED outbox
    \/ preAuth[r] /\ ReleaseFails(r, "settle")

ReleaseHold(r) ==
    \/ ~preAuth[r] /\ UNCHANGED platform
    \/ preAuth[r] /\ PlatformRelease(r) /\ UNCHANGED outbox
    \/ preAuth[r] /\ ReleaseFails(r, "release")

-----------------------------------------------------------------------------
(* Authentication and the pre-deduction (PreConsumeQuota).                 *)

TokenValid == TokenUnlimited \/ tokenQuota > 0

\* The authentication middleware reads the token's quota into the context; a
\* free model goes to the attempts without any pre-deduction.
Begin(r, e) ==
    /\ At(r, "idle")
    /\ TokenValid
    /\ est' = [est EXCEPT ![r] = e]
    /\ ctxToken' = [ctxToken EXCEPT ![r] = tokenQuota]
    /\ \/ Goto(r, "preauth")
       \/ e = 0 /\ Goto(r, "attempt")
    /\ UNCHANGED <<preAuth, pre, retry, err, cost, debit, quotas, platform>>

Unauthorized(r) ==
    /\ At(r, "idle")
    /\ ~TokenValid
    /\ err' = [err EXCEPT ![r] = TRUE]
    /\ Goto(r, "done")
    /\ UNCHANGED <<preAuth, cost, debit, localVars, quotas, platform>>

\* No platform account, nothing to freeze, unified billing off, or a cached
\* balance high enough (ShouldSkipPreAuth): the last two can happen to any request.
SkipPreAuth(r) ==
    /\ At(r, "preauth")
    /\ Goto(r, "check")
    /\ UNCHANGED <<preAuth, err, cost, debit, localVars, quotas, platform>>

PreAuthorize(r) ==
    /\ At(r, "preauth") /\ r \in Linked /\ est[r] > 0
    /\ hold' = [hold EXCEPT ![r] = "held"]
    /\ preAuth' = [preAuth EXCEPT ![r] = TRUE]
    /\ Goto(r, "check")
    /\ UNCHANGED <<err, cost, debit, localVars, quotas, wallet, outbox>>

\* Refused or unreachable.  When only the reply is lost the hold exists, and
\* the hub does not know its id.
PreAuthFails(r) ==
    /\ At(r, "preauth") /\ r \in Linked /\ est[r] > 0
    /\ \/ UNCHANGED hold
       \/ r \in Faulty /\ hold' = [hold EXCEPT ![r] = "held"]
    /\ err' = [err EXCEPT ![r] = TRUE]
    /\ Goto(r, "done")
    /\ UNCHANGED <<preAuth, cost, debit, localVars, quotas, wallet, outbox>>

\* GetUserQuota fails: the handler returns, the hold stays.
QuotaQueryFails(r) ==
    /\ At(r, "check") /\ r \in Faulty
    /\ err' = [err EXCEPT ![r] = TRUE]
    /\ Goto(r, "done")
    /\ UNCHANGED <<preAuth, cost, debit, localVars, quotas, platform>>

\* A plausible bug: the estimate is not compared with the quota.
PositiveQuota(r) == userQuota > 0
Sufficient(r) == userQuota > 0 /\ userQuota >= est[r]

Trusted(r) == userQuota > TrustQuota /\ (TokenUnlimited \/ ctxToken[r] > TrustQuota)

\* The balance check; nothing is pre-deducted from a trusted user, and pre
\* (FinalPreConsumedQuota) stays 0.
CheckQuota(r) ==
    /\ At(r, "check")
    /\ \/ ~Sufficient(r) /\ Goto(r, "reject")
       \/ Sufficient(r) /\ (Trusted(r) \/ est[r] = 0) /\ Goto(r, "attempt")
       \/ Sufficient(r) /\ ~Trusted(r) /\ est[r] > 0 /\ Goto(r, "tokenCheck")
    /\ UNCHANGED <<preAuth, err, cost, debit, localVars, quotas, platform>>

\* PreConsumeTokenQuota reads the token's quota, then decreases it.
CheckToken(r) ==
    /\ At(r, "tokenCheck")
    /\ \/ r \in Playground /\ Goto(r, "userDec")
       \/ r \notin Playground /\ (TokenUnlimited \/ tokenQuota >= est[r]) /\ Goto(r, "tokenDec")
       \/ /\ r \notin Playground
          /\ (~TokenUnlimited /\ tokenQuota < est[r]) \/ r \in Faulty
          /\ Goto(r, "reject")
    /\ UNCHANGED <<preAuth, err, cost, debit, localVars, quotas, platform>>

PreDeductToken(r) ==
    /\ At(r, "tokenDec")
    /\ \/ ChargeToken(r, est[r]) /\ Goto(r, "userDec")
       \/ r \in Faulty /\ UNCHANGED quotas /\ Goto(r, "reject")
    /\ UNCHANGED <<preAuth, err, cost, debit, localVars, platform>>

\* When the user's quota cannot be decreased the token's is not given back.
PreDeductUser(r) ==
    /\ At(r, "userDec")
    /\ \/ /\ ChargeUser(r, est[r])
          /\ pre' = [pre EXCEPT ![r] = est[r]]
          /\ Goto(r, "attempt")
       \/ r \in Faulty /\ UNCHANGED <<quotas, pre>> /\ Goto(r, "reject")
    /\ UNCHANGED <<preAuth, est, ctxToken, retry, err, cost, debit, platform>>

\* PreConsumeQuota fails: the hold is released, its id is cleared.
Reject(r) ==
    /\ At(r, "reject")
    /\ ReleaseHold(r)
    /\ preAuth' = [preAuth EXCEPT ![r] = FALSE]
    /\ err' = [err EXCEPT ![r] = TRUE]
    /\ Goto(r, "done")
    /\ UNCHANGED <<cost, debit, localVars, quotas>>

-----------------------------------------------------------------------------
(* The attempts: one channel after the other.                              *)

\* No channel, an unreadable body, or an upstream error that is not retried.
AttemptFails(r) ==
    /\ At(r, "attempt")
    /\ err' = [err EXCEPT ![r] = TRUE]
    /\ Goto(r, "finish")
    /\ UNCHANGED <<preAuth, cost, debit, localVars, quotas, platform>>

RetriesLeft(r) == retry[r] < RetryTimes

AttemptRetried(r) ==
    /\ At(r, "attempt") /\ RetriesLeft(r)
    /\ err' = [err EXCEPT ![r] = TRUE]
    /\ retry' = [retry EXCEPT ![r] = @ + 1]
    /\ UNCHANGED <<pc, preAuth, est, ctxToken, pre, cost, debit, quotas, platform>>

\* The channel's breaker is open: the attempt is used up, newAPIError is not set.
BreakerSkips(r) ==
    /\ At(r, "attempt")
    /\ retry' = [retry EXCEPT ![r] = @ + 1]
    /\ Goto(r, IF RetriesLeft(r) THEN "attempt" ELSE "finish")
    /\ UNCHANGED <<preAuth, est, ctxToken, pre, err, cost, debit, quotas, platform>>

\* A plausible bug: a price below the pre-deduction is not corrected.
NotAbovePre(r, c) == c <= pre[r]
EqualsPre(r, c) == c = pre[r]

\* The upstream answers and postConsumeQuota computes the quota: nothing more
\* happens when it is exactly what was pre-deducted.
UpstreamServes(r, c) ==
    /\ At(r, "attempt")
    /\ cost' = [cost EXCEPT ![r] = c]
    /\ err' = [err EXCEPT ![r] = FALSE]
    /\ Goto(r, IF EqualsPre(r, c) THEN "finish" ELSE "postUser")
    /\ UNCHANGED <<preAuth, debit, localVars, quotas, platform>>

\* A plausible bug: the pre-deduction of a failed request is kept.
KeepsPreDeduction(r) == FALSE
\* The deferred function refunds when newAPIError is set and something was pre-deducted.
Refunds(r) == err[r] /\ pre[r] # 0

Finish(r) ==
    /\ At(r, "finish")
    /\ Goto(r, IF Refunds(r) THEN "postUser" ELSE "done")
    /\ UNCHANGED <<preAuth, err, cost, debit, localVars, quotas, platform>>

-----------------------------------------------------------------------------
(* PostConsumeQuota, for the difference of a served request and for the    *)
(* refund (ReturnPreConsumedQuota) of a failed one.                        *)

AfterPostConsume(r) == IF Served(r) THEN "finish" ELSE "release"

PostUser(r) ==
    /\ At(r, "postUser")
    /\ \/ ChargeUser(r, Delta(r)) /\ Goto(r, "postToken")
       \/ r \in Faulty /\ UNCHANGED quotas /\ Goto(r, AfterPostConsume(r))
    /\ UNCHANGED <<preAuth, err, cost, debit, localVars, platform>>

PostToken(r) ==
    /\ At(r, "postToken")
    /\ \/ r \in Playground /\ UNCHANGED quotas /\ Goto(r, "wallet")
       \/ r \notin Playground /\ ChargeToken(r, Delta(r)) /\ Goto(r, "wallet")
       \/ /\ r \in Faulty /\ r \notin Playground
          /\ UNCHANGED quotas /\ Goto(r, "compensate")
    /\ UNCHANGED <<preAuth, err, cost, debit, localVars, platform>>

\* A plausible bug: the compensation repeats the charge.
CompensateAgain(r) == ChargeUser(r, Delta(r))
GiveBack(r) == ChargeUser(r, - Delta(r))

\* The token's quota was not updated: the user's change is undone, or that fails too.
Compensate(r) ==
    /\ At(r, "compensate")
    /\ GiveBack(r) \/ UNCHANGED quotas
    /\ Goto(r, "walletBad")
    /\ UNCHANGED <<preAuth, err, cost, debit, localVars, platform>>

NothingToSettle(r) == r \notin Linked \/ SettleAmount(r) <= 0

\* The hold is left alone when there is nothing to settle.
NoSettlement(r) ==
    /\ pc[r] \in {"wallet", "walletBad"}
    /\ NothingToSettle(r)
    /\ Goto(r, AfterPostConsume(r))
    /\ UNCHANGED <<preAuth, err, cost, debit, localVars, quotas, platform>>

\* A plausible bug: a settlement that fails is repeated in place, not queued.
SettleInPlace(r) ==
    /\ pc[r] \in {"wallet", "walletBad"} /\ preAuth[r]
    /\ r \in Linked /\ SettleAmount(r) > 0
    /\ IF At(r, "wallet") /\ hold[r] # "held"
       THEN UNCHANGED vars
       ELSE /\ IF At(r, "wallet") THEN PlatformSettle(r, SettleAmount(r)) /\ UNCHANGED outbox
                                  ELSE ReleaseHold(r)
            /\ preAuth' = [preAuth EXCEPT ![r] = FALSE]
            /\ Goto(r, AfterPostConsume(r))
            /\ UNCHANGED <<err, cost, debit, localVars, quotas>>

\* Phase 5 with a pre-authorisation: settle it, or release it when the local
\* quotas are inconsistent.  Either way its id is cleared.
SettlePreAuth(r) ==
    /\ pc[r] \in {"wallet", "walletBad"} /\ preAuth[r]
    /\ r \in Linked /\ SettleAmount(r) > 0
    /\ \/ At(r, "walletBad") /\ ReleaseHold(r)
       \/ /\ At(r, "wallet") /\ hold[r] = "held"
          /\ PlatformSettle(r, SettleAmount(r)) /\ UNCHANGED outbox
       \/ /\ At(r, "wallet") /\ CallMayFail(r)
          /\ PlatformSettle(r, SettleAmount(r)) \/ UNCHANGED <<hold, wallet>>
          /\ Enqueue(r, "settle")
    /\ preAuth' = [preAuth EXCEPT ![r] = FALSE]
    /\ Goto(r, AfterPostConsume(r))
    /\ UNCHANGED <<err, cost, debit, localVars, quotas>>

\* Without one the wallet is debited by a goroutine nobody waits for, also
\* when the local quotas are inconsistent.
StartDebit(r) ==
    /\ pc[r] \in {"wallet", "walletBad"} /\ ~preAuth[r]
    /\ r \in Linked /\ SettleAmount(r) > 0
    /\ debit' = [debit EXCEPT ![r] = TRUE]
    /\ Goto(r, AfterPostConsume(r))
    /\ UNCHANGED <<preAuth, err, cost, localVars, quotas, platform>>

\* The debit is executed; a fault loses it, or has it executed a second time by
\* the HTTP fallback after the reply of the gRPC call is lost.
LegacyDebit(r) ==
    /\ debit[r]
    /\ \E times \in IF r \in Faulty THEN 0 .. 2 ELSE {1} :
          wallet' = [wallet EXCEPT ![r] = @ + times * SettleAmount(r)]
    /\ debit' = [debit EXCEPT ![r] = FALSE]
    /\ UNCHANGED <<pc, preAuth, err, cost, localVars, quotas, hold, outbox>>

\* The release that ends ReturnPreConsumedQuota; the id is kept for the logs.
Release(r) ==
    /\ At(r, "release")
    /\ ReleaseHold(r)
    /\ Goto(r, "done")
    /\ UNCHANGED <<preAuth, err, cost, debit, localVars, quotas>>

-----------------------------------------------------------------------------
(* The platform's clock, the death of a process, the outbox worker.        *)

Expire(r) ==
    /\ hold[r] = "held"
    /\ hold' = [hold EXCEPT ![r] = "expired"]
    /\ UNCHANGED <<pc, preAuth, err, cost, debit, localVars, quotas, wallet, outbox>>

\* Nothing of a request in progress is persisted.
Crash(r) ==
    /\ r \in Faulty /\ pc[r] \notin Ended \cup {"idle"}
    /\ Goto(r, "crashed")
    /\ UNCHANGED <<preAuth, err, cost, debit, localVars, quotas, platform>>

Execute(e) ==
    IF e.action = "settle" THEN PlatformSettle(e.req, SettleAmount(e.req))
                           ELSE PlatformRelease(e.req)

\* The row after a failed attempt.
Retried(e) == [e EXCEPT !.retry = @ + 1,
                        !.status = IF e.retry + 1 >= OutboxMaxRetries
                                   THEN "failed" ELSE "pending"]

OutboxAttempt(e) ==
    /\ e.status = "pending"
    /\ \/ /\ hold[e.req] = "held" /\ Execute(e)
          /\ outbox' = (outbox \ {e}) \cup {[e EXCEPT !.status = "done"]}
       \/ /\ CallMayFail(e.req) /\ (Execute(e) \/ UNCHANGED <<hold, wallet>>)
          /\ outbox' = (outbox \ {e}) \cup {Retried(e)}
    /\ UNCHANGED <<pc, preAuth, err, cost, debit, localVars, quotas>>

-----------------------------------------------------------------------------
\* The steps a running handler takes by itself.
Handle(r) ==
    \/ SkipPreAuth(r) \/ PreAuthorize(r) \/ PreAuthFails(r)
    \/ QuotaQueryFails(r) \/ CheckQuota(r) \/ CheckToken(r)
    \/ PreDeductToken(r) \/ PreDeductUser(r) \/ Reject(r)
    \/ AttemptFails(r) \/ AttemptRetried(r) \/ BreakerSkips(r)
    \/ \E c \in Costs : UpstreamServes(r, c)
    \/ Finish(r)
    \/ PostUser(r) \/ PostToken(r) \/ Compensate(r)
    \/ NoSettlement(r) \/ SettlePreAuth(r) \/ StartDebit(r)
    \/ Release(r)

Worker == \E e \in outbox : OutboxAttempt(e)

\* Every request is over and the worker has no row left.
Terminated ==
    /\ \A r \in Requests : pc[r] \in Ended /\ ~debit[r]
    /\ \A e \in outbox : e.status # "pending"
    /\ UNCHANGED vars

Next ==
    \/ \E r \in Requests :
          \/ \E e \in Estimates : Begin(r, e)
          \/ Unauthorized(r)
          \/ Handle(r)
          \/ LegacyDebit(r)
          \/ Expire(r)
          \/ Crash(r)
    \/ Worker
    \/ Terminated

\* Goroutines that can run do run; so does the ticker that calls the worker.
Fairness ==
    /\ \A r \in Requests : WF_vars(Handle(r)) /\ WF_vars(LegacyDebit(r))
    /\ WF_vars(Worker)

Spec == Init /\ [][Next]_vars
FairSpec == Spec /\ Fairness
-----------------------------------------------------------------------------
(***************************************************************************)
(* Properties.                                                             *)
(***************************************************************************)
Over(r) == pc[r] = "done"
PendingRow(r) == \E e \in outbox : e.req = r /\ e.status = "pending"

\* No fault, no retry and no compensation ever gives a request back more quota
\* than was taken for it: neither ledger of a request is ever negative.
NoOverRefund == \A r \in Requests : user[r] >= 0 /\ token[r] >= 0

\* A request that ends in an error has cost its user nothing: the deferred
\* refund gave back exactly what PreConsumeQuota took, from both quotas.
ErrorMeansUncharged ==
    \A r \in Requests \ Faulty :
        Over(r) /\ err[r] => user[r] = 0 /\ token[r] = 0 /\ wallet[r] = 0 /\ ~debit[r]

\* A served request has cost exactly its price, whatever was pre-deducted and
\* whatever its earlier attempts and the requests next to it did.
ServedMeansCharged ==
    \A r \in Requests \ Faulty :
        Over(r) /\ Served(r) =>
            /\ user[r] = cost[r]
            /\ token[r] = IF r \in Playground THEN 0 ELSE cost[r]

\* The wallet pays for served requests only, the price and not more: a hold is
\* settled for the cost, once, also when replies are lost and the outbox
\* repeats the call; without a hold the debit is as safe as its transport.
WalletChargedOnce ==
    \A r \in Requests :
        /\ hold[r] = "settled" => Served(r) /\ wallet[r] = cost[r]
        /\ r \notin Faulty /\ wallet[r] # 0 => Served(r) /\ wallet[r] = cost[r]

\* Nobody settles what somebody else releases: a hold queued for settlement is
\* never released, a hold queued for release never settled, whatever failed.
NoMixedSettlement ==
    \A e \in outbox :
        /\ e.action = "settle"  => hold[e.req] # "released"
        /\ e.action = "release" => hold[e.req] # "settled"
        /\ \A f \in outbox : f.req = e.req => f.action = e.action

\* The only ways a request that met no fault ends with its hold still frozen:
\* an error after nothing was pre-deducted (the deferred function does
\* nothing), a cost that equals the pre-deduction or is 0 (PostConsumeQuota is
\* not called, or has no total), an exit through the breaker with no error set.
HoldLeakCases ==
    \A r \in Requests \ Faulty :
        Over(r) /\ hold[r] = "held" /\ ~PendingRow(r) =>
            \/ err[r] /\ pre[r] = 0 /\ preAuth[r]
            \/ Served(r) /\ cost[r] \in {0, pre[r]}
            \/ ~err[r] /\ ~Served(r)

\* The balance check and the decrement are apart, so requests that run together
\* can overdraw the user's quota, by no more than the others' estimates.
OverdraftBounded ==
    (\A r \in Requests : user[r] <= est[r]) =>
        \A r \in Requests :
            user[r] > 0 => userQuota + MapThenSumSet(LAMBDA q : est[q], Requests \ {r}) >= 0

\* A request that has begun ends, whatever the platform and the channels do.
EveryRequestEnds == \A r \in Requests : pc[r] # "idle" ~> pc[r] \in Ended
=============================================================================
