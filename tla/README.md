# A TLA+ verification of lurus-hub

lurus-hub is a gateway in front of many LLM providers. A client sends a request
with an API token; the hub picks a channel (an upstream account), relays the
request, and charges the user's quota, the token's quota and, for users of the
platform, a wallet kept by the *identity* service. These modules model the
parts of the hub in which money and availability depend on the order of steps:
the billing life of a request, the quotas in their three places, the ways quota is
credited, the daily quota, the choice of a channel and the state of its keys, the
circuit breakers, the outbox that repeats failed platform calls, the asynchronous
tasks that are charged when they are submitted and refunded when they fail, and the
goroutines that relay a streamed answer. All paths below are relative to the repository;
`PROJECT.json` maps every definition to the lines it stands for.

## 1. The system

### 1.1 Components

| Component | State | Operations | Hard behaviour | What makes it correct |
|---|---|---|---|---|
| Relay billing (`internal/app/pre_consume_quota.go`, `quota.go`, `adapter/handler/relay.go`) | per request: `FinalPreConsumedQuota`, `PlatformPreAuthID`, `newAPIError`, retry counter; the two quotas; wallet | pre-authorise, check, pre-deduct, attempt, post-consume, compensate, settle / release, refund | requests of one user interleave between statements; every statement can fail; the deferred refund depends on flags set along many paths | a failed request costs nothing, a served one its price, a wallet is charged once, nothing is refunded twice |
| Circuit breakers (`pkg/resilience/circuitbreaker.go`, `pkg/common/billing_breaker.go`) | state, consecutive failures, time of the last failure | allow, record success, record failure | results arrive after the breaker has changed state; a call may never report | opens after the threshold, one probe, closes again when the upstream recovers |
| Billing outbox (`internal/app/billing_outbox.go`) | rows of `billing_outbox` | enqueue, select due rows, call, mark done, mark for retry | several pods, row locks that end with the SELECT, restarts, lost replies | done means executed, given up only after all retries, every row ends |
| Platform client (`pkg/common/identity_grpc_client.go`, `billing_client.go`, `billing_cache.go`) | balance cache, connections | pre-authorise, settle, release, debit, over gRPC with an HTTP fallback | a call executed whose reply is lost | one effect per request |
| Quota store (`adapter/repo/user.go`, `token.go`, `utils.go`, `*_cache.go`) | rows, Redis hashes, batch-update maps | increase, decrease, refill, flush | asynchronous increments race with refills; batches lost on failure | cache follows the row, no delta lost |
| Realtime billing (`internal/app/quota.go`, `app/relay/websocket.go`) | as relay billing, per increment | pre-charge an increment, final charge | increments after the hold is gone | the session costs its price |
| Task polling (`adapter/handler/task.go`, `task_video.go`, `app/relay/relay_task.go`, `adapter/repo/task.go`) | `tasks` rows, the user's quota | submit and charge, poll, fetch, refund | refund and row update are two steps, whole rows are saved from old reads | a failed task costs nothing, a finished one its price, once |
| Midjourney tasks (`adapter/handler/midjourney.go`) | `midjourneys` rows | submit, poll, refund | as task polling | as task polling |
| Daily quota (`adapter/repo/user.go`, `daily_quota_cron.go`) | used amount, reset time, base and fallback group | consume, reset, switch group | the cron of every pod races with requests | one reset a day, the group matches the usage |
| Crediting (`adapter/handler/internal_api.go`, `internal_currency.go`, `v2_billing.go`, `v2_redemption.go`, `adapter/repo/redemption.go`) | log lines, exchange rows, code rows, wallet | top up, transfer, exchange, redeem; edit and delete codes | repeated and overlapping calls, a saga over two systems, row locks that are not taken | an order is credited once, and as the client is told |
| Channel cache and selection (`adapter/repo/channel_cache.go`, `ability.go`, `app/channel_select.go`, `adapter/middleware/distributor.go`, `app/hub/`) | group/model index, channel map, scores | rebuild, status update in place, pick by group, priority, weight and retry | group and retry counters over several calls while list and weights change | every draw finds a channel, priorities are tried in order, attempts are bounded, the group that serves is billed |
| Multi-key pools (`adapter/repo/channel.go`, `channel_pool.go`, `app/openrouter_pool/`, `adapter/handler/channel.go`) | key status and cool-down by position, in cache and row | disable, cool, reap, enable, delete | whole-row writes from old reads, positions that move | only failing keys are disabled, a cooled one returns, the cache follows the row |
| Streaming relay (`app/relay/helper/stream_scanner.go`, `provider/openai/relay-openai.go`, `app/convert.go`) | goroutines, stop channel, lock; the converter's block index and type | scan, write, ping, stop; convert a chunk | signals that wake one receiver, timeouts, a chunk held back | every goroutine ends, every piece is sent once, in an open block, before message_stop |
| Rate limits, notification limit (`adapter/middleware/model-rate-limit.go`, `app/notify-limit.go`) | Redis lists and counters | check, record | check and record apart | no more than the limit |
| OpenRouter sync, options and pricing, authentication and tenants, governance and logs, search sync, lifecycle, provider adaptors, user interface and deployment | see `PROJECT.json` | | | not modelled, for the reasons given there |

### 1.2 Interaction

A relay request runs in its own goroutine and calls, in this order: the token
check (quota store), the platform (pre-authorise a hold on the wallet), the
quota store (check and decrement), the selection and the channel's breaker, the
upstream, the quota store again (the difference to the real price), and the
platform (settle or release the hold). A failed settle or release becomes an
outbox row, which a ticker of the process takes up later. Requests share the two
quotas, the breakers and the table; nothing else connects them, and there is no
lock or transaction across two statements. The modules share these seams:
RelayBilling charges the quotas QuotaStore keeps; ChannelSelect chooses the channel
of an attempt, ChannelPool decides which channels and keys can be chosen, Breaker
whether the choice is allowed; Stream is one attempt seen from inside; the
difference PostConsumeQuota charges is what DailyQuota counts.

### 1.3 Hazards

`PROJECT.json` lists them with their lines. The ones the modules are built
around: a balance check apart from its decrement; one step of several failing,
with a compensation that may fail as well; a reply lost after its call was
executed; results that arrive after the breaker has moved on; two pods on the same
row; whole rows written back from old reads; a cache filled from a read that is no
longer true; a request that leaves by a path on which some flag is not set.

## 2. Modules

### RelayBilling

The requests of one user with one token, from the authentication middleware to
the deferred refund in `Relay`. A request has a program counter `pc`; every
database statement and every platform call is one action, named after what the
code does there, so the requests interleave exactly between the statements.

| Model | Code |
|---|---|
| `est`, `ctxToken` | `QuotaToPreConsume`, `token_quota` in the gin context |
| `preAuth`, `pre`, `err`, `retry` | `PlatformPreAuthID > 0`, `FinalPreConsumedQuota`, `newAPIError != nil`, `retryParam` |
| `cost` | the quota `postConsumeQuota` computes; `Unserved` before an upstream has answered |
| `userQuota`, `tokenQuota` | `users.quota`, `tokens.remain_quota` |
| `user`, `token`, `wallet` | ledgers: what this request has taken so far from each |
| `hold`, `outbox` | the platform's pre-authorisation, the rows of `billing_outbox` |
| `Begin` .. `Reject` | token check, `PreConsumeQuota`, `PreConsumeTokenQuota`, `platformPreAuthorize` |
| `AttemptFails` .. `Finish` | the retry loop and the deferred function of `Relay` |
| `PostUser` .. `Release` | `PostConsumeQuota`, for a served request and for `ReturnPreConsumedQuota` |
| `LegacyDebit`, `OutboxAttempt`, `Expire`, `Crash` | the goroutine of the wallet debit, the worker, the TTL, the death of the process |

*Faults.* The requests in `Faulty` may meet any infrastructure fault at any step:
a failed statement, a refused or unreachable platform (an open billing breaker
included), a lost reply, a failed insert into the outbox, a crash. The others
meet none, but they share the quotas with the faulty ones and still meet
everything the upstream, the channel breakers, the balance and the hold's TTL
can do to them. So a property of "a request without a fault" is checked next to
requests that fail in every way.

*Abstractions.* Prices are members of `Costs`, estimates of `Estimates`. The
balance cache that lets a request skip the pre-authorisation, and the two flags
that switch it off, are the free choice of `SkipPreAuth`. The
quotas are the database's: Redis copies and batch updates are QuotaStore's. The outbox has one worker here and its SELECT and
UPDATE are one step with the call; BillingOutbox has the pods and the steps.

### Breaker

One `breaker` of the registry. The lock makes every method one step; calls run
between the steps and their result arrives at any later time. `fails` stops
counting at `Threshold`, the only number the code compares it with; `cooling`
stands for `time.Since(lastFailTime) < timeout`. `stale`, `lost` and `healed`
are history variables for the properties. `Abandon` is an exit of `Relay` between
`Allow` and the result. The billing breaker has the same three states; its calls
always record a result (`Abandoning = {}`).

### BillingOutbox

The table and one worker per pod. A worker reads the due rows into `batch`
(with the retry count it saw), calls the platform for one (`CallPlatform`), and
writes the outcome (`MarkDone`, `MarkRetry`), with other workers, restarts and
the hold's TTL between any two of these. The updates are guarded by the
status, as in the code; the retry count written is the one read plus one.

### TaskPolling

The `tasks` table with the three parties that write it: a submission
(`Submit`, then the deferred `Charge`), the poller of the master pod (`Poll`
reads the unfinished rows; Suno rows are asked for together and then taken one
by one, video rows one by one; `Pay` and `Save` are the two effects of a row, in
the order the code has them), and the fetch of a client (`ReadRow`,
`AskUpstream`, `WriteRow`). A row keeps its status, whether its progress is 100 %
and its quota; all statuses before the end are `running`. `paid` is what the
user's quota has paid for a task. `work.steps` is the order of the effects: a Suno refund
is paid before the save, a video refund after it, a new price before it.
`err` is the Go variable of `updateSunoTaskAll` that outlives a row. Faults
(a failed statement or call, a restart, a removed channel) hit tasks of `Faulty`,
`MaxFaults` times in all; a round's limit of 1000 rows is not modelled.

### Counter and QuotaStore

`Counter` is what the callers of the quota functions rely on: an acknowledged change
counts once, and only a fault or an edit makes the value anything else than the sum of
the changes. `QuotaStore` is the implementation for one row: the column, the Redis hash,
and the store of every pod that batches its changes (`AddNewRecord`, `BatchSwap`,
`BatchWrite`). It refines Counter (`CountsOnce`) with the value "column plus what lies in
the stores". The hash is no part of the mapping: it is a copy, incremented
(`HIncrReadTTL`, `HIncrWrite`) and refilled (`ReadMiss`, `ReadQuota`, `FillHash`,
`HSetWrite`) by goroutines that nothing orders. `DriftOnlyAtRefill` says that the
increments alone keep its distance to the quota, `EventuallyFresh` that no wrong copy
outlives its TTL. An edit (`EditRead`, `EditWrite`) stands for the administrator's form
and for every change of a user's settings, which writes back the quota it read.

### Credits

The four ways quota is credited from outside a request. `ord` gives every call its
order; a client may send several calls for one order. Top-up: check the log, find the
user, credit, write the log. Transfer (`TopUpV2`): check the log, debit the wallet,
credit, or refund the wallet. Exchange: check, insert and credit in one transaction,
whose key `claim` holds. Code: read and save in one transaction without a row lock.
Any call in `Faulty` may meet a failed query, a failed or unacknowledged statement, a
platform call executed up to twice, and death. Amounts are 1. The log tag of a top-up is found
by a LIKE that also finds longer ids: `Longer`.

### ChannelPool

The row of a channel with a pool of keys, the copy in one pod's memory, and those who
read, change and write back: goroutines of failed requests (under
`channelStatusLock`), the reaper, administrators. Status and cooldown are functions of
the position, as in the code, so deleting a key moves statuses and leaves cooldowns, and a
key may be listed twice. `Managed` has the operations of ManageMultiKeys, `Lists` what
UpdateChannel accepts: any keys behind the list or in its place, the statuses staying where
they are. `Counted` is `Channel.Update`, which counts the keys again, those in the database
when the form has none (also after `delete_disabled_keys` has removed them all).
`lost` records a write from an older read, `orphan` a status that came to stand for
another key, `barred` the positions an administrator has left disabled with no cooldown
pending. Time is counted in ticks, a cooldown lasts one.

### ChannelSelect

One request of each kind (group, "auto" with and without retries across groups,
playground, fixed channel) from `Distribute` through the retry loop, on a list of
channels and on scores that change under it. A draw is the set of its possible results
(`Picks`): the channels with a share, and the end of the list if the shares do not add up.
Scores are in percent; latency is quick or slow.

### ClaudeEvents and Stream

`ClaudeEvents` is the converter: a function from its state and a chunk to its next state
and the events sent. `Stream` has the goroutines around it: the scanner, the writer it
starts for each chunk, the ping goroutine and its writer, and the handler that waits,
cancels, joins and writes the final response. `stop` is the buffered channel, a value in
which wakes one receiver only; the lock is `Unlocked`. A chunk is converted (`DataHandler`),
its events are written one by one (`WriterSends`), each for as long as it takes, and only then
does `lastStreamData` change (`HoldBack`). The final response (`FinalResponse`, `MainSends`,
`MainReturns`) does the same without the lock; `behind` records that it found a writer at work. A *calm* stream meets no timeout,
ping or disconnection; a *rough* one may meet any of them at any step. `Upstreams` is what the
module assumes of the streams: the arguments of a tool call directly follow its name and keep
its index, a stream that begins with a tool begins with tool 0, and after the chunk with the
`finish_reason` comes at most one more, without a choice. That is the protocol the upstreams
speak, not something the hub checks. Conversion is one step and so is the write of an event:
that a writer left behind and the final response may change the converter's fields or the
connection at the same instant, a data race, is not modelled. A write to a client that stalls
is assumed to return some time (`EveryoneExits`).

### DailyQuota

One user with a base and a fallback group. `left` is what is left of the day's quota,
`lastReset` whether the last reset lies in the current day, before, or is still 0. Each pod's
cron job reads, resets and restores in separate statements; a request counts, reads, reads
again and switches. `SetGroup` stands for the two writers of the group alone
(`User.Edit`, `InternalUpdateUser`). `ReadSelf` and `Update` are the handlers of the user's own
settings (`UpdateSelf`, `UpdateUserSetting`, `GenerateAccessToken`, the profile of API v2): they
read the row, and `User.Update` writes back every column that was not zero, counter, time of
the reset and group among them. `overtaken` and `excused` record the races in which a user is
demoted wrongly, `handedOut` that the counter was reset since midnight, `setBack` that an older
row was written back since.

## 3. Runs

| Run | What it shows | States |
|---|---|---|
| `relay_billing` | two requests, one of them faulty: quotas, wallet, holds and outbox stay right at every interleaving | 399 000 |
| `relay_billing_live` | estimates that fit the quota singly but not together: the overdraft keeps its bound; with fairness, every begun request ends; playground requests and unlimited tokens | 294 000 |
| `quota_store` | the quota implements Counter through statements and batches; only refills and edits make the Redis copy drift; no stale copy lasts | 511 000 |
| `credits` | orders credited once except in the named cases, exchanges always; clients told the truth; transfers balanced; no call hangs | 189 000 |
| `daily_quota` | a user with quota left is demoted only in the named races; one reset a day unless an older row was written back; the user comes back | 438 000 |
| `channel_pool` | keys are blamed wrongly, or given back against the administrator, only in the named cases; cooldowns drain; the cache converges | 736 000 |
| `channel_select` | attempts bounded, every draw finds a channel, no scored channel excluded, the right group billed, no priority skipped | 349 000 |
| `stream` | every piece sent once, one repeated at most if a writer is overtaken; deltas in open blocks and nothing after message_stop unless it is; complete messages; every goroutine exits | 1 566 000 |
| `breaker` | a half-open breaker has its one probe, late results apart; the breaker recovers | 2 500 |
| `billing_outbox` | final statuses are right and are reached, for two pods with a restart and old retry counts written back | 539 000 |
| `task_polling` | two Suno tasks of one channel, one exposed to a fault, and a video: finished tasks are paid for, failed ones refunded, all end | 192 000 |
| `task_polling_video` | a video task under two faults is not refunded twice, nor refunded and delivered; a client that writes old rows back cannot keep its task from ending | 44 000 |

Where the code does less than its comments say, the property states what it does
guarantee and names the exception; section 5 lists those places.

### Bounds

* **relay_billing**: two requests, because every shared thing (the two quotas)
  is a sum, and an overdraft or a mixed-up refund needs two; one of them
  faulty and one not. Estimates and costs of 0, 2 and 5 give a free request, a price
  equal to the pre-deduction, a larger one, and a smaller one. A quota of 4 with a trust limit of 3
  gives a trusted request, a pre-deducted one and a refusal.
  `RetryTimes = 1` gives a first, a repeated and a last attempt;
  `OutboxMaxRetries = 2` a repeated and an exhausted row.
* **relay_billing_live**: a user's quota of 2 with estimates of 2 and 3: one request fits exactly,
  two that have both passed the check overdraw it, one of 3 is refused; prices 0 and 3.
* **breaker**: threshold 3 and four goroutines, so that three failures trip it
  with a fourth call still out; a trip, a probe and a late result need no more.
* **billing_outbox**: a settlement and a release, two pods, three retries, one
  restart: enough for two workers on one row with different old counts, so that the one with the
  older count sets it back.

* **task_polling**: two Suno tasks, because `err` passes from one to the next; price
  2 and final prices 1 and 3 give a new charge and a return (2 and 3 in the
  other run: no change and a charge); one fault, two in `task_polling_video`, because the
  second may hit the repetition of what the first one broke; one fetch by a client.

* **quota_store**: a charge that may be batched and a direct credit of different size on
  different pods, one reader, one edit, one fault, the deletion: enough for every pair of
  the orders in which statement, batch, increment and refill of two operations can come. The
  row is a user's; a token's lacks `ReadQuota` and is deleted alike.
* **credits**: three calls, since the third sees what two overlapping or failed ones
  left; one of them faulty; one edit of a code. All calls are for one order, of
  each kind, because no action reads what another kind leaves behind; once two are
  for a top-up whose id begins with that of the third.
* **daily_quota**: two pods and two requests, a quota of 2 consumed by 1 or 2, two faults
  (the second may hit the repair of the first), one write by a form or a handler of the user's
  settings, days without a bound.
* **channel_pool**: pools of one or two keys, every list of up to two an administrator can
  submit, repeated keys included, two failing requests, one edit, two ticks: a cooldown can begin,
  end and be seen late.
* **channel_select**: three priorities with two retries, and a second group, one channel
  in both; weights 0, 1 and 20, so that rounding, zero weights and the smoothing factor
  occur; two changes of scores or list during the request, at any step of it.
* **stream**: calm are all streams of up to three pieces of content with four ways to end (none, a
  finish reason with and without usage, usage in a chunk of its own), rough those of up to
  two pieces and a finish reason, and one with a usage chunk; the buffer of three values the
  code has for `stopChan`.

The theorems of section 4 lift these bounds for the safety properties of every run.

### Fairness

Goroutines that can run do run (`WF` of a handler as a whole, never of a branch:
which branch is taken is the world's choice). The worker is called by a ticker
(`cmd/server/main.go:214-228`) as long as unified billing is switched on; rows are stranded
while it is off, and the runs assume it is on. For the breaker: calls keep
arriving, every call that is not abandoned ends, time passes. Recovery is
claimed only from the point on where the upstream answers (`healed`). For the
tasks: upstreams end their tasks (the code has no timeout for one that does
not), the 15 s ticker of the poller goes on (`cmd/server/main.go:203-212`), and a
client's request that has started comes to an end. For the quotas: goroutines and the
batch ticker run, and keys expire. For the pool: the reaper and the cache
ticker go on, and requests stop failing after finitely many (the bound). For the daily
quota: the day ends, the cron job of every pod goes on. For a stream: each goroutine
that can move does; timeouts may fire at any time but the calm streams meet none.

## 4. Proofs

TLAPS checks, for any number of requests, goroutines, rows, pods, tasks, operations,
calls and channels, any amounts, weights, priorities, thresholds and retry limits within the
named assumptions of the modules (`RequestSets`, `Amounts`, `Limits`, `CallSets`, `Trips`,
`RowSets`, `TaskSets`, `Prices`, `Bounds`, `StoreSets`, `OrderSets`, `SelectSets`, ...). These say
that the identifiers are disjoint and finite sets (the requests, operations and calls a
history has seen are finitely many; sums over them need it), that numbers are natural (priorities any integers), and that
"none" names no group, caller or order.

* **RelayBillingProofs.** `Typing` needs `AttemptsLeft`: that the retry counter
  stays in range depends on where a request is. `OverRefund` and
  `ServedCharged` follow from `LedgerInv`, which says at each position what the
  two ledgers hold (`Taken`) and which flags are set there (`Position`). Neither
  property is inductive: "the ledger is never negative" survives the refund
  only if the ledger held the pre-deduction before, which is what `Taken` says of
  the positions `attempt` and `postUser`. `ChargedOnce`, `NotMixed` and
  `ErrorUncharged` follow from `WalletInv`, which ties hold, wallet, pending debit and outbox
  rows to the position: a release is queued only by a request that does not
  settle, and a settlement only by one that has been served.
* **AttemptProofs** has the theorems of three modules that stand around one attempt.
  *Breaker*: `CountMatches`, `ProbeInFlight` and `SingleProbeUnlessStale` from
  one invariant; the last needs that a probe in flight without
  a late result is the only one *and* finds the breaker still half-open.
  *BillingOutbox*: `DoneExecuted`, `FailedTried`, `FinalStays`: a worker
  carries a count covered by calls that were made (`CountsCovered`) and a
  confirmation for an executed action (`Confirmed`).
  *Stream*: `HandsOverCleanly` from `Handover`: until the scanner has exited, a stream nobody
  aborts has no value in `stopChan`, and its writer is the one the scanner waits for
  (`Undisturbed`); what the scanner puts there waits for the handler (`Signalled`).
  `PiecesOnce` and `WellFormed` are about the content, for streams of any length. No induction over the stream
  is needed, because the scanner goes through it step by step. `Place` says which chunk is held
  back, where a writer is, and how many chunks have been handed on. `Tally` counts: the pieces sent, and those
  that the writer and the final response have yet to send, are no more than the chunks converted,
  plus the one that the final response converts although the writer has done so already. `Message`
  says of the events sent, together with those a writer still holds, that they are what so many chunks give
  (`Before`), and of the final response, when no writer was behind it, that with what it still holds they
  are the whole message (`Finished`). So a property is first shown of the message with its
  unsent rest and then of the part that is out. Under it lie lemmas about the
  converter. `OneMore` says what one event changes in a message: which blocks are open or
  have begun, whether it has begun, has begun twice, or is over. `TextStep`, `ThinkStep`,
  `ToolStep`, `FirstStep` and `EndingStep` say what one chunk does, `ChunkConverted` and
  `LastConverted` what `HandleStreamFormat` and `HandleFinalResponse` do. The link between them is `Telling`:
  while a block of thinking or text is being told, the block at the converter's index is open;
  and for a tool, the block its next arguments need.
* **BackgroundProofs** has the theorems of the two modules with background jobs. *ChannelPool*:
  `BlamedKeysFailed` and `ManualStays` from `PoolInv`. As long as no write has undone another one,
  every copy goes back to the row it was read from, so only the row itself needs an
  invariant: a disabled key in it has failed (`Deserved`, while nothing was misread), and a position in
  `barred` is not on and waits for no deadline (`Barred`), which is what the reaper would need to enable it. Deleting keys
  moves every status with its key (`Nth`); a form leaves them where they are (`Shifted`).
  *DailyQuota*: `DemotedByRace` from `SawExhaustion`: a request about to switch saw the
  exhaustion of this day, or is in `overtaken`, or an older row was written back. `OneResetADay` from `TimeOfReset`: a
  counter reset since midnight carries the time of that reset unless an older row was written
  back, so the guard that the reset repeats in its statement stops a second one.
* **TaskPollingProofs.** `Typing` needs `StepsInOrder`, what the steps of the row
  in work say of that row: a price that is added to a quota leaves it a number
  only because the delta was computed from the same row. `RefundOnce` follows from
  `Once`, which says where a refunded task can be: a video task nowhere in the
  poller and with a failed row, a Suno task at its last step with a finished row
  in hand, or done. `Once` is inductive together with `Places`: a task is in one
  place of the poller at most (`Apart`), and nobody holds a task that has not been
  submitted (`Submitted`).

* **SetSums.** Induction over finite sets and the laws of `Sum(f, S)` that the other modules
  cite: adding, removing and changing a term, splitting, bounding and scaling a sum, and the
  smallest and largest element of a set. The induction theorem of the library takes an
  operator; here a property of subsets is a set of subsets (`SubsetInduction`), and a smallest
  counterexample is excluded because strict inclusion of finite sets is well-founded.
* **RelayBillingProofs**, sums. `HoldLeaks` follows from `FrozenInv`: where a request with a frozen hold
  can be, and what it will still do to it. `Overdraft` follows from `OverdraftInv`: the quota is what it was
  less the sum of the ledgers (`Conserved`), and who has passed the check asked for no more than
  there was at first (`Afforded`); the others have taken at most their estimates.
* **TaskPollingProofs**, `FinishedSettled`. The inductive part says, for every place a
  task can be in, what it has paid: the price, the new price, or nothing, with
  the effects still to come in `work.steps`; `err` keeps a refund back only where a fault may hit
  another Suno task.
* **QuotaStoreProofs.** `ImplementsCounter` is the refinement: the initial states map to
  Counter's, and every step of `Next` is a step of Counter or a stutter. `StoreInv`
  (`InMemoryOnce`) carries it: an operation lies once in the memory of the pods, in a store or
  in a batch, so that swapping a store moves the sum and changes nothing. `NoDrift` proves
  `DriftOnlyAtRefill` from the same invariant and the hash's.
* **CreditsProofs.** `Routed` says which steps a call of each kind can be at. `Balanced`
  adds what a transfer has moved at each of them. `Answered` rests on `Recorded` and `Backed`: a log line, an
  exchange row and a used code never exist before their credit. `Once` has two parts.
  An exchange is credited exactly when its row exists, because only one call holds its key
  (`Keyed`). For the others `Single` states, for an order that met no fault, no overlap and no
  renewed code, that one call is in flight, one credit exists, and whoever comes later finds its
  trace. The proof changed the model: `reissued` (a history variable) did not count a code that was
  redeemed, disabled by one edit and enabled by another, so the property failed with
  `MaxEdits = 2`, though not with the 1 of the run. It now counts it, and the
  theorem holds for any number of edits.
* **ChannelSelectProofs.** `GroupBilled` is inductive once it is said of the position
  `priced`, where the group is still to be taken from the context. `Bounded` follows from
  `Paced`: with i the position, the i - 1 groups before have had at most `RetryTimes + 1` attempts
  each and the group itself as many as the counter says, one of them still in flight when
  the counter was reset. `DrawFair` shows that the shares add up to the range of the
  random number (`SharesFill`), over the adjusted weights and their smoothing. `PriorityOrder`
  proves `NoPrioritySkipped` from `Descent`: the channel of a request has the priority that its
  counter asked for in the group at its position, or the request has left that group
  for good. It uses that the ranks of priorities are exactly 0 .. n - 1 (`Ranked`: an
  injection between finite sets of the same size), so that one more retry is the next
  lower priority (`NextTarget`). Its hypothesis `DistinctGroups` is not ensured by the code:
  `GetUserAutoGroup` (`internal/app/group.go:45-54`) takes the groups over from the setting with
  their repetitions. For a setting that lists a group twice the property is false: the
  second visit begins again at the first priority. Among the
  theorems it is the only one with a hypothesis beyond the assumptions of its module.

The theorems of one module do not assume those of another; each rests on the assumptions
above and on the code as the module states it.

One assumption describes inputs the code does not check: `Upstreams` (section 2).

Three proofs that did not go through changed the modules. `ManualSticks` was false with more than one
edit: a channel test may still be on its way when its key is deleted, and then enables the
key in the first position, which may have been disabled by hand; the run with one edit could not
show it. The property names that case. `BlocksInTurn` was false for a stream aborted after two
chunks, of whatever length: the second is converted by the final response as if it were the
first. It used to exclude streams of one and two chunks; now it excludes messages that begin twice,
and the rough streams of the run include such a case. `Credits` is told of above.

Only model-checked are the liveness properties (`EveryRequestEnds`, `Recovers`, `EveryRowEnds`,
`EveryTaskEnds`, `EventuallyFresh`, `EveryAttemptEnds`, `ReaperDrains`, `CacheConverges`,
`EveryoneExits`, `BackToBase`): they rest on fairness and ENABLED, which are out of the prover's
reach. Every invariant and every action property of the runs is proved, and so is the refinement of Counter.

## 5. What the checks found

Every point is a place where a property needed an exception, or failed in its first,
stronger form; the exception in the property (in brackets) is the counterexample.

*Relay billing, breakers, outbox, tasks*

* `pre_consume_quota.go:34`: "every pre-auth MUST be either settled or released". The
  deferred refund runs only when `FinalPreConsumedQuota != 0`, so a failed request of a
  trusted user keeps its hold until the TTL; so does a served request whose price equals
  its pre-deduction or is 0 (`HoldLeakCases`).
* `pre_consume_quota.go:19` says the quota is refunded when a request fails after
  pre-consumption. When the breaker rejects every attempt, the loop of `Relay`
  ends with `continue` and without an error: the pre-deduction is kept, and the client
  gets an empty answer (`ErrorMeansUncharged` speaks of requests that end in an error).
* `ReturnPreConsumedQuota` is documented as safe to call several times
  (`pre_consume_quota.go:20-21`); it does not clear `FinalPreConsumedQuota`, so
  that holds only because `Relay` calls it once.
* `pre_consume_quota.go:131-132` says users whose pre-authorisation was skipped
  are "still charged via settle": they are charged by the legacy debit.
* A wallet debit whose gRPC reply is lost is repeated over HTTP without an idempotency key
  (`identity_grpc_client.go:200`): the wallet is debited twice (`WalletChargedOnce` speaks only of
  requests without a fault here).
* A pre-authorisation whose gRPC reply is lost is repeated over HTTP and may
  create a second hold, which nobody releases.
* `circuitbreaker.go:92`: "Only one probe in flight". The late failure of a call admitted
  before the trip reopens a half-open breaker, and a second probe starts next to the
  first (`OneProbeUnlessStale`).
* `relay.go:256` leaves the loop after `Allow` without recording a result when the body
  cannot be read, as a panic does: the breaker stays half-open and refuses the channel until the
  process restarts (`HalfOpenHasProbe`, `Recovers`: `lost`).
* Every error of a billing call counts as a failure of the billing breaker,
  an insufficient balance and a cancelled context included.
* `billing_outbox.go:87` says the SELECT "prevents two pods from processing the same entry
  simultaneously". It runs outside a transaction, so its locks end with it, and two pods
  execute the same row; the platform's refusal of a second settlement is what saves it.
* `domain/entity/billing_outbox.go:5-6` says rows are retried until confirmed;
  they are given up after `outboxMaxRetries`, and the back-off of the first
  five retries (310 s) exceeds the lifetime of a hold (300 s).
* `task_video.go:270`: refund only if the earlier status was not failure, "to prevent
  repeated refunds". A client's fetch of a Gemini or Vertex video saves a whole row read
  earlier; it can reopen a task the poller has failed and refunded, which is then refunded again
  (`RefundedOnce` excludes `Watched`). When it stores the failure first, the task is never refunded.
* When the update of one Suno row fails, `err` is still set for the next row of
  the same channel, and its refund is skipped for good (`task.go:223`; `FinishedMeansSettled`).
* A refund of a task returns the user's quota only, while the charge also took the token's and
  the wallet's.

*Quotas and credits*

* Every change of a user's settings writes back all non-zero columns it read, the quota
  included (`user.go:304-313`): charges made in between are lost (`Edit` of Counter).
* A hash that expires between the TTL read and the write of `RedisHIncrBy` comes back with one
  field; a late refill revives the copy of a deleted token until its TTL (`EventuallyFresh`).
* `internal_api.go:356`: "Idempotent when order_id is provided — duplicate requests return
  200 without double-charging". Two calls that overlap both find no log line and both credit
  (`CreditedOnce`: `overlapped`). The tag is searched with LIKE and ends with the id: order
  "1" counts as processed once order "12" is (`AnsweredMeansCredited`: `TaggedLike`).
* `TopUpV2` tells the client that the wallet was refunded also when the rollback failed, and does not look
  at `debitResult.Success` (`TransferBalanced`).
* `Redeem` asks for a row lock with `gorm:query_option`, which this version of the ORM ignores: two
  overlapping redemptions both succeed (`CreditedOnce`).
* Errors of the counting queries are ignored: a failed query lets a repeated call credit again.

*Daily quota*

* `CheckAndHandleDailyQuotaExhaustion` is never called: a user without a fallback group has no
  daily limit. `PostConsumeDailyQuota` gets only what exceeds the pre-deduction
  (`quota.go:525`), so `daily_used` is too small. No code sets `base_group` or `fallback_group`, and an
  empty base group means the user is never moved back.
* A fault between reset and restore, or a request that read its usage before the reset, leaves
  the user in the fallback group for the whole day (`DemotedOnlyByRace`: `excused`).
* The handlers of a user's own settings write the whole row back (`user.go:304-313`). When the reset
  comes between their read and their write, the row again has the group, the counter and the reset time
  of before: the user is demoted with quota left, or the next round resets the day a second time; a
  counter written back also returns quota consumed in between (`DemotedOnlyByRace`: `excused`,
  `ResetOncePerDay`: `setBack`).

*Channels*

* On the first attempt the channel has no key information: a rate limit there never cools a
  key. `Distribute` ignores the error of `SetupContextForSelectedChannel`
  (`distributor.go:127`): with no usable key the request goes upstream with an empty one, and the
  401 disables the first key of the pool (`BlameOnlyFailed`: `orphan`).
* `disable_key` and `delete_key` leave the cooldowns where they are: the reaper enables a key that was
  disabled by hand, or clears the status of the key that moved there (`ManualSticks`: only positions
  without a pending cooldown count as `barred`).
* The 429 of a request in flight overrules the administrator: `applyMultiKeyCooldown`
  (`channel_pool.go:94-97`) makes the key, just disabled by hand, an automatically disabled one with a deadline,
  and the reaper enables it (`ManualSticks` excepts it: `SaveRow` takes the key out of `barred`).
* `key_mode` replace and append put a new list of keys under the old statuses: a key that never failed is
  disabled because of its position, and a disabled one that moved up is enabled (`BlameOnlyFailed`: `orphan`).
* After `delete_disabled_keys` has deleted the last key the list is empty and is not written: the keys
  stay, all of them enabled (`Counted`).
* A successful test of a key that has been deleted since enables the first key of the pool, also one
  that was disabled by hand: the search loop leaves the position at 0 (`ManualSticks`).
* `SaveWithoutKey` and `Update` write whole rows from old reads (`lost`).
* Enabling a key of a multi-key channel never sets the channel itself to enabled; only the reaper does.
* `channel_select.go:54-82` describes leaving a group when its priorities are used up; the code
  stays for `RetryTimes + 1` attempts, on the lowest priority (`RoundsBounded`).
* `smart_routing.go:11-13` says no channel is fully excluded; with only zero weights the first
  scored channel gets weight 1 and the unscored ones get no share at all (`EveryDrawFair`).
* Disabling the failed channel shortens the list of priorities, so the next retry skips one
  (`NoPrioritySkipped`: `changed`); so does a refusal by the first channel's breaker, which repeats it.
* A playground request without a group is retried in the user's group and billed for the
  token's (`BilledForItsGroup`); errors of a channel are retried even when the client asked for it.

*Streams to Claude clients*

* Of a stream of two chunks the last is converted as if it were the first: `message_start` is sent
  twice, and so is a block the first chunk had opened; a stream of one chunk has none
  (`CompleteMessage`). The same holds of any stream that is aborted after two chunks or one (`BlocksInTurn`:
  `HeadedOnce`).
* Tool calls after text reuse the index of the text block; thinking after text opens a second block at
  the same index (`Orderly`). A usage chunk of its own loses `message_delta` with the stop reason; a
  stream that is cut never gets `message_stop`.
* The ping goroutine can take the only stop signal: the handler then waits for the streaming
  timeout (`CleanHandover`: `stolen`). Writers are neither waited for nor recovered.
* `stream_scanner.go:54` has a "Mutex to protect concurrent writes", but the final response is written without it.
  A writer that a timeout or a departing client leaves in mid-write has not yet replaced `lastStreamData`:
  the final response converts and sends the same chunk again, and the rest of the writer's events may
  follow `message_stop` (`EveryPieceOnce`, `MessageWellFormed`: `behind`).
* A chunk with reasoning and content loses its content.

*Rate limits (by reading; no run)*

* In Redis the success limit is checked before a request and recorded after it, so requests
  in flight do not count; the in-memory limiter records when it checks, so that failures
  count against the limit for successes, although its comment says it does not. A limit of 0
  successes means none in Redis and one per window in memory. The bucket lets through up to
  twice its capacity per window.

## 6. Not modelled, and the plan

Not modelled and why is said per component in `PROJECT.json`. By lines, most of the
repository is request and response conversion for some forty providers, data types,
CRUD handlers and settings: code without state between two requests, in which a model
has nothing to interleave. The modules cover what keeps state and decides about money,
routing and availability; the share of the lines they stand for (some 6 %) follows from that, and
mapping the rest would mean definitions that model nothing.

What is still worth modelling:

1. Rate limits: the sliding window in Redis, the token bucket script and the in-memory
   limiter against one specification "no more than n in a window"; the notification limit.
2. Realtime billing: the increments of a websocket session on top of RelayBilling's
   post-consumption.
3. Midjourney tasks in TaskPolling (refund after the update), and the limit of a round.
4. Abilities: the selection without a memory cache, and their late updates after a recovery.
5. `Hold`: the abstract life of a hold (held, then settled, released or expired, once),
   refined by RelayBilling and BillingOutbox.

What is worth proving next:

1. Invariants that say more about the modules as they are: the converter with several tool calls in one
   chunk, `NoPrioritySkipped` without `DistinctGroups` (for the
   first visit of a group).
2. `Hold` and its refinement, once the module exists.
3. The safety half of the liveness properties: which states a stuck request, row or task could
   be in if its goroutine stopped.
