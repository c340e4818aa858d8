# Verification of the Savi Nenapu backend

TLA+ models of this repository's credit ledger, order pipeline, photo tools,
payments, provider calls and login, checked with TLC, and proofs checked with
TLAPS. Paths below are
relative to `src/`.

## The system

A FastAPI process serves customers; an arq worker process runs generation jobs;
PostgreSQL holds users, orders, jobs, payments and the credit ledger; Redis holds
the arq queue, OTP codes and tool results. Money is integer paise in an
append-only ledger.

| Component | State | Operations | Talks to | Hard part | Correct when |
|---|---|---|---|---|---|
| Credit ledger (`app/services/credits.py`, `app/repositories/ledger.py`) | rows of `credit_ledger`, advisory locks | `credit`, `debit`, `get_balance`; `scripts/add_credits.py` | every other component, inside the caller's transaction | concurrent transactions, unique-key races, rollback inside a composed transaction | a key counts once, balances never go negative, a reported success is durable |
| Order placement (`app/services/order.py`) | `orders` | `create_order`, reads | ledger (same transaction), queue (after commit) | concurrent replays, enqueue that fails after the charge | order and debit exist together; every charged order is worked on |
| Generation worker (`app/workers/jobs.py`, `pipeline.py`) | `orders`, `generation_jobs`, bucket | `generate_content` | moderation, prompt, provider, storage, ledger, commission | crashes, timeouts and redelivery between commits, two runs of one order | one end per order; its money moves with it |
| Worker start (`app/workers/main.py`) | what a dead worker left | `_reconcile_stuck_orders` | queue | duplicates of redelivered messages, a death in the middle | stuck orders run again, finished ones never |
| Agent commission (`app/services/agent.py`) | ledger rows | `pay_commission`, `get_earnings` | ledger | paid in the transaction of delivery | paid iff delivered, once |
| Payments (`app/services/payment.py`, `app/api/payments.py`) | Photo tools (`app/api/tools.py`, `run_tool`) | Redis job records, history | charge, enqueue, run, refund, poll | ledger, arq | charge, enqueue and refund are three systems | a charge buys one result or comes back |
| Authentication (`app/api/auth.py`, `app/services/auth.py`) | Redis codes and counters, `users` | OTP, register, reset | Redis, ledger (bonus) | non-atomic Redis steps, TTLs | codes and tokens are used once, attempts are bounded |
| Retry and timeouts (`app/core/retry.py`, `WorkerSettings.job_timeout`) | none | `retrying_anthropic`, `with_timeout` | adapters | which errors are retried; nested limits; calls without a limit | one paid generation per run, limits that fit into each other |
| Adapters (`app/adapters/`) | none | HTTP calls | providers | answers that are late, garbled or missing | moderation fails closed |
| Inspire, templates, uploads, admin, scripts | catalogue | reads, CRUD | - | - | data, not protocol |

`PROJECT.json` lists the components with their files, and under `hazards` what in
this code a test would hardly reach.

## Modules

**Wallet** is what the ledger promises: a set of rows and a balance per user, and
one kind of step, `Post`. `PostOnce` is `credit()`/`debit()` as a caller sees it.

**CreditLedger** is how the code keeps that promise. Each database session is a
process with a program counter through `_mutate`: advisory lock, key lookup,
balance guard (debits), insert, and the caller's commit; the unique-constraint
path rolls back and reads again. `pending` is the uncommitted row, `lock` the
advisory lock, `rider` the write the caller composes with the mutation (before or
after it, as the callers do), and the script that bypasses the lock is an action of its
own, for an amount of any sign. A statement sees what is committed when it runs. There is no
variable for a balance: `Balance` is the SUM over the committed rows, as in `get_balance`.
Because the script takes money unchecked, `NoNegativeBalance` speaks of `EarnedBalance`, the
sum without the rows by which it did (`TakenByScript`), and the refinement maps the rows of
`Wallet` to the same ones. For a script that only gives, both are the whole ledger.

**OrderLedger** names the ledger mutations of an order (`Charge`, `Refund`,
`PayCommission`, `Purchase`) with their idempotency keys, as atomic `Wallet` steps. The
order pipeline may take them as atomic because CreditLedger implements Wallet. `LedgerSpec`
takes these steps in any order and any number: the ledger of an application that may ask
for a refund or a commission as often as it likes.

**OrderLife** is what a customer is promised about an order: accepted with its
charge, ended once as done, rejected or failed, with commission, refund or nothing in the
same step. `MoneyFollowsOutcome` is what follows for the ledger in each of its states.

**OrderPipeline** is `create_order`, `generate_content` and
`_reconcile_stuck_orders` together. One action is one database commit or one
external call:

| Code | Actions |
|---|---|
| `OrderService.create_order` | `LookUpOrder`, `PlaceOrder`, `RefuseOrder`, `EnqueueOrder`, `EnqueueFails` |
| `generate_content` up to the try | `Pickup`, `CreateJob` |
| `run_moderation` | `BeginModeration`, `Allow`, `Block` |
| prompt, `run_generate` | `BeginGenerating`, `RecordOutput` |
| `run_upload`, `pay_commission`, commit | `Upload`, `Finish` |
| error handler; timeouts and errors it misses | `Fail`; `Abandon` |
| worker process, `_reconcile_stuck_orders` | `WorkerCrash`, `WorkerStart`, `ReEnqueue`, `WorkerReady` |

`PlaceOrder` is one step because `create_order` holds the user's lock from the
balance check to the commit. `rowLock` is there because `run_moderation` leaves its
UPDATE of the job row uncommitted while the prompt is built. `Fail` is possible
only where the session has no open transaction: elsewhere `session.rollback()`
expires the job object, and reading `job.id` in the handler raises
`MissingGreenlet`, so the run ends unmarked, as in `Abandon`. Statuses are
written unconditionally, as the repositories do.

**Payments** is the road from the gateway's events to a credit. A session reads the
payments row once (`seen`), decides on that copy, flushes the columns that differ
from it under the row lock, credits under the advisory lock, and commits both.
`Webhook` and `Verify` begin a session; `Update`, `Lock`, `Commit` are its steps, the
webhook updating before it locks and `verify_payment` after; `Fails` is the
exception the endpoint swallows with a 200, `Dies` a death without an answer,
`DeadlockVictim` the session PostgreSQL aborts when the two wait for each other. `Packs` is the
table of packs on offer; the code that credits does not look at it. A payment
appears in OrderPipeline as the single step `TopUp`.

**ToolCatalog** is the endpoints of `app/api/tools.py` as data: per tool its cost,
the inputs it needs, those that make up the idempotency key of the charge and those
that reach the worker. An assumption that TLC evaluates compares the costs with
the prices the catalogue shows.

**ToolJobs** is a tool job from `POST` to result. Four stores are written one after
the other: ledger, arq queue (and history), bucket, status record.

| Code | Actions |
|---|---|
| `_charge` | `Charge` |
| `_enqueue` | `Enqueue`, `EnqueueFails` |
| `run_tool` before the try | `Start`, `StartFails` |
| `_dispatch_tool`, watermark, upload, status `done` | `CallReturns`, `CallRaises`, `Upload`, `Publish`, `PublishFails` |
| the handler: refund, log, status `failed`, re-raise | `Refund`, `RefundFails`, `Report`, `ReportFails` |
| `job_timeout`, end of a job, worker death | `Cancel`, `NoteEnd`, `WorkerDies` |
| `tool_status`, `list_tool_jobs` | `StatusShown` |

`Charge` takes a request under a known key as charged and goes on, as `debit()`
does; `Enqueue` draws a fresh job id for it all the same. arq calls
`on_job_start` with a context of its own per job, so `ctx["session"]` belongs to the job.

**Providers** lists the external calls of every branch of `_dispatch_tool` and of
the generation of an order under every `GEN_PROVIDER`, each with its
`with_timeout` budget, its attempts and the steps of one attempt, and
`NormalizeDuration`, the function `_normalize_duration`, with an assumption that
compares it with what the video models accept. **ProviderCalls** runs one such job in
time: `Submit`, `Moderate` and `Answer` are answers, `TransientError`, `Retry` and
`TerminalError` the classification of `retrying_anthropic`, `HardTimeout` is
`with_timeout`, `JobTimesOut` arq's `job_timeout`, `Tick` half a minute.

**Login** is one customer's account:

| Code | Actions |
|---|---|
| `AuthService.request_otp`; TTLs | `RequestOtp`; `CodeExpires`, `AttemptsExpire` |
| `AuthService.verify_otp` | `CountAttempt`, `ExpireAttempts`, `CompareCode`, `DeleteKeys`, `LookUpUser`, `CreateUser` |
| `_grant_signup_bonus` | `GrantBonus` |
| `register` | `Register`, `InsertUser` |
| `forgot_password`; TTL | `ForgotPassword`; `LinkExpires` |
| `reset_password` | `ResetPassword`, `SetPassword`, `ForgetLink` |
| a request that dies or fails half way | `CutOff` |

Each action is one Redis command or pipeline, or one transaction. `compared`,
`carried`, `uses`, `contested` and `cut` record what the properties speak of; the code has
no such variables. `cut` keeps each request that was cut off before a step nobody else makes up for (the EXPIRE of
the counter, the bonus, the DEL of a link), with that step and its code or link, so that a
property can except just that one.

arq, Redis and the platform are external, modelled from how `app/` uses them: a
message stays until its job ended, a raised or timed-out job has ended, and a
dead worker's messages are delivered again.

## Runs

| Run | Configuration | Shows |
|---|---|---|
| `ledger` | 2 users, 2 keys, a script key, amounts -1, 0 and 1, 2 sessions; 103,501 states up to symmetry | type, non-negativity but for the script, key uniqueness, durable success, the caller's own write, the balance under the lock, refinement of Wallet |
| `ledger_liveness` | one key both users can call with, 2 sessions | every call returns |
| `pipeline` | 2 orders of 2 customers, 2 concurrent requests, 4 messages, 1 worker death; 107,732 states up to symmetry | order iff debit, no unpaid work, one job row, balances are what orders cost and earned, refund with rejection, commission with delivery (and nowhere else until a worker dies), orders at rest stay at rest, refinement of OrderLife until a worker dies |
| `pipeline_liveness` | 1 order, 2 requests, 3 messages, 2 deaths | every message ends; stuck orders run again |
| `queued_order_lost` | 1 order, 3 messages, 2 deaths | **violated**: no cron picks up queued orders |
| `double_processing` | the same | **violated**: an order is both refunded and delivered |
| `payments` | 1 top-up, 1 attempt (which may fail and be captured later), 2 sessions, 1 error or death; 25,946 states | the balance counts every captured payment once at the amount paid, paid rows have their credit, an answered capture is credited, only a stale copy overwrites paid; every capture is credited or answered |
| `paid_overwritten` | 2 attempts | **violated**: a failure event read too early overwrites a paid row |
| `pack_bonus_missing` | 2 attempts, the pack at 9900 paise | **violated**: the pack's bonus is not credited |
| `tools` | 3 requests of one user (two under one charge key), 2 jobs, 1 worker death, 1 failed write; 276,038 states | charge and job go together, a failed job is refunded or logged, what is refunded was charged, a finished job is delivered and not refunded, every end is reported |
| `calls` | all 60-odd kinds of work; transfers without a limit may take 60 s; 98,091 states | the gate fails closed, one generation per run, the limits fit, every job ends |
| `auth` | 2 requests at a time, 2 codes, 1 link, 4 calls, limit 2, 1 request cut off; 927,240 states | guesses per code; reuse only by overlap, or of a link whose own DEL was cut off; bonus with the account unless cut off just before it; a lockout ends unless the EXPIRE of its counter was cut off |

Bounds. Two sessions are enough for every race of the ledger, which is between a
holder and a waiter of one lock or one index entry; the service refuses amounts 0 and -1, which
the script takes, and amount 1 makes one credit cover one debit and not two. In the pipeline the price is 2, a
purchase 2 and the commission 1, so a customer affords one order and the agent's
commission alone buys none. Without a death an order has one message and every
death adds at most one, so `Messages` is `|Orders| * (1 + MaxCrashes)` or more and an
enqueue never waits for a slot. Orders share nothing but wallets, so that the deeper
crash histories are explored with one order. Symmetry (of sessions, users and keys in the ledger, of requests and messages
in the pipeline) is used where a run checks safety: invariants, action properties, and the
refinements of Wallet and OrderLife, which are safety too and name no single one of the
symmetric values; it is not used with liveness. Each user tops up once in the
pipeline. In Payments one top-up is enough because sessions of different rows share only
the advisory lock, always taken with at most one row; two sessions make the races and the
deadlock, and one attempt that fails and is captured later makes every order of events on a
row. What a second attempt adds, a failure and a capture under different payment ids, is in
the two violation runs, and the safety properties are proved for any number. In the tools two jobs are a job and its resubmission; two failed writes in one run are not
explored by the run, and `DoneIsDelivered` excepts them by name; the proof covers any number. Costs and amounts are scaled to one,
but for the pack in Payments.
In `calls` a tick is 30 s, the greatest common divisor of all limits, so that no limit is rounded;
`TransferTicks` says what a photo or an upload may take at most for
`OnlyTransfersOverrun` to be about the limits the code sets, and five fetches and an upload of 60 s
still fit. For login two requests make every race (all are between two
holders of one secret or of one row), two codes let one replace the other, and four calls
pass the limit of two, which stands for five. `CHECK_DEADLOCK` is off for the
pipeline, the tools, the calls and login, which stop when all work is done or all bounds are used; it
is on for the ledger.

Fairness. Ledger: a statement that can run runs, and PostgreSQL serves waiters of a lock
and of an index entry in order, hence strong fairness for these two. Pipeline:
an accepted request and a started job take their next step, because the event loop
runs what is ready and external calls carry timeouts, and a dead worker is
restarted (`railway.toml`, `on_failure`, three retries, hence at most three
deaths). Payments: sessions step, lock waiters are served in turn, a
deadlock is detected, and Razorpay delivers a capture again until it is answered with 200.
Tools: an endpoint that charged goes on to its enqueue, a delivered
job takes its next step because each of its external calls ends or is cancelled by
`job_timeout`, arq delivers jobs and notes their ends. Calls: only time passes and timers
fire; no provider ever has to answer. Login: Redis expires its keys and a request takes its
next step. Purchases, requests, errors, timeouts and deaths are never obliged.

What the violated properties say is quoted in `findings`, with the line that says it:

- the docstring of `OrderService` promises a cron that does not exist (`QueuedOrderIsPickedUp`);
- `_reconcile_stuck_orders` promises that deduplication prevents double-processing, and
  enqueues without a job id (`RefundedNotDelivered`); `OrderLife` states the positive side: as
  long as no worker died, every order ends once and its money moves with it;
- `_handle_failed` promises to ignore a failure after a capture and looks at a stale copy
  (`PaidIsFinal`; `PaidLostOnlyToStaleCopy` says that this is the only way);
- `api/payments.py:19` shows packs as "amount user pays vs credits they receive": 9900 for 11000,
  19900 for 23000. Webhook and verification credit the amount paid (`PackCreditsReceived`).
  `BalanceIsCaptured` is about that amount: it says that each payment counts once, not that it
  counts for enough.

Other places where a comment says more than the code does, without a run of their own:

- `models/ledger.py:15` speaks of refunds "after rejection / failure"; an order that
  fails is not refunded (`GiveUp` of OrderLife leaves the wallet alone). Tool jobs are.
- `api/payments.py:99` counts on the raw body being "already stored in the DB ... for manual
  replay" when the handling of an event failed. It was only flushed: `get_db` closes the session
  without a commit, which undoes it, and the 200 ends the retries. `AnsweredIsCredited` says
  what holds as long as no such error happens.
- `workers/jobs.py:373` refunds because "the job failed before producing any output" and calls it
  "safe even if the job is retried": a refunded job whose worker dies before arq noted its end
  runs again, may succeed, and keeps the refund. `DoneIsDelivered` excepts the case
  (`crashes > 0`).
- `repositories/ledger.py:20` calls a balance "always >= 0 by invariant", and
  `models/ledger.py:27` says that all spends are checked first. `scripts/add_credits.py:65` takes
  any integer as `--amount` and inserts it without lock or check, so a negative one may take a
  balance below zero. `NoNegativeBalance` says what the service guarantees all the same: it never
  adds to that.
- The tool refund (`workers/jobs.py:374`) is idempotent per job id; but a resubmission under the
  same charge key is not charged, gets a job id of its own, and is refunded on its own.
  `MCToolJobs` contains the case, and `RefundReturnsCharge` says what remains true: nothing comes
  back that was not charged under the key, in that amount and to that user.
- The docstring of `run_tool` gives the record a TTL of 24 h, `_TOOL_JOB_TTL` 90 days.
- `services/auth.py:156` says that code and attempts counter expire together, so that a lockout is
  lifted by itself. The counter's TTL starts with the first attempt, and a request that is cut off
  between INCR and EXPIRE leaves it without one; a new code clears it. `LockoutEnds` excepts
  just that.
- `services/auth.py:182` deletes a code "so the code cannot be reused" and `api/auth.py:286` a
  reset token "so it can only be used once"; two requests that hold it at the same time both use
  it. `ReusedOnlyByOverlap` says that nothing else does, but for a link whose own DEL was cut
  off, which stays usable until its TTL ends.
- `services/payment.py:56` stores the raw body "regardless of current state"; a failure or a
  capture that finds the row paid returns, or goes on, without storing it.
- `core/retry.py:4` says its utilities are used by all external-API adapters.
  `retrying` is used by none, and the fal adapters ignore `max_retries`:
  `GeneratedOnce` is what this buys.
- `adapters/moderation.py:76` takes `bool(...)` of the model's `allowed`: any
  non-empty string counts as allowed, `"false"` included. Both the code's reading and
  `GateIsClosed` treat such an answer as a yes.

## Proofs

`CreditLedger_proofs` proves, for any users, keys, amounts and sessions: the type
invariant, `NoNegativeBalance`, `KeysUnique`, `SuccessIsDurable` together with
`RereadFindsRow` (the assert of the conflict path), `RiderLostOnlyToForeignKey`, the action property
`BalanceKeptUnderLock` and that `Spec` implements `Wallet`'s specification. The assumptions are those of
`CreditLedger`: amounts are integers of any sign, the script's keys are fresh, the sentinels
are no sessions or rows.

None of these is inductive by itself. `IInv` adds: a session between the lock and
its commit holds its user's lock, and only one does (so a balance that was checked is
still there at the insert: only the holder lowers it, the script aside); a pending row is the row
of the session's call, and at most one session has a key in flight; no key in
flight is committed (the index made the insert wait); a session past a found key has
a committed row under it, which stays because rows are never deleted; a caller's
earlier write is lost only by the conflict path, whose winner cannot be of the
same user because the lock would have shown its row. `IInv` was checked by TLC
first; `Inductive` proves it action by action, one lemma each. As a balance is a sum over rows, every
step that adds one needs to know what it does to the sum (`OneMoreRow`, from `SumAddsRow` of
`Wallet_proofs`). The script is why `IInv` also says that the balance the code reads is never above
`EarnedBalance` (`EarnedIsMore`): a debit that the guard let pass is covered by what was earned
(`StillCovered`), whatever the script takes between the check and the insert.

`ToolJobs_proofs` proves, for any requests, keys, costs, clients, jobs and bounds on deaths
and failed writes: the type invariant, `ChargeBuysJob`, `FailureIsSettled`,
`DoneIsDelivered` and `RefundReturnsCharge`. The assumptions are those of `ToolJobs`: there is a request, the keys of
the instance cover every charge, refund and purchase, the amounts are among the ledger's.
Its `IInv` adds what is true between two writes: a handler past its charge has it
(`ClientCharged`); a job about to publish has stored its output (`PublishedIsStored`);
and as long as no worker died, a refund and a status `done` each tell where the job's only
run may be (`RefundEndsRun`, `DoneEndsRun`). The exceptions of
`DoneIsDelivered` are what these two have in common. Two lemmas carry the rest: a
posting takes its own key and no other, and the keys of charges and refunds differ.
`RefundReturnsCharge` needs more: what the rows under charge and refund keys hold
(`ChargeRowsFit`, `RefundRowsFit`). It rests on `KeyNamesUser` and `KeyNamesCost`: requests
under one charge key are of one user and one tool (and tier), whose price is a constant.
`IInv` was checked by TLC with two failed writes before it was proved.

`OrderPipeline_proofs` proves, for any orders, customers, agents, prices, requests,
messages and number of worker deaths: the type invariant, `NoUnpaidWork`,
`OneJobRow`, `BalanceIsOrders`, `MoneyFollowsStatus`, the action property `RestIsFinal`, and
`ImplementsOrderLife`. The argument is about *tickets*: what may still cause work
for an order, namely a request before its enqueue, a message, an entry of the
reconciliation. `OneTicket` says that an order without a job row has at most one of them: the
reconciliation only adds to orders that a run has begun, and `NoRowNoProgress` says that
those have a row. So a run that finds no row is alone with its order, and two rows never
come to be (`OneJobRow`), although runs of one order do overlap after a death. Before the
first death every order has at most one ticket and whatever has one is still open
(`OpenBeforeDeath`); hence no run touches an order that ended, which is the refinement:
each action maps to the step of `OrderLife` of its name or to a stutter. From it follow
`OutcomesAreSettled`, the second half of `MoneyFollowsStatus` (a debit iff the order exists, a
refund iff it is rejected, a commission iff it is done), and `OneEndBeforeDeath`: the double end that `double_processing`
shows takes a worker's death. What holds after any number of deaths as well is
`BalanceIsOrders`, because every run posts under keys derived from the order.

`OrderLedger_proofs` is where that comes from. `OrdersBalance` proves, of `LedgerSpec` and
therefore of whatever asks for charges, refunds and commissions in whatever order and
number, that a balance is what was bought less the charges plus the refunds and
commissions, each order's once; the pipeline proves `UsesLedger`, that it is one of these.
The invariant counts orders: a posting that takes its key adds its order to one of the
three sets of one user (`CountsOneMore`) and moves that user's balance by its amount;
one whose key is taken adds nothing (`NothingPosted`). `LedgerUsesWallet` carries over what is
proved of `Wallet`. `MoneyFollowsOrder` proves `MoneyFollowsOutcome` of the
abstract `OrderLife`, for any outcome variable it is instantiated with; its two lemmas,
`NoTurnMatches` and `TurnMatches`, are what the pipeline's `OutcomesAreSettled` rests on too.

`Payments_proofs` proves, for any payments, attempts, sessions and faults: the type
invariant, `PaidIsCredited`, `AnsweredIsCredited`, `BalanceIsCaptured`, the action property
`PaidLostOnlyToStaleCopy`, and two facts no run states. `PaymentsAreCreditedOnce`: at most one
attempt of a payment is credited, and only one that was captured; so the rows of a user and
the user's credited payments are in one-to-one correspondence, equal amounts together, and
the sum that a balance is by `WalletBalanced` is the sum over payments that
`BalanceIsCaptured` names. `DeadlocksArePairs`: a cycle of waiting sessions of
any length contains two that wait for each other, so that `DeadlockVictim`, which only
sees pairs, is no restriction. `IInv` describes the locks (`LocksFit`): the
webhook that has a row lock is waiting for the advisory lock or about to commit, a
verification takes them the other way round. Two sessions that wait for each other are
therefore a webhook and a verification of one payment; as the gateway captures a payment
once, both credit the same attempt (`CycleSharesAttempt`), and the victim's credit is the
survivor's. This is why an answered capture is not lost although the answer to the victim is a 200.

`Login_proofs` proves, for any number of requests, codes, links, calls and faults: the type
invariant, `GuessesBounded`, `ReusedOnlyByOverlap` and `AccountHasBonus`. Guesses:
verifications that are counted and have not read the code yet (`Load`) are added to the
comparisons a code has seen; the sum stays below the attempts counted since the code was
issued plus those carried over. Reuse: as long as no two requests held a secret at the same
time, it is either with one request or used, never both; a link is used and still there only if
its own removal was cut off.

`ProviderCalls_proofs` proves, for every tool, provider and number of photos of
`Providers` and for any length of a transfer: the type invariant, `GateIsClosed` and
`GeneratedOnce`; and `OnlyTransfersOverrun` for a `TransferTicks` of at most 2, the value
of the run. That hypothesis is as weak as can be: with 3 (90 s) TLC refutes the property by an
order with five photos. The first half of the module (`EveryWorkFits`) shows that the calls of
every job are laid out in one way: Claude's two for an order, the photos, one generation,
the upload; from which follow that one step submits, in a call of one attempt, that only
the first call of an order asks the moderation model, and that there is a schedule of
the calls that ends before `job_timeout`. The second half keeps the run to that layout:
the clock is never later than the schedule unless a transfer overran.

`Wallet_proofs` has what these proofs share: a posting takes its own key and no other.
`WalletIsSound` proves of the atomic wallet that no balance goes below zero and no key has
two rows, `WalletBalanced` that every balance is the sum of the user's rows. That sum is a fold over a
set (`MapThenSumSet`), which the library defines by choosing an element and recurring on the rest. Its
two laws, that the order does not matter and that a new row adds its amount, would be
inductions on the size of the set; they are proved without: if a law failed for some
finite set, it would fail for a minimal one (which exists by well-foundedness), and there
the definition itself refutes the failure. Each component that moves money proves `UsesWallet`: its steps are single
postings or leave the wallet alone, also with deaths, errors and duplicates. `Implementation` of
`CreditLedger_proofs` is the other side: the transactions of the code implement that
wallet. This is what makes it right to take ledger operations as atomic in the other modules.

The assumptions are those the modules name. Two of them are there for the proofs:
`OrdersAssumption` (there is an order, so that an idle record has one to name) and
`SessionsAssumption` (finitely many requests at a time, so that they can be counted).
Each `IInv` was checked by TLC on the component's run before it was proved, that of `Payments`
(which implies its safety properties) also with two attempts, that of
`ProviderCalls` with the earliest schedule in place of "there is a schedule".

Every invariant and action property of the passing runs is a theorem. Only model-checked: the
liveness properties, as fairness is out of the prover's reach; the
comparisons of `ToolCatalog` and `Providers` with tables (prices, durations), which TLC evaluates.
The four properties the runs refute are of course not proved.

## Not modelled

`bypass_payments`, `bypass_moderation` and `bypass_otp`, which production
configuration refuses; the content of prompts, images and messages, and the watermark;
read-only endpoints; an old worker that still runs when a new one starts; the agent row missing for an
order with an agent. PostgreSQL is taken to notice a dead client at once. Status records
and history entries of tool jobs are taken to outlive the jobs; two codes or two tokens
are taken never to be equal. `retrying`, `face_swap`, `PhotoRestoreAdapter` and
`BgRemoveAdapter` are called from nowhere. The inspire gallery, templates, uploads,
health, admin, configuration, migrations and seed scripts are reads, single writes or one-off
scripts: there is no protocol in them to get wrong.

## Plan

1. A theorem about all components on one wallet: what a balance is after orders, tool jobs
   and payments together. `OrdersBalance` and `BalanceIsTheCaptured` are its parts; what is missing
   is a module in which their keys meet.
2. OrderPipeline with two overlapping workers of a rolling deployment.
