# Formal verification of puregamma-ai: orders, credits, runs and messages

This directory holds TLA+ models of the parts of puregamma-ai where a mistake
costs money or does something twice: the LIVE trading control plane, which
turns an order a user has confirmed into an order on a real exchange; the
credit account, from which billable work is paid; the prepaid wallet of the
model gateway; the harness that executes research runs; the agent that answers
inbound iMessages; and the execution runtime that keeps a journal of its
orders.  The models are checked with TLC on small instances.  The safety
properties are proved with TLAPS for every number of orders, requests, workers
and messages; the liveness properties are checked with TLC only.

`PROJECT.json` is the machine-readable companion: the components, the runs, the
mutants, the source lines behind every definition, the findings, the hazards
and the theorems.

## 1. The system

puregamma-ai is a Python monorepo: a FastAPI application (`apps/api`), Celery
workers and a scheduler (`packages/workers`), domain packages (`packages/*`), a
separate execution service (`services/nautilus-runtime`), and a Next.js front
end.  State is in PostgreSQL (SQLite in tests), with Redis for locks and
queues.  Concurrency is that of a web service: any number of API requests and
of Celery workers run at once, each in a database session of its own, and what
they share is rows.

### 1.1 The components of LIVE trading

**Order control plane** (`packages/live_trading/control_plane.py`).
State: `LiveOrderIntent` (a preview that waits for a human confirmation),
`LiveOrder`, `RiskCheck`, `Fill`, `TradingMandate`, `BrokerConnection`.
Operations: `preview_order`, `confirm_order`, `cancel_order`,
`sync_order_status`, `pause_mandate`, `resume_mandate`, `bind_connection`,
`test_connection`, `revoke_connection`.  `confirm_order` is the heart: it
checks the intent, locks the mandate row (`FOR UPDATE`), evaluates the gate and
the risk engine, commits a PENDING order, which drops the lock, and only then
calls the exchange.
Hard: two confirmations of one intent; a crash or a timeout between the commit
and the answer; answers that arrive after the row has changed; the lock that is
not held during the call.
Correct when: an intent becomes at most one order on the exchange, nothing is
sent that is not journaled, an UNKNOWN order is resolved by asking and never by
sending again, and the rows end up saying what the exchange did.

**Admission gate** (`flags.py`, `kill_switch.py`, `apps/api/routers/admin.py`).
State: environment flags, `LiveUserApproval`, `TradingKillSwitch` rows of four
scopes, and the mandate and connection columns.  Operations: approve, engage,
release, and the two readers `evaluate_full_gate` and `mandate_trade_allowed`.
Hard: one fact is stored in several rows by different writers (a mandate kill
switch is a row and two columns; a pause has one reason column and four
writers).
Correct when: each event that must stop trading keeps it stopped, whatever else
happened around it, and nothing that is meant to relax one thing relaxes
another.

**Binance spot gateway** (`binance_spot_gateway.py`).
No state of its own; `submit_order`, `query_order`, `cancel_order`, and the
classification of errors: a rejection (`GatewayUnavailable`, or an ack in state
rejected) against an unknown outcome (`GatewayOrderUnknown`).
Correct when: "rejected" and "canceled" are said only of orders that are not
live and will not be.

**Daily reconciliation** (`reconciliation.py`, task `daily_live_reconciliation`
in `packages/workers/tasks.py`).  State: `TradingReconciliation`.  Fetches the
balances of each mandate, compares, pauses the mandate on a difference or an
error; one commit after the last mandate.
Correct when: a difference found is a mandate paused.

**Trading ledger** (`ledger.py`): append-only entries with a running balance;
`post_entry` is called once per fill.
Correct when: each execution is booked exactly once.

**Risk engine** (`risk_engine.py`): checks an order against the mandate's
limits (notional, balance, position, daily loss, leverage, order frequency) and
asks `mandate_trade_allowed` last.
Correct when: what it approved still holds when the order is committed.

**NAV and price feed, gateway adapters, secret store, audit**: valuation rows
and staleness; an adapter that refuses (mock) or forwards (Nautilus); envelope
encryption; an append-only log.

How they interact: an API request or a worker calls the control plane, which
calls the gate, the risk engine and the ledger as functions in its own
transaction and the gateway over HTTP between transactions.  Admin endpoints,
health tests and reconciliation never call the order pipeline: they reach it
through the rows of the gate.  The scheduler enqueues the status sync every few
seconds; that is the only thing that repairs an order whose request died.

### 1.2 The components of the credit account

**Credit ledger** (`apps/api/services/credit_service.py`).
State: `User.credit_balance`, the `CreditLedger` entries with their unique
idempotency keys, and `CreditReservationRecord` (RESERVED, then SETTLED,
SETTLED_CAPPED or REFUNDED).  Operations: `reserve_task` takes an estimate from
the balance, `settle_task` moves the difference to what was used, `refund_task`
gives everything back, `recover_stale_reservations` (scheduled every 15
minutes) refunds what was left RESERVED.
Hard: requests with one key; a settlement against the caller's refund, an
admin's refund and the recovery; a process that dies with a hold open; and the
balance itself, a column that every session writes as an absolute value.
Correct when: a reservation is charged what its row says, once; holds do not
stay open; the balance is what the ledger replays to.

**Automation budgets** (`packages/billing/budgets.py`): limits per run, day and
month of an automation, checked inside `reserve_task`, with a pause that is
stored in a transaction of its own after the refusal.
Correct when: no hold passes a limit or a pause.

**Reports** (`apps/api/services/report_service.py`): the caller that is exactly
one per day, serialised by an advisory lock that it loses at each commit.
Correct when: a report is charged once, and a delivered report is paid.

**Subscription billing and the admin console** (`billing_service.py`,
`apps/api/routers/admin.py`): the other writers of the balance, namely the
credits of a period, adjustments, and refunds of single ledger entries.
Correct when: each key moves credits once, and no refund exceeds its debit.

They interact through rows only: the account row, the reservation row (locked
before the account), and the unique keys of the ledger.

### 1.3 The components around agents, messages and the gateway

**Harness runs** (`apps/api/services/harness_run_service.py`,
`packages/harness/state_machine.py`, router `harness_runs.py`).
State: `HarnessResearchRun.status` and `timeout_at`, the run's reservation, the
user's `EvidenceSnapshot` rows, the Celery queue.  Operations: create, queue,
retry, cancel, and `execute_queued_run` with its stages prepare, gather, freeze,
run, validate, conclude and its exception handler.
Hard: `transition_run` updates the row only where it still has the status the
session loaded, and no caller looks at whether it did; a message is delivered
again when its worker is lost; a retry is a new run under a new key.
Correct when: statuses move legally, credits follow the outcome, a goal is
charged once, and no run is abandoned in the middle.

**Photon inbound** (`photon_inbound_service.py`, `imessage_agent.py`).
State: `PhotonInboundTask` (status, attempts, retry time), the
`IMessageInboundEvent` of the shared agent flow, the `AgentRun`, the
`NotificationDelivery` of the reply, the Celery queue.  Operations: receive,
dispatch, claim, run the agent, send the reply, record, retry, reap.
Hard: repeated deliveries, workers that die at any commit, answers of Photon
that are lost.
Correct when: one worker is at a message, the agent is billed once for it, and
a message that was claimed ends.

**Nautilus runtime** (`services/nautilus-runtime/app`) with the order states of
`packages/trading/states`.
State: SQLite tables of commands, order rows by sequence and paper positions;
in memory the simulated venue, the kill switch and the pauses.  Operations:
idempotent commands (submit, cancel, reconcile, refresh, kill switch) in a
thread pool, and `recover` at the start.
Hard: several threads go through the pipeline of one order, each with the row
it has read; a restart loses the venue and the memory.
Correct when: the journal grows legally, what was sent is journaled, and an
order of unknown outcome is never forgotten.

**Gateway wallet** (`gateway_wallet_service.py`, `packages/gateway/service.py`,
`routers/gateway.py`, top-ups in `billing_service.py`).
State: `GatewayWallet`, `GatewayWalletLedger`, `GatewayAccount`'s monthly spend,
`GatewayRequestLog`, `GatewayTopupIntent`, `StripeWebhookEvent`.  Operations: a
metered request (admission, provider, log and debit), top-up, expiry, refund.
Hard: the balance is checked before the provider is asked and debited after it;
Stripe events come in any order and again.
Correct when: the balance follows the ledger, is never negative, what is
answered is charged, and what is paid is credited.

### 1.4 The rest of the repository

| component | state and operations | hard part |
|---|---|---|
| Scheduler and Redis lock (`workers/`) | lease, renewal, release | a lease lost while its holder works |
| Memory (`packages/memory`) | write policy, supersession, deletion | a late write after a deletion |
| Entitlements (the rest of `billing_service.py`) | plan changes | out-of-order webhooks |
| Paper trading, custody, skills, notifications | calls to other services | little shared state |

These are not modelled; section 8 says which come next.

## 2. The modules

    AdmissionGate                  what the pipeline may rely on about the gate
      ^ implements   ^ extends
    MandateGate    LiveOrders  --implements-->  OrderLifecycle
      |              |                          what it promises of an order
    MCMandateGate  MCLiveOrders            TLC instances (symmetry)
    MandateGateProofs
                   LiveOrdersProofs        TLAPS

    Credits        <- MCCredits, CreditsProofs (TLAPS)
    HarnessRuns    <- MCHarnessRuns, HarnessRunsProofs (TLAPS)
    PhotonInbound  <- MCPhotonInbound, PhotonInboundProofs (TLAPS)
    RuntimeOrders  <- MCRuntimeOrders, RuntimeOrdersProofs (TLAPS)
    GatewayWallet  <- MCGatewayWallet, GatewayWalletProofs (TLAPS)
    Sums           lemmas on sums, for CreditsProofs and GatewayWalletProofs

The MC modules and the proof modules each extend the module they stand beside.

The system is split where the code splits it.  The order pipeline reads the
gate as one Boolean, under a lock; the many writers of the gate know nothing of
orders.  `AdmissionGate` is the contract between them: a pause is written only
while nobody holds the mandate's row lock and is never lifted, everything else
that blocks may come and go, and a revocation is final and pauses.
`MandateGate` is the detailed admission side and is shown to implement the
contract, in TLC and by proof; `LiveOrders` extends the contract, and so holds
over any gate that keeps it.  `OrderLifecycle` is the other side of the
pipeline, what it promises to whoever looks at an order: one machine per order,
without requests, locks or messages, which `LiveOrders` is shown to implement in
TLC and by proof.  The credit account shares no state with LIVE
trading, which charges no credits; it is a module of its own.  The four other
modules each own the rows they write.  `HarnessRuns` sees of the credit account
the reservation of a run, whose status `Credits` shows to move once; the wallet
of `GatewayWallet` is a table beside the credit account; `PhotonInbound` counts
the runs `start_run` commits, each with a reservation of its own.

### 2.1 MandateGate

One mandate with its user and its connection.

| TLA+ | code |
|---|---|
| `approval` | `LiveUserApproval.status` |
| `switches` | active `TradingKillSwitch` rows: the scope and the request that inserted the row |
| `mandate` | `paused`, `pause_reason`, `kill_switch_state`, `expires_at` in the past |
| `connection` | `BrokerConnection.status`, `revoked_at` is set |
| `recon` | status of the latest `TradingReconciliation` |
| `lock` | the `FOR UPDATE` lock of the mandate row |
| `admin` | requests inside `admin_kill_switch`, and what each has read |
| `tester`, `reconciler` | requests and workers that wait for the exchange |

An operation that reads and writes in one go is one action.  Those that call
the exchange between a read and a write (`test_connection`,
`reconcile_account`) are split there.  A kill switch request is split at each
of its reads, because it reads without a lock and others commit in between:
`kill_switch_select` is the lookup of the active rows of the scope in `engage`
or `release`, `admin_kill_switch_load` that of the mandate, and
`admin_kill_switch_engage` or `_release` the commit of what was decided from
both.  Two requests that both find no row insert two; a release takes back only
the rows it found; and a release that selected its rows before another request
engaged may still clear the column, so that an active row stands beside an
inactive column.  What then keeps the gate closed is the pause.
`WriteMandate` is an UPDATE of the mandate row: it waits for the lock.
`ColumnsToWrite` and `test_connection_end` write a column only when it differs
from the loaded one, as the ORM does.  `GateInit` is a freshly bound mandate.

### 2.2 LiveOrders

The orders of one mandate.  An intent stands for its `client_order_id` as well,
and for the one order its idempotency key allows.

| TLA+ | code |
|---|---|
| `intent` | `LiveOrderIntent.status`, `source` |
| `lapsed` | intents whose `expires_at` has passed |
| `order` | `LiveOrder.status`, `filled_quantity` (`"none"`: no row) |
| `passed` | a committed `RiskCheck` of result PASS exists |
| `recent` | the last order is within the mandate's order frequency |
| `fills`, `booked` | `Fill` rows by trade id; quantity of the ledger's trade entries |
| `wire`, `sent` | the POST and its answer; how many POSTs were made |
| `venue` | the order on the exchange (external) |
| `confirmer`, `canceler`, `syncer` | program counter and loaded values of each request or worker |

A step ends where the code commits, takes the row lock or waits for the
exchange:

- `confirm_order` is `_check` (the unlocked pre-checks), `_lock`, one of
  `_gate_blocked`, `_risk_rejected`, `_risk_passed`, then `_duplicate` or
  `_commit`; the submission is `submit_order_credentials`, `_post`, and one of
  `_ack`, `_unavailable`, `_unknown`.  `confirm_order_dies` is a crash, or an
  exception that no handler catches, at any of these points.
- `sync_order_status` is `_load`, `query_order_found` or `_not_found`, then
  `_apply_fills`, which writes the fills, the ledger entries and the status in
  one commit; `_fails` is an error or a crash at any point.
- `cancel_order` is `_load`, `cancel_order_venue`, `_commit`; `_fails` as above.
- the exchange accepts or refuses, executes unit by unit, lets orders expire,
  and requests and answers are lost.  An answer may be a server error with an
  error code in its body (`"server_error"`), which says nothing of the order;
  `Recorded` takes it for a rejection, as the gateway does.

Columns are written back as the ORM does it: only if they differ from what was
loaded (`WriteBack`).  This is what makes the stale writes of overlapping
workers come out right.

`OrderLifecycle` is implemented with this mapping (`PhaseOf`):

| phase | in `LiveOrders` |
|---|---|
| intended | no order row |
| journaled | a row, no POST made, and a request still carries the order |
| sent | the POST is on its way |
| live, over | the exchange has the order open; filled, canceled or expired |
| void | anything else: the request died or was refused before its POST, the POST was lost, the exchange refused |

`executed` is what the exchange executed, `booked` the quantity in the ledger.
The mapping reads the exchange and the wire, not `LiveOrder.status`: what the
status says may be behind, or wrong (section 6), while the life of the order is
what it is.

### 2.3 Credits

The account of one user and every session that writes it.

| TLA+ | code |
|---|---|
| `balance` | `User.credit_balance` |
| `ledger`, `replayed` | `CreditLedger` entries, each with its idempotency key and `credits_delta`; the opening balance plus every delta |
| `hold` | `CreditReservationRecord` of the key `<<task, n>>`: the task's key and the retry keys derived from it |
| `paused`, `day` | `CreditBudgetPolicy.paused` or not enabled; day of the month |
| `delivered` | serialized tasks whose `Report` row is committed |
| `user_lock`, `row_lock`, `report_lock` | the `FOR UPDATE` locks of the users row and the reservation rows, and the advisory lock of the report |
| `pc`, `req` | where a session is, and what it holds in memory: `cached` is the balance of a `User` it loaded before, `view` the balance it works with under the lock |

A step ends where the code commits, rolls back or waits for a row lock:

- `reserve_task` and its caller: `Ask` (or `AskDelivered`), the lookup without a
  lock (`ReuseHold`, `NoLiveHold`), then under the account lock one of
  `ReuseHold`, `LockAccount`, `Insufficient`, `BudgetExceeded` (after which
  `PauseBudget` stores the pause), and `Reserve`, the commit; `StartWork` or
  `ReturnDelivered`, then `Succeed` or `Fail`.  A report starts its work with the
  reservation row locked, but work that has to write its market intelligence
  commits in the same session (`CommitWork`), and the lock is gone: another
  request, a refund or the recovery can then have the row before the report and
  its settlement are written.
- `settle_task`: `SettleLock`, or `SettleAgain` for a reservation that is over;
  `SettleAccount`, and `SettleCommit`, which caps the charge where the balance
  cannot pay the excess; `DeliverConflict` if the report was written by another
  request meanwhile.
- `refund_task`, by a caller, an admin or the recovery: `RefundLock`,
  `RefundAccount`, `RefundCommit`.  The recovery works through a batch of rows
  (`Sweep`, `RefundRow`, …) and commits once per batch.
- Grants, console refunds and adjustments: `GrantRead`, `AdminUndo`,
  `GrantAccount`, `GrantKnown`, `GrantCommit`, `AdjustRead`, `AdjustWrite`.
- `Die` rolls back what is not committed, at any step of any session.

*The identity map* is what makes this component hard.  `SELECT … FOR UPDATE`
locks the row, but a `User` that the SQLAlchemy session has already loaded is
not refreshed by it, so the lock protects a balance that may be old.
`Preloading` is the set of callers whose session loaded the `User` first, which
every API request does (`get_current_user`).  Every property of the runs is
checked with such callers, except that `FreshPosts` says of a session that it
has not loaded the `User`; that the balance itself does not survive is a
disagreement in section 6.

### 2.4 HarnessRuns

One goal of one user.  The idempotency key of a run is made of its goal, and
the retry of run n is run n + 1; the daily quota bounds the chain.

| TLA+ | code |
|---|---|
| `status` | `HarnessResearchRun.status` |
| `hold` | status of the run's `CreditReservationRecord` |
| `reported`, `empties` | `ResearchArtifact` exists; an `EvidenceSnapshot` without items exists |
| `lapsed` | `timeout_at` is past |
| `queue`, `lost` | Celery messages of a run; runs whose worker died, or lost the transaction that was to end them (history) |
| `pc`, `job` | where a session is; `seen` is the status it has loaded |

A step ends where the code commits, rolls back, loads the row or waits for a
service.  `Update(r, seen, to)` is `transition_run`: the row moves only if it
still has the status that was seen, and the caller goes on in either case.
`Load` is the first access to the row in a new transaction.  `Accept` …
`Deliver` are the stages, `Illegal` is the exception of a stage whose status
does not allow it, `Raise` any other exception, and `Abort`, `AbortEnded` the
handler of `execute_queued_run`.  `Die` loses a worker, with or without its
message coming back.

`_refund_run` and `_settle_run` swallow every exception.  An error of the
database there has already ended the PostgreSQL transaction, so that the commit
that follows is a rollback which reports nothing, and the new status is lost
with the refund or the settlement: `CancelLost` and `OutcomeLost`.

### 2.5 PhotonInbound

One message.

| TLA+ | code |
|---|---|
| `status`, `attempts` | columns of `PhotonInboundTask` |
| `stale`, `due` | the attempt is older than `STALE_PROCESSING_MINUTES`; `next_retry_at` is past |
| `event`, `runs` | `IMessageInboundEvent.status`; committed `AgentRun`s |
| `delivery`, `received` | `NotificationDelivery.status`; replies Photon has accepted |
| `queue` | Celery messages |
| `selected`, `verified` | the provider setting; the sender is a verified recipient |

`Receive`, `Insert`, `Dispatch` are the webhook; `Claim` is `_claim`, `Skip` a
message whose task cannot be claimed; `StartEvent` … `RecordAnswer` the agent
flow, with `RepeatAnswer` and `RepeatNothing` for a message an earlier attempt
has been at; `AgentFails` and `RecordFailure` are the two commits of a failed
run, its refund and the event's failure; `Resolve` reads the recipient, `Send`,
`RecordDelivery`, `Conclude` are the reply; `MarkFailure` the retry.
`StartEvent` is a step of its own because the recovery of stale runs at the
start of `start_run` commits, and the event with it, before the run exists.

### 2.6 RuntimeOrders

The orders of one account in one process.

| TLA+ | code |
|---|---|
| `journal` | states of the rows of an order, by `sequence` |
| `received`, `position` | rows of the commands; how often the paper position holds the fill of an order |
| `venue` | `MockExchangeGateway.orders` |
| `kill_switch`, `paused` | memory of `RuntimeRiskGateway` |
| `pc`, `job` | where a thread is, the row it works on, what it has read |

A step is one access to the store, the venue or the risk gateway: the store's
lock covers one statement, and nothing covers two.  `Advance` appends the row
after the one the thread worked on; `Replayed` is the case in which the
idempotency key is there already, which the code passes over in silence, and
`Raise` is an illegal transition or a taken place in the sequence.  `Restart`
is `recover_uncertain_orders`, the load of the new venue, and `recover`, which
all run before the first request.

The venue has no lock: `Find` looks the order up, `Place` stores it,
`ReadCurrent` and `Fill` read the position and write it back, and a restart or
another thread may come between any two.  A cancellation that names another
account finds nothing at the venue (`WithdrawNothing`), and the order becomes
UNKNOWN.  `ReduceOnly` orders pass a pause, not the kill switch.

### 2.7 GatewayWallet

The wallet of one user.

| TLA+ | code |
|---|---|
| `balance`, `ledger` | `available_balance_usd`; `GatewayWalletLedger` by idempotency key |
| `spend`, `log` | `current_month_spend_usd`; ids in `GatewayRequestLog` |
| `intent`, `checkout` | `GatewayTopupIntent.status`; the session at Stripe (external) |
| `events`, `processed`, `acknowledged` | what Stripe emitted; `StripeWebhookEvent`; what it need not repeat |
| `answered` | requests whose client has the answer |

`Admit`, `ProviderAnswers`, `Record`, `Charge` are a request, with
`ChargeNothing` (an answer that costs nothing, which leaves the wallet alone),
`Overdrawn`, `RequestFails` and `Disconnect` as its other ends; `Receive`, one
of `Settle`, `SettleUnpaid`, `Expire`, `TakeBack`, `RefundNothing`, and `Fail`
are a webhook delivery.  `TakeBack` commits on its own, before the event is
marked.

### 2.8 Abstractions, and why they are sound

*Runs, messages, runtime and wallet*

- *One goal, one message, one account, one wallet.*  What is shared between
  several of them is named in the state: `empties` is the one row that runs of
  different goals contend for.
- *Time* is a set of deadlines that have passed.  Hard time limits are shorter
  than the staleness of a reservation or of a claim, which the modules use: the
  recovery never meets a run, and the reaper never a message, that a live worker
  is at.
- *Services* (evidence pipeline, model providers, Photon) answer, fail, or do not
  answer; what they say is a choice between the outcomes the code tells apart.
- *The simulated venue* is the code's own `MockExchangeGateway`, every step of
  it; adapters of real venues are left out.  An order is a unit and no two have
  the same notional, so the reconciler's comparison of fills is that of sets.
- *A refund or settlement of a run* fails, where it can fail, with the database:
  the other exceptions `_refund_run` and `_settle_run` can meet are
  `ValueError`s about reservations that are missing or over, where nothing
  is left to do.  On SQLite, which only development uses, an error of a statement does not
  end the transaction, and the status could be committed without the refund.
- *The answer of the simulated venue* is read from its table when it is
  recorded: the answer is the venue's own record, which changes under the
  thread.  `cancel_order` writes one field of that record and is one step.
- *The wallet ledger's unique key* is not a guard of `Move`: no step of the
  model ever writes a key twice, which `WalletFollowsLedger` requires of
  `Move` and the proof shows, so the database never has to refuse.  As a guard
  it would make half of that property true by definition.
- *Locks of the wallet* are held from the read to the commit and cover no other
  commit, so a read and a write under the lock are one step; what is read
  without it (`seen`, `spend`) is read in a step of its own.

*Credits*

- *One account, one automation, fixed limits.*  Nothing but the recovery works
  on two accounts in one transaction, and no property relates two accounts; the
  lock order of two recoveries over several users is therefore not covered (see
  `hazards`).
- *Amounts* are small numbers; what a task costs is an input.
- *Callers that reserve and settle in one transaction* are left out: they hold
  the account lock throughout and are the special case in which nothing
  interleaves.
- *Sessions are one-shot*, except the recovery.  A second request of the same
  client is another session.
- *Content*: prices, report text, audit rows and ledger annotations.

*LIVE trading*

- *Preview is one step.*  It writes a new row that nobody else can know of, and
  takes no lock; the write commutes with all other steps.
- *Gate and risk check are one step, the commit a later one.*  The checks all
  run under the lock; the code reads the gate before and after the balances
  call.  Splitting check and commit allows everything to change in between,
  except what the lock forbids.
- *The risk engine* may reject at any time (`_risk_rejected` has no condition of
  its own), for the limits it compares are amounts; when it passes, the order
  frequency holds, as this is the one limit that depends on other orders racing
  on the mandate.
- *Booking is one step.*  `_apply_fills` flushes the new status before the
  fills are inserted, in the transaction that the caller commits: no other
  session sees the status without the fills, and the row is written by nobody
  else until then.
- *A fill's check-then-insert* is atomic: the unique constraint makes the second
  of two concurrent inserts fail, its transaction rolls back, and that is
  `sync_order_status_fails`.
- *Amounts*: an order is `Quantity` units, executed as the trades 1, 2, …;
  prices, fees and cash are left out.
- *The reason of a pause* is `"reconciliation"` or `"other"`, which is what
  `resume_mandate` tells apart.
- *The environment flags* (`evaluate_static_gate`) do not change while a
  process runs: the constant `StaticGate`.

## 3. Properties

| property | what could break it |
|---|---|
| `SubmittedAtMostOnce` | two confirmations of one intent, a retry after a timeout, a crash and a second confirmation |
| `OnlyJournaledOrdersSent` | a crash between the POST and a later write; a strategy's suggestion confirmed |
| `RejectedByAnswer` | a timeout, a crash or a late sync recorded as a rejection, on which nobody asks about the order again |
| `ImplementsLifecycle` | a pause between the gate check and the commit; a second POST; an order that is back after it was over or void; a booking ahead of the execution |
| `OrderFrequencyKept` | two orders checked against the same last order |
| `NeverOverbooked` | overlapping syncs over one trade list; a trade booked that was not executed |
| `UnknownResolves`, `SettledOrdersSettle` | a status the sync never asks about; a write that reopens a terminal order for good |
| `BadReconciliationPauses` | an outcome recorded without the pause |
| `GateImpliesNoSwitch` | kill switch requests that overlap and leave an active row beside an inactive column, while the full gate reads only the column |
| `ImplementsAdmission` | any writer of the gate that ignores the lock, lifts a pause (a release, a health test that ends late), or revokes without a pause |
| `ChargedOnce` | a settlement, a refund and a recovery of one reservation that each find it RESERVED; an excess that cannot be paid |
| `OneHoldPerTask` | a request that waited for the account and reserves beside the hold of another; a retry key used too early |
| `ReportChargedOnce` | two requests at work on one report, or a retry of a report that an earlier request delivers and settles in the end; the row lock is gone by then, and the unique key of the report is what is left |
| `BudgetKept` | usage read before another run is counted; a pause that is stored late, or lifted |
| `NeverOverRefunded` | an admin who refunds a debit whose settlement gave a part back, and the settlement's own entry as well |
| `KeysMoveOnce` | a Stripe event delivered twice at the same time; a refund repeated |
| `FreshPosts` | a session that reads the balance before it has the account's lock and writes it after |
| `HoldsResolve` | a caller that dies, or that returns another request's report and leaves its hold |
| `SessionsEnd` | sessions that lock rows in different orders, or keep a lock past the commit |
| `LegalTransitions` | a stage, a cancellation or an abort that acts on a status another session has moved on from |
| `HoldFollowsOutcome` | a refund and a settlement by two sessions that both believe to have ended the run |
| `GoalChargedOnce` | a retry while the run it retries may still conclude; a message executed twice |
| `ActiveRunHasWorker` | an error path, or a lost race, that leaves a run in the middle; the only ways to do so are a worker that dies and a transaction the database lost |
| `OneWorkerAtATime` | a redelivered message, a webhook and the reaper that hand one task to two workers |
| `AgentRunsOnce` | an attempt that does not see how far an earlier one got |
| `ClaimedEnds` | a task that no message, retry or reaper leads back to a worker |
| `JournalGrowsLegally` | two threads that append after the same row |
| `SentIsJournaled` | a refused second submission, or a restart, that rewrites what the journal says of a sent order |
| `UncertainHasOwner` | a thread that ends, or a restart, between the call and its answer |
| `WalletFollowsLedger` | an event handled twice, or half; a debit and a credit at once |
| `AnswerIsCharged` | a balance that is spent between the admission and the debit; an id used twice; an answer that costs something taken for one that does not |
| `PaidIsCredited` | a failure after the event's row is written; an expiry that overtakes the payment |
| `TypeOK`, `GateTypeOK` | a status outside its column's values; for the account and the wallet, a negative balance |

## 4. Runs

| run | instance | states | what it shows |
|---|---|---|---|
| `gate` | 1 confirmer, 2 kill switch requests on the mandate, 1 health test, 1 reconciliation | 2,131,488 | the admission side is safe while kill switch requests overlap, and implements `AdmissionGate` |
| `race` | 1 intent of an admin or a strategy, 2 confirmers, 1 canceler, 2 syncers | 1,768,066 | order safety when all kinds of actors race, overlapping syncs and misleading answers included |
| `contend` | 2 intents, 2 confirmers | 1,042,770 | the lock keeps the order frequency |
| `live` | 1 intent of 2 units, 1 confirmer, 1 canceler, 1 syncer | 233,742 | orders resolve and settle, and the pipeline implements `OrderLifecycle`, partial executions included |
| `credits` | 2 callers whose sessions loaded the User before, 1 report and 1 automated task, 3 attempts, 2 days, 1 admin, 1 recovery, balance 4 | 878,243 | reservations, reports and budgets are safe however stale the balance, and although the work of a report loses its row lock |
| `grants` | 1 caller whose session loaded the User before, 2 deliveries of one Stripe event, 1 adjuster, 2 admins, 1 recovery | 428,876 | keys move credits once, no refund exceeds its debit, and fresh sessions post what they write to the ledger |
| `repay` | 2 callers whose sessions loaded the User before, 1 report and 1 other task, a recovery that may die with a batch of two rows in hand | 17,499 | every hold resolves and nobody waits for ever |
| `harness` | 1 goal and its retry, 2 requests, 2 workers, 1 canceler, 3 messages per run, all faults | 509,276 | runs move legally, and the credits with them |
| `photon` | 2 deliveries, 2 workers, 3 attempts, 2 messages waiting, 2 crashes, 1 change of the settings | 707,397 | one worker, one bill, and an end |
| `runtime` | 2 threads; one order that fills at once, submitted twice and canceled, one that rests and only reduces, submitted and canceled; 1 reconciliation, 1 refresh, 1 kill switch; 1 restart | 2,468,902 | the journal and what it says of the venue |
| `wallet` | 2 requests, 2 ids, 2 webhook sessions, 1 top-up of 2, costs 0 to 2, balance 1, spend limit 2, 1 failure | 860,848 | the wallet, the answers and the top-up |

One more run, `empty`, has an expected violation; see section 6.

*Bounds.*  Counters are bounded by the model and not by constraints: an order has
`Quantity` units, `sent` is bounded by the property it states, and a pause
is never lifted.  Each instance holds the smallest number of actors at which the
hazard exists.  Two confirmers are needed to race on an intent or a mandate;
two syncers for a stale `filled_quantity`; two units for a partial execution;
two kill switch requests so that one engages between another's reads and its
commit.  These two use the mandate scope, the only one with columns beside its
rows; the rows of the other scopes are read directly by both gates, and the
theorems are about all of them, and about any number of requests, health tests
and reconciliations.  More of the same actor
adds no new kind of step, since any two interact only through the rows of one
order or one mandate, and the safety properties of these runs are proved
without the bounds.  The pipeline is split over `race` and `contend`
because the full product is out of reach: `race` has one intent of one unit, as
the journal does not depend on quantities, and `contend` has no syncs, as the
order frequency does not depend on them.  Partial executions appear in `live`;
that overlapping syncs of a partially filled order do not overbook is the
theorem `BooksFollowExecutions`, for every quantity.  The refinement is checked
in `live` because this instance has every kind of step; that it survives
racing requests is the theorem `LifecycleRefinement`.  That no order is
created while the mandate is paused (`NoOrderWhilePaused`) is the guard of the
abstract `Create`, and a theorem as well.  An admin's intent goes the
way a user's does once an admin confirms it, so `race` needs no third source.

For the account: two callers race on a key, on the balance and on a retry key
(three attempts per task leave one for each caller to derive); quotes of 2
against actual amounts of 1, 2 and 3 make a settlement give back, match and
charge more; a balance of 4 is used up by a charge of 3 and a hold of 2, so that
`Insufficient` and a capped settlement happen; limits of 2 per day and 3 per month
over two days make each limit the one that refuses.  `repay` has two tasks
because a batch of two rows is what a recovery can lose half-way, and a report
among them for the lock it loses.  The
temporal run has no symmetry, no admin (whose refunds take the same steps as the
recovery's) and one actual amount, above the quote, which is the
one that needs both locks.

For the runs, messages, runtime and wallet: two workers are needed for a message
that is delivered twice and for a claim that is taken over; two requests for a
key that is inserted twice, and two runs for a retry that races with what it
retries; three attempts are the code's own limit, and two crashes let both the
first and the second one fail.  In the runtime two threads are what one order's
pipeline can meet at a row, and a third command follows when one of them ends.
In the wallet a balance of 1 and costs up to 2 make an admitted request
unaffordable, a cost of 0 is the answer that moves nothing, a top-up of 2 is
partly spent when it is refunded, and two ids for two requests include the case
in which a client repeats an id.

*Symmetry* is declared among the kill switch requests, among confirmers, syncers
and intents, among callers, webhooks and admins of the account, among the
requests and the workers of the harness and among the runtime's threads, and
only in runs without liveness properties: each set is of interchangeable model
values that no formula names.

*Deadlock* is checked in every run of LIVE trading: a gate, a sync or an
administrator always has something left to do.  The sessions of the other
modules are one-shot, or bounded by their messages and commands, and when all of
them have ended, the model stops; their runs therefore say `CHECK_DEADLOCK
FALSE`, and that no sessions wait for one another for ever is the property
`SessionsEnd` for the account, `ClaimedEnds` for messages and `PaidIsCredited`
for top-ups.

*Mutants.*  Each property of a passing run has a mutated operation, kept beside
the original, that breaks it in that very run: a pause that ignores the lock, a
commit without the idempotency check, a commit after the submission, a timeout
taken for a rejection, a kill switch that does not pause, a balance read without
its lock, a sync that leaves out UNKNOWN or partially filled orders, fills
applied without the check for known ids, a refund that does not look at the
row's status, a second lookup left out, a budget that forgets the run at hand,
locks that outlive their transaction, an update without its condition, a claim
of a task that is being worked on, a reaper that forgets stale claims, a
recovery that puts an uncertain order back, a debit that trusts an old check,
and so on.

## 5. Fairness

`FairSpec` of `LiveOrders` assumes of each sync worker strong fairness of the load of each
order, of both outcomes of the query, and of applying the answer.
- The scheduler (`packages/workers/scheduler.py`, job `live_order_status_sync`)
  enqueues the sync every few seconds for ever, and the task goes through all
  orders in a status that is open: an order that stays open is loaded again and
  again.
- A single query may fail, time out or be lost (`sync_order_status_fails`), so
  weak fairness would be useless; the strong form says that an exchange that is
  asked for ever does answer at some time.  It says nothing about *when*.

Nothing is assumed of users, of confirmations (they may die at each step), of
cancellations, of the exchange executing or expiring an order, or of requests
arriving.  Hence the conclusions are about orders that are UNKNOWN or over on
the exchange, not about orders that rest in the book.  Both properties except
revoked connections: their credentials are gone, so the code can neither query
nor cancel, and an order that is open at that moment stays so in the database.

`FairSpec` of `Credits` assumes:
- of a session that waits for a row lock, that it gets it (strong fairness of
  its step): PostgreSQL queues the waiters of a row, so that a lock which is
  released again and again is not withheld from one of them for ever;
- of a request that has begun, that it goes on, unless it dies, and that its work
  ends in success or failure (weak fairness; jobs have timeouts);
- of the recovery, weak fairness of `Sweep` (the scheduler enqueues it every 15
  minutes for ever) and strong fairness of each of its steps, with one condition
  per number of rows left: a transaction may die with part of a batch done, but
  not every transaction does.

Nothing is assumed of callers surviving, of how the work ends, or of requests,
admins and days arriving.  `HoldsResolve` therefore
rests on the recovery alone when a caller dies.

`FairSpec` of `PhotonInbound` assumes that a worker goes on with the step it is
at, that some worker takes a waiting message, that the reaper is scheduled
(every minute, `photon_inbound_reaper`) and that time passes.  Nothing is
assumed of Photon delivering again, and a dispatch may fail every time.
`ClaimedEnds` starts where the code's recovery does, at a claimed or failed
task: a task that is still pending has no recovery (section 6, `PendingEnds`).
Crashes are bounded, so that the property speaks of workers that do not die for
ever.

`FairSpec` of `GatewayWallet` assumes that Stripe delivers an event until one of
its deliveries is acknowledged (Stripe's own contract: the code answers 500 to
ask for it, and `MaxFailures` bounds how often it does) and that a handler that
has begun goes on.  Nothing is assumed of payments, refunds or requests.

`FairSpec` of `HarnessRuns` is only used for the disagreement
`StuckRunsTimeOut` in section 6: workers go on, deadlines pass and the recovery
of reservations is scheduled.

## 6. Findings

The run `empty` shows a behaviour of the code that contradicts a comment of the
repository; `PROJECT.json` quotes the lines.  The evidence of a run is frozen in
an `EvidenceSnapshot` that is unique per content hash and user, and the hash of
a bundle without items is a constant: the second run of a user that finds no
evidence cannot store it, and ends failed, where the comment says degraded.

More disagreements were met, which have no run of their own.  Each is a
property of the module, stated next to the others, and TLC finds it violated as
soon as the configuration named here checks it (as PROPERTY where the table says
so, and then without SYMMETRY):

| property, in configuration | what happens | stated by |
|---|---|---|
| `ResumeWorks`, MCMandateGate | `resume_mandate` evaluates the full gate on the mandate while it is still paused, and the gate demands that it is not: no pause is ever lifted | `docs/live-trading/API.md` |
| `DifferencePausesMandate` (PROPERTY), MCMandateGate | one session for all mandates of a reconciliation run: a failure in one discards the pauses of the others | docstring of the task in `workers/tasks.py` |
| `FilledIsBooked`, MCLiveOrders_race | an ack in state filled carries no fills and is terminal, so the sync never fetches them: a filled order without Fill rows and ledger entries | `docs/live-trading/FIRST_ORDER_VERIFICATION.md` |
| `CanceledIsGone`, MCLiveOrders_race | "no such order" is recorded as canceled while the order's POST is still on its way | comments in `binance_spot_gateway.py` |
| `RepeatedConfirmIsHarmless`, MCLiveOrders_race | a second confirmation that waited for the lock is risk-rejected (order frequency) and closes the intent of the live order | `docs/live-trading/API.md` |
| `PauseSerialisedWithSubmit` (PROPERTY), MCLiveOrders_race | a pause commits between the order's commit and its POST | `docs/live-trading/ARCHITECTURE.md` |
| `RejectedNeverLive`, MCLiveOrders_race | a 5xx whose body has a -1xxx code counts as a rejection, and nobody asks about the order again; it may be live (`RejectedByAnswer` says what is left of the promise) | comment in `binance_spot_gateway.py` |
| `BalanceIsLedger`, MCCredits | two requests of a user reserve; the second waits for the lock and then writes the balance its session loaded before the first committed: a charge is in the ledger and not in the balance | `credit_service.py`, comment on replaying the ledger |
| `BalanceIsLedger` with `Preloading = {}` and `Webhooks = {}`, MCCredits_grants | an admin's adjustment is computed from a balance read without the lock and overwrites a reservation that commits in between (`FreshPosts` says of all other writers that they do not, unless they loaded the `User` before) | the same |
| `DeliveredIsPaid`, MCCredits | two requests share the hold of a report; the first fails and refunds it, the second, which waited for the row, makes the report and settles a refunded hold for nothing | `credit_service.py`, docstring of the reservation lookup |
| `StuckRunsTimeOut` (PROPERTY) under `FairSpec`, MCHarnessRuns with one request and one worker | the deadline is only looked at when a worker takes the run: a queued run without a message, or an active one whose worker died, never times out | `docs/operations/HARNESS_RUNBOOK.md` |
| `AttemptsWithinLimit`, MCPhotonInbound | a stale claim is taken over whatever the number of attempts: only a failure that is recorded compares it with the limit | `photon_inbound_service.py`, docstring of the reaper |
| `ReplySentOnce`, MCPhotonInbound | a reply that Photon accepted, but whose answer or whose record was lost, is sent again | `photon_inbound_service.py`, module docstring |
| `NoReplyIsIntended`, MCPhotonInbound | an attempt that finds the event of one that died replies nothing and ends the message as `no_reply`, although the agent ran and was billed | `photon_inbound_service.py`, comment on empty replies |
| `PendingEnds` (PROPERTY), MCPhotonInbound | a task whose first dispatch failed stays pending: neither the reaper nor a repeated delivery looks at it | `photon_inbound_service.py`, module docstring |
| `CanceledIsNotHeld`, MCRuntimeOrders | the simulated venue cancels an order that is filled; the journal says canceled and the position holds it | the transition table |
| `FilledOnce`, MCRuntimeOrders | two submissions of one order both find nothing in the journal and at the venue, and both add their fill to the position | `services/nautilus-runtime/README.md` |
| `FilledIsHeld`, MCRuntimeOrders | a position that was read before a fill is put back after it, by `mark_positions` or by another order's fill, and the fill is lost | `exchange_gateway.py` |
| `UnresolvedPauses`, MCRuntimeOrders | a reconciliation that finds no difference lifts the pause that the recovery set for an order of unknown outcome | `runtime_manager.py`, `recover` |
| `RefundTakesBack`, MCGatewayWallet | a refund event that is handled before the payment's finds no completed top-up and is acknowledged; the payment is then credited | comment in `billing_service.py` on full refunds |
| `SpendIsUsage`, MCGatewayWallet | two requests add to the month's spend they read before either committed: the spend limit counts one of them | `packages/gateway/service.py` |

Some behaviour is in the models without a property that would refuse it.  A
cancellation of a harness run that loses to the conclusion refunds a completed
run, so `HoldFollowsOutcome` says of completed runs only that credits which are
kept need one.  A streamed answer whose client goes away is delivered without a
charge, so `AnswerIsCharged` is about answers that are not streamed.  A restart
of the runtime forgets its kill switch, and a command whose process died is
answered from its row as if it were complete.

`ResumeWorks` also explains why `AdmissionGate` may say that no pause is ever
lifted: `ResumeChangesNothing` in `MandateGateProofs` proves that of the code.
If resuming is repaired, `GateWrite` has to allow it under the lock.  What
`LiveOrders` shows does not rest on pauses being final, but the proof of
`NoOrderWhilePaused` rests on their being written under the lock.

## 7. Proofs

All theorems are about the specifications as they stand, for every value of the
constants that satisfies the named assumptions `ConfirmersAssumption`,
`GateConstants`, `OrderConstants`, `CreditConstants`, `HarnessConstants`,
`PhotonConstants`, `RuntimeConstants` and `WalletConstants`; TLC evaluates them
in each run.  They say that bounds and amounts are numbers, that kinds of
sessions which the code tells apart are disjoint, and that the model values for
"nothing" are none of the values.  `CreditConstants` also says that the tasks
are finitely many, without which what a ledger adds up to has no meaning; it does
not bound their number.

**Sums.**  What `SumFunctionOnSet` and the ledgers' `DeltaSum` do with an empty
set, one element more, a union, and functions that are equal or ordered.  The
sum is a fold, so these lemmas need induction on finite sets, and the library's
induction theorems cannot be used here because they take an operator as a
parameter.  The induction is therefore done by hand: strict inclusion is
well-founded on the subsets of a finite set, so among the subsets that refute a
lemma there is a minimal one (`MinimalSubset`), all smaller subsets obey the
lemma, and one step of the fold (`SumEquation`) leads from them to a contradiction.

**MandateGateProofs.**  Inductive invariant `GateInv`: types; `SwitchPauses`; a
revoked connection's mandate is paused; a bad reconciliation's mandate is
paused.  The gate reads the column of a mandate's kill switch and not its rows,
and with overlapping requests the two may disagree, so `GateImpliesNoSwitch` does
not follow from them.  `SwitchPauses` is what it follows from: an active row of
the mandate scope comes with a pause, and a request that will not write the
pause, because it found one (`ReliesOnPause`), can rely on it, since nothing
lifts a pause (`ResumeChangesNothing`).  Theorems: `GateTypeCorrect`,
`RevocationPauses`, `FailedReconciliationPauses`, `OpenGateHasNoSwitch`,
`ReleaseNeverResumes`, and `GateRefinement`: every behaviour of the rows is one
of `AdmissionGate`.

**LiveOrdersProofs.**  `TypeInv` is the types, that a busy actor has an order to
work on (`BusyActors`), and that an open order has something left to execute
(`OpenHasRest`, which bounds the exchange's count).  `JournalInv` is the core of
the argument:
- `LockInv`: a confirmation between lock and commit holds the lock, and once it
  has passed the checks the mandate is neither paused nor has it a recent order;
- `SubmitInv`: a confirmation that submits has its order and its RiskCheck
  committed, is the only one that submits this order, and has sent nothing
  before its POST;
- `SentInv`: what was sent, was sent once, and is journaled.

`SubmittedAtMostOnce` alone is not inductive: it needs that two confirmations
cannot both be in the submitting phase of one order, which needs that the commit
requires the absence of a row and that a row never disappears.  Theorems:
`TypeCorrect`, `NeverSubmittedTwice`, `SentIsJournaled`,
`PausedMandateGetsNoOrder`, `RacingOrdersKeepFrequency`.  The two action
properties share the lemma `Creation`: an order row is created by
`confirm_order_commit` only.

On top of the journal, `WireInv` says what an answer tells about the exchange,
`RejectInv` that no request which could still post a rejected order is left, and
`BookInv` that a sync never loaded more than is booked.  Theorems:
`BooksFollowExecutions` (`NeverOverbooked`, for any number of overlapping syncs
and any quantity) and `RejectionIsAnAnswer` (`RejectedByAnswer`: a rejected order
was never posted, and never will be, or the exchange answered its POST with an
error; it is absent from the exchange unless that answer was a server error).

The last part is the refinement of `OrderLifecycle`.  `LifeInv` joins the types,
the journal, `WireInv` and `BookInv`, all of them proved before.  A step moves the
phase of one order at most, and which order that is follows from the invariant:
a request is the only one that carries its order, so that its death makes the
order void and touches no other; an order that is sent is absent from the
exchange until the exchange takes it; a sync books more than before and no more
than was executed.  There is one lemma for each kind of actor
(`ConfirmLifecycle`, `VenueLifecycle`, `CancelLifecycle`, `SyncLifecycle`,
`OtherLifecycle`), and `LifecycleRefinement` puts them together.

**CreditsProofs.**  `TypeInv` is the types, `LedgerKeys` (each entry's key is one
the code can write) and `Bookkeeping`: what a session holds in memory fits the
step it is at, so that a debit it is about to write is covered by the balance it
works with.  Theorem `TypeCorrect`: no session writes a negative balance, even
from a stale one.

`HoldInv` joins `OneHoldPerTask` with what it needs: a session between the
second lookup and the commit holds the account lock and its key is still the
reusable one (`SessionsHold`), and a settled hold of a report means that the
report is delivered (`SettledDelivered`).  `ReportChargedOnce` follows from the
last: a charge is committed together with the report's row, whose key is unique,
so that a session whose work is done finds the report written by another and
rolls back (`DeliverConflict`).  No lock is used: the work of a report may have
dropped the row's and the advisory one.  Theorems: `OneHold`, `OneCharge`.

`FreshInv` says what a session that has not loaded the `User` before knows at
each step (`Ready`): between the account lock and its commit it works with the
current balance, because every other writer waits for the lock, and an
adjustment, which does not, waits for the row.  A step that posts then moves the
balance by what it adds to the ledger.  Theorem: `FreshSessionsPostExactly`
(`FreshPosts`), with any number of stale sessions, webhooks and adjustments
around.  Together with the disagreements about `BalanceIsLedger` in section 6 it
says where the account loses updates: in sessions that loaded the `User` first,
which the identity map keeps stale, and in the console's adjustment; repairing
the lock (`populate_existing`) and that adjustment would restore it.

The rest is about the ledger: entries are right however stale the balance is.
- `RowInv`: whoever settles or refunds a reservation has its row locked and
  found it RESERVED (`RowsLocked`), and a batch that the recovery is in the
  middle of has summed up what its finished rows held (`Refunding`).  Without the
  lock two sessions would both be entitled to write the end of a reservation.
- `LedgerInv`: for each reservation, which entries exist in which status and what
  they amount to (`RowLedger`); each key has one entry, and the entries are what
  the account was replayed to (`KeysMoveOnce`, not inductive alone, since a new
  key must be known to be new: from the row's status, from the lookup under the
  account lock (`Granting`), or because an adjustment is its session's last step
  (`AdjustedOnce`)); and a reversal by the console gives back no more than its
  entry took (`Undoes`), which stays true only because a settled row and its
  entries never change again.
- `BudgetInv`: a session about to take a hold of an automated task found the
  budget open and has the account locked (`WithinBudget`), and no hold is dated
  after today, so that the turn of the day frees the daily limit.

Theorems: `LedgerKeysMoveOnce`, `HoldsChargedOnce`, `RefundsBounded`,
`HoldsWithinBudget`.

**HarnessRunsProofs.**  A session acts on the status it has read.  `SessionInv`
says how far that reading can be behind the row (`Behind`): a terminal status it
has read is still the status, and what it saw validating is validating or over;
`MessageInv` that a message is about a run that was made.  Together (`RunsInv`)
they are inductive, and every step moves a status along the table or not at all.
The other three properties are not inductive without them. `HoldInv` is
`HoldFollowsOutcome` and that a run has a reservation exactly if it has a row:
without the latter a run could be made beside a settled hold. `ChainInv` says
that all predecessors of a run ended without success, from which the single
charge follows, because such a status is never left and a hold is not settled in
it.  `DrivenInv` names the worker of an active run: it executes the run, and has
read the status the row has now, or has yet to read it; the runs without one are
those whose worker died or lost its last transaction (`lost`). Theorems:
`TypeCorrect`, `EveryMoveLegal`, `HoldSafety`, `ChargedAtMostOnce`,
`ActiveRunIsDriven`.

**PhotonInboundProofs.**  `ClaimInv` is the exclusion: whoever is at the message
holds a claim that is not stale, so that neither a redelivery nor the reaper
hands it out again; a claim becomes stale only when its worker is gone, and this
is what the hard time limit of a task is for (2.8).  `AgentInv` adds that the
event exists before the agent is started, and that an attempt about to start it
is the first. Theorems: `TypeCorrect`, `WorkersExclude`, `AgentRunsAtMostOnce`,
for any number of deliveries, workers, attempts and crashes.

**RuntimeOrdersProofs.**  `RowOK` says what a thread knows of the row it works
on: it is in the journal, in the state that belongs to its place in the pipeline
(`RowAt`), even if others have written since, and past `Place` the venue has the
order (`Placed`).  `JournalOK` says what the rows of
one order say together: nothing but early rows before an early one or a
rejection, and only a cancellation, a fill or UNKNOWN (`Over`) after a pending
cancellation.  This pair is what makes a
late append illegal or its place taken, and so `JournalGrowsLegally`
provable.  `OwnerInv` strengthens `UncertainHasOwner`: the owner is a thread
that wrote or replayed the *latest* row, so that its next append cannot be
refused.  Theorems: `TypeCorrect`, `JournalLegal`, `SentStaysJournaled`,
`UncertainIsOwned`, for any set of commands and any number of restarts.

**GatewayWalletProofs.**  `TypeInv` is the types, what a session remembers at
each step (`JobsTyped`), and that a delivery's event was emitted (`Emitted`).
`Recorded` says that two requests never insert the same row of the request log,
and that every debit's row is committed; without it a second debit under one id
would be swallowed by the ledger's key and an answer stay unpaid.  `Answered` is
`AnswerIsCharged` with the step its request has got to.  For top-ups,
`EventsHeld` says when two deliveries can be at one event (only a refund, which
commits before the event is marked), and `RefundedOnce` that a delivery
which saw a completed top-up is the first to refund it.  From these a key is new
when its entry is written, and `LedgerInv` follows.  Theorems: `WalletTyped`,
`AnswersCharged`, `WalletLedger`.

*Model-checked only*: the liveness properties (`UnknownResolves`,
`SettledOrdersSettle`, `HoldsResolve`, `SessionsEnd`, `ClaimedEnds`,
`PaidIsCredited`), since liveness under fairness is out of the prover's reach,
and the disagreements of section 6.

## 8. Not modelled, and the plan

Not modelled of LIVE trading: cash amounts, prices, average price and fees; NAV
and the price feed; `bind_connection` and its limit of three; several mandates
under one kill switch scope; balances, positions and request signing of the
gateway; the Nautilus adapter.  Hazards in `PROJECT.json` that no property
covers say which of these they wait for.

Not modelled of the credit account: the items under *Credits* in 2.8; entitlements
and plan changes; the order in which the recovery locks several users.

Not modelled of the harness: streaming of events and reading endpoints, which
change nothing.  Of Photon inbound: voice messages, the signature, and the
countdown of a retry, which the claim does not look at.  Of the runtime: real
venues and shadow accounts, strategies and market data, starting and pausing of
runs (`upsert_run` of a strategy step may undo a pause that came in between: to
be stated with them), partial fills.  Of the gateway: manual review, partial
refunds, the turn of the month, provider choice and prices.

Done: `AdmissionGate`, `MandateGate`, `OrderLifecycle`, `LiveOrders`, `Credits`,
`HarnessRuns`, `PhotonInbound`, `RuntimeOrders`, `GatewayWallet`, each with its
proofs.

Hazards known and left to the modules below: the limit of three connections is
counted and inserted without a lock (`control_plane.py:990`); the average price
multiplies the old average by the new quantity (`:560`); trades of an order
canceled before a sync booked them (`:649`), which `FilledIsBooked` shows for
filled ones; a pause reason that a user must not lift is overwritten by a later
one (`:1062`); `release()` of a kill switch answers for any switch of its scope
(`kill_switch.py:87`), of which `MandateGate` has the effect on one mandate; a
running balance under `SUM … FOR UPDATE` (`ledger.py:69`); two recoveries that
lock several accounts in the order of their rows (`credit_service.py:397`).

Next, in this order:

| module | question | instance | theorems |
|---|---|---|---|
| `TradingLedger` | is each execution booked, with its fee, exactly once; is `balance_after` the sum of the entries under concurrent posts; can NAV be compared | 2 writers, 2 fills, small amounts | the running balance, under the lock the code means to take |
| `KillSwitches` | several mandates under one scope: engage and release by id | 2 mandates, 2 requests | no open gate under a switch of another id |
| `ConnectionBinding` | the limit of three under concurrent binds, revocation and rebinding | 2 binders, limit 2 | the limit, if the code keeps it |
| `StrategyRuns` | start, pause and stop of a run against a strategy step, over `RuntimeOrders` | 1 run, 2 threads | a stopped run submits nothing |
| `SchedulerLease` | the Redis lock: one scheduler, renewal, loss | 2 holders | token safety |
| `XInbound`, `Memory`, `Billing` | deduplication and ordering, as in `PhotonInbound` | 2 messages each | as the code allows |

A composition of `MandateGate` with `LiveOrders` is not planned as a run: the
refinement theorem makes it unnecessary for safety.  An abstract specification of
the credit account is next in that line: an escrow in which a reservation is
opened, and charged or returned once, implemented by `Credits`.
