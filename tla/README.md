# Verification project for almondyoung-server

TLA+ models of the parts of this monorepo whose correctness depends on
interleavings, crashes, retries and message order; TLC configurations that
check them on small instances; and TLAPS proofs that hold for every instance.

Contents: 1 the system, 2 the plan, 3 the modules, 4 the runs and their
bounds, 5 fairness, 6 proofs, 7 disagreements between code and documents,
8 what is not modelled.

## 1. The system

The repository is a commerce and logistics platform: a dozen NestJS services,
each with its own Postgres database, that exchange events over Kafka, plus web
and native front ends.

| Part | State it keeps | Operations that matter | Hard behaviour | What makes it correct |
|---|---|---|---|---|
| `libs/events` outbox | `event.outbox_events`: status, retry count, next attempt, lease time | load inside a domain transaction, lease a batch, send, mark, back off, requeue stale leases, resend / discard by hand, clean up | overlapping cron ticks and instances, leases that expire under a slow run, a crash between send and mark, order by transaction start | no event is lost; rows of an order go out in order; nothing is stranded; handled rows stay handled |
| `libs/events` consumption | Kafka offsets, `dead_letters` rows (failed / held / redriven / discarded) | retry, dead-letter, hold the followers of a failed message, redrive, discard | redelivery after a crash, a redrive racing live consumption, failures to record a failure | a message is applied or stays visible; messages of a sequence are applied in order |
| `libs/cron-once` | `cron_runs` rows (name, period) | claim a period, run the body, finish, purge | several instances fire at once, clocks differ, the claimer dies | a period is run at most once; a failing claim never runs the body |
| `wallet` idempotency | `idempotency_keys` (PENDING / SUCCESS / FAILED, hash, expiry) | begin, replay, conflict, complete | concurrent duplicates, expiry while the handler still runs | a handler has its effect once; its response is then replayed |
| `wallet` refunds | `refunds` rows (PENDING / SUCCEEDED / FAILED, AUTO / MANUAL, failure code), the status of the charge | create, dispatch to the gateway, resend rows of unknown outcome, resend stuck rows by cron, close by hand | gateway calls outside transactions, lost answers, a crash in between, concurrent successes | the customer gets no more than he paid; money that left is never written off |
| `wallet` payments | payment intents, charges, point holds, staged approvals, received webhooks | confirm in two phases, approve at once or deferred, webhook, capture, abandon, cancel, expire | provider calls outside transactions, charges overwritten by id, a second attempt during the first, webhooks that cross a cancellation | an intent counts as paid only when the whole amount is; points and money are not left behind or out of sight; nobody pays twice |
| `wallet` billing consumer and CMS | intents of membership charges, `cms_withdrawals` | take a command, order the withdrawal, poll the bank, cancel, expire | repeated and lost commands, a crash between the order and its record, results a day later | a key is sent to the bank once, and its end is announced |
| `core` inventory and boxes | stock ledger, stock events, confirmed reservations, transfer orders, shipments | receive, adjust, count, reverse, ship and receive a transfer; reserve, release, plan, short pick, dispatch, recall, cancel | advisory locks that a caller may claim to hold, row locks taken before them, counts that ignore reservations, reservations released by id | the same goods are not promised twice; what is in transit is what the orders expect; a planned box has its goods |
| `core` sales orders | orders, cancellations, refund legs | accept, cancel, refund | cancellations racing shipment | an order is either shipped or cancelled, and refunded once |
| `membership` | contracts with a claim (`billingInProgress`), entitlements, dunning queue, `billing_events` | claim and publish, handle outcomes, dun, reconcile, cancel, undo, expire | outcomes late, repeated, out of order or never; several schedulers; cancellations in between | a period is drawn once; an extension has a payment; a claim ends |
| `channel-adapter` | channel orders, sync state | import orders, push tracking and stock | duplicates and reordering from channels | each channel order is imported once |
| other services and front ends | user, notification, file, search, analytics, ugc, ai, medusa, web and native apps | CRUD, projections, rendering | mostly I/O | not modelled |

How they interact: a service writes its rows and its outbox rows in one
Postgres transaction; the dispatcher sends the rows to Kafka; consumers in
other services apply each message in an interceptor chain that retries, dead
letters and holds; cron jobs of all services run under `@CronOnce`; front ends
call the services over HTTP, where `wallet` guards its writes with idempotency
keys. `membership` sends a charge as a message to `wallet` and hears of its end by
another, or asks for it over HTTP. Toss calls a webhook of `wallet`; the bank (CMS) is
polled. Within `core`, inventory and fulfilment write the same reservations and
ledger, each in transactions of its own.

## 2. Plan

Done, in this order, the most shared machinery first and then the money:

1. `Outbox`, with `OrderedStream` as its abstract specification, and `OutboxProofs`.
2. `DeadLetter`: consumption of one partition with the failure table and the redriver,
   and `DeadLetterProofs`.
3. `CronOnce` and `CronOnceProofs`.
4. `Refunds`: the refunds of one charge in `wallet`, and `RefundsProofs`.
5. `Idempotency`, with `WriteOnce` as its abstract specification, and `IdempotencyProofs`.
6. `Billing`: one membership contract composed with the consumer of its charges in
   `wallet`, the messages between them and the bank, and `BillingProofs`.
7. `Payments`: one payment intent of `wallet` with the points ledger and Toss, and
   `PaymentsProofs`.
8. `Stock`: one SKU of `core` over two warehouses, with the boxes that reserve it, and
   `StockProofs`.

Next:

9. `Payments`: the bank transfer (virtual account) and its deposits; `Refunds` with a
    second charge, the split between them and the points leg.
10. `Orders` (`core` sales orders): a cancellation racing a shipment; splitting and
    merging of boxes in `Stock`.

Modules that are proved about use recursive functions or folds only.

## 3. The modules

A step of every model is one statement, one transaction or one promise that
settles, as these are the points where another actor can come in between. A
`bounds` tuple holds the counters that keep the models finite; nothing in the
code corresponds to it. Operators named `X_Something` next to a definition `X`
are wrong variants of `X`; they show that the properties notice the mistake.

### Outbox, OrderedStream, MCOutbox, OutboxProofs

`libs/events/src/outbox`. A row is its serial id with one variable per column
(`status`, `retry`, `created`, `agg`, `key`, `due`, `leaseAt`). `created` is the
start time of the inserting transaction, as `created_at` defaults to `now()`, and
differs from the order of commit (`commitAt`, history). Time is a lease clock and
a `threshold`: leases up to it are stale.

| Code | Model |
|---|---|
| domain transaction with `OutboxPublisher.write` | `BeginTx`, `Enqueue`, `Commit`, `Rollback` |
| `dispatchPendingEvents`: `requeueStaleProcessingEvents`, `acquireEventBatch` | `Requeue`, `Acquire` (with `PartitionClear`, `AggregateClear`) |
| `publishAndMark`, `handleFailure` | `SendOk`, `SendFails`, `MarkPublished`, `MarkFails`, `HandleFailure` |
| `OutboxFailuresService` | `RequestResend`, `LeaseFailed`, `ResendFailed`, `Discard` |
| `cleanupOldEvents`, the dispatch gate | `Cleanup`, `SetGate` |
| passing time, faults | `BackoffElapses`, `LeaseExpires`, `LeaseExpiresEarly` (under a run that still works), `Crash` |

`OrderedStream` is what a sequenced topic promises: a loaded event has a set of
events it must not overtake and is delivered when these were delivered or
withdrawn. `ImplementsStream` instantiates it with `loaded`, `delivered` and
`withdrawn` read off the table and the history.

### DeadLetter, MCDeadLetter, DeadLetterProofs

`libs/events/src/interceptors` and `dead-letter`. Messages are offsets of one
partition. A consumer is one incarnation of the consumption loop; `step` says
where each handler is with the loop's message, `opc` where each operator's
redrive is. A row is named by its unique key (handler, message).

| Code | Model |
|---|---|
| `forkJoin` over the handlers, each behind `intercept` | `Deliver`, `Go`, `Advance` |
| `holdIfBlocked` (lock, check, insert) | `Check`, `Hold`, `OnHoldConflict`, `CheckTimesOut` |
| `executeWithRetry`, `handleFinalFailure`, `recordFailure` | `RunOk`, `RunFails`, `RecordFailure`, `Clear`, `DatabaseError` |
| kafkajs: commit, restart, rebalance (external) | `CommitOffsets`, `Throw`, `Crash`, `Rebalance`, `Retire` |
| `redrive`, `discard`, `runSequence`, `dispatchOne` | `Request`, `Lock`, `Busy`, `TakeNext`, `RedriveOk`, `RedriveFails`, `RecordResult`, `ReadResult`, `Discard`, `RedriveStops` |

### CronOnce, MCCronOnce, CronOnceProofs

`libs/cron-once`. Scheduled times are numbers; each instance fires each of them
once by its own clock and goes through the databases: `Fire`, `Claim` (one
statement that purges and inserts), `BodyEnds`, `Finish`, `ClaimFails`,
`FinishFails`, `Crash`. A firing may overlap with the next one. `Timely` states
the assumption the purge relies on: no claim is later than `MaxLag`.

### Refunds, MCRefunds, RefundsProofs

`wallet/src/refunds`, for one charge. A slot is one request, operator click or
run of the cron; `row` is the refund it works on and `pc` where it is. `pg` is
what the gateway knows under the row's idempotency key. `unknown` stands for
`failure_code = PROVIDER_EXCEPTION`, `fresh` and `young` for the two ages the
code compares (30 minutes since the update, 14 days since the creation). `Ages` may
happen to a row at any time, whatever its status and whoever has it in hand; rows get
old in the order in which they were created.

| Code | Model |
|---|---|
| `create` | `CheckCharge` (before the lock), `ResumeOldest` or `Insert` or `Refuse` (transaction) |
| `settleAmbiguousBeforePlan` | `SettleFirst`, `ResumeListed` |
| `dispatch`, the call | `Arrive`, `Reply`, `NoAccount`, `Lose`; `Decide` is the gateway |
| `dispatch`, exception or FAILED | `WriteCode`, then `Fail` (two transactions) |
| `dispatch`, SUCCEEDED, and `confirmManual` | `Succeed` or `ConfirmManual`, then `Commit`: one transaction, split because the sum is read before the commit and only the refund row is locked |
| `dispatch`, PENDING | `MakeManual` |
| `resendStuckAutoPending` | `Resend`, by the slot `Cron` |
| the operator's bank transfer, time, faults | `Transfer`, `GoesStale`, `Ages`, `Crash` |

`blind` is a history variable: it is set where the code knowingly accepts that
money may be promised twice (a MANUAL refund while the outcome of an AUTO row is
unknown, an unknown row older than 14 days) and where an operator transfers an
AUTO row. `NoOverRefund` holds as long as none of these happened.

### Idempotency, WriteOnce, MCIdempotency, IdempotencyProofs

`wallet/src/domain/idempotency`. A request carries a key (the record id: scope, actor
and key of the client) and a body (its hash). `sent` is the time it reads before
its transaction; `Overran` says that its row expired before it stored its end.

| Code | Model |
|---|---|
| `intercept` | `Send`, `HandlerReturns`, `HandlerThrows` |
| `beginRequest` | `FindNothing` then `InsertAndStart` or `InsertCollides`; `Restart`, `Refuse`, `Replay` of a row that exists |
| `completeSuccess`, `completeFailure` (`updateIfPending`) | `CompleteSuccess`, `CompleteFailure` |
| a transaction of the repository fails, the process dies | `CompleteSuccessFails` (goes on to `completeFailure`), `CompleteFailureFails`, `Crash` |

`WriteOnce` promises that a name is given one outcome for good and that who asks is
told that one. `ImplementsWriteOnce` reads the outcome off the rows that are SUCCESS
and what was told off the requests that were replayed one.

### Billing, MCBilling, BillingProofs

`membership/src/services/billing` and the `BillingChargeConsumer` of `wallet`, for one
contract paid by bank withdrawals. Dates count periods; a key is a due date and a
dunning attempt, as in `membership:billing:<contract>:<date>:<attempt>`.

| Code | Model |
|---|---|
| `processDueBillings`, `processDunningQueue`, `retryContractBilling` | `Look` (`FindDue`, `FindDunning`, `RereadContract`, `AskRetry`), `Claim`, `Publish`, `PublishFails`, `BillerDies` |
| `BillingOutcomeHandler`, over `BillingResultConsumer` | `HandleEvent` with `HandleSuccess`, `HandleFailure`, `HandleCanceled`; a failure is read (`ReadForFailure`) and written (`WriteFailure`) in two steps |
| `reconcileStuckBillings` | `Reconcile`, or `ReconcileFindsNone` then `ReleaseLost` |
| `ContractManagementService`, `runExpirationCheck` | `Resign`, `Undo`, `CancelNow`, `SwitchRenewalOff`, `SwitchRenewalOn`, `RevokeAgreement`, `ListExpired`, `HandleExpiration` |
| `onBillingCharge`, the CMS provider | `Reject`, `CreateIntent`, `Repeat`, `CreateCharge`, `WriteAhead`, `AskBank`, `StoreResult`, `ProviderThrows`, `WorkerDies` |
| `CmsSettlementPoller`, `CancelService`, `ExpirationJob` | `Poll`, `CancelIntent`, `Expire`; `BankSettles` is the bank |
| time and transport | `NextDay`, `RetryComesDue`, `ClaimGoesOverdue`, `GoStale`, `LoseMessage` |

The three scales of time (minutes, the half hour of reconciliation, days) are kept
apart by what is at rest: `Quiet` lets a scale move on only when what is
faster has come to an end. `astray` (history) holds keys that somebody gave up or
whose worker died; `raced` says that a failure was written for a contract that had
stopped renewing after it was read; `crossed` that who gave a claim back did so for
another key than the one the claim was of. `DrawnOnce` and `NoDunningOnceEnded` hold but
for them, and `Stranded` names the three states in which the code leaves a claim for
ever (section 7). Claims are bounded by the calendar: none is made for a due date after
the last of `Dates`.

### Payments, MCPayments, PaymentsProofs

`wallet/src/payment-intents` with the points ledger and the Toss webhook, for one
intent. A request works through one operation; `req` is its program counter and what
it has read. `payment` is Toss by order number (a charge's id), `hold` the ledger.
The row lock of the intent is a variable, as `abandon` keeps it over several
transactions of another connection; a transaction which has written a charge and
waits for the intent is a request at `waiting`, whose charge others cannot write
(`RowHeld`).

| Code | Model |
|---|---|
| `ConfirmService.phase1Setup` | `Confirm` (cancels the active charge and a stale points hold), `ConfirmAgain` (the same order once more) |
| `phase2Execute`, `handlePrimaryResult` | `HoldPoints`, `MarkHeld`, `MakePrimary`, `PointsPrimary`, `TossPrimary`, `AskCustomer`, `Refused` |
| `TossApproveService`, `DeferredApprovalService` | `Approve`, `Stage`, `FinalizeDeferred`, `Pay`, `Finish` |
| `TossWebhookService` | `NoticeComes`, `Query`, `Finish` |
| `transitionIntent` that finds the row locked | `Wait` |
| `AutoCaptureService`, `CaptureService` | `CaptureStarts`, `ListLegs`, `CaptureLeg`, `Capture` |
| `AbandonService`, `CancelService`, `ExpirationJob` over `ChargeReleaseService` | `Abandon`, `Cancel`, `FindActive`, `DropActive`, `ListSucceeded`, `UndoLeg`, `CloseIntent` |
| Toss, faults | `WindowExpires`, `Dies` |

Three history variables mark what the code does not protect, and the properties are
stated for the rest. `raced`: a charge was released while another request had it in
hand (or was written while another was about to release it), or a release gave back a
part and the intent did not follow. `dead`: charges whose request died. `lost`: orders
whose webhook was recorded and not carried through, or whose payment was refused
afterwards. Each stands for a fact of section 7, not for a case that is left out: the
model takes these steps and goes on from them.

### Stock, MCStock, StockProofs

`core/src/modules/inventory` and the reservations of `fulfillment`, for one SKU. Each
command is one transaction `tx[t]`: `Start...` locks the rows it is about and keeps
what it reads in them, `AcquireStockLock` takes the advisory locks of its (SKU,
warehouse) pairs in order, `ReadAvailability` reads what is free, and the action named
after the command writes and commits, or `Refuse` rolls back. Between any two of these
other transactions go on.

| Code | Model |
|---|---|
| `acquireStockAvailabilityLocks`, `assertReservationInvariant` | `NextLocks`, `AcquireStockLock`, `ReadAvailability` |
| `StockEventStore.createEvent`, `applyProjection`, `reverseEvent` | `Post`, `Project`, `Reverse` |
| `adjustUp`, `receive`; `adjustDown`; the stocktake and `processDamage`, which pass `bypassReservationGuard` | `AdjustUp`; `AdjustDown`, of kind `adjustDown` or `count` |
| `WarehouseTransferManager` | `ShipOrder`, `ReceiveOrder` |
| `ShipmentReservationService` | `ReservePartial`, `ReleasePartial`, `Transfer`, and, with their callers, `ShortPick`, `Dispatch`, `Recall` |
| `ShipmentPlanningService`, carrier tracking | `Plan`, `Cancel`, `InTransit` |
| `UnifiedReservationService.releaseReservation`, as `DELETE` on a reservation calls it | `ReleaseReservation` |

Abstractions: a box has one line and a fulfilment order of its own; the locations of a
warehouse are one; the rows of a reservation are their sum, of which a release by hand
may take any part; what batches, inbound origins or waybills forbid is a `Refuse` that
may always happen; the locks of the recalculation of sellable quantities are left out.
History: `stripped` is what was released by hand of a planned box, `pulled` what
reversals by hand took out of transit; the two properties that the code promises
without exception (`PlannedIsReserved`, `InTransitIsOwed`) are stated with exactly these.

## 4. The runs and their bounds

| Run | Instance | What it shows |
|---|---|---|
| `outbox_safety` | two overlapping dispatchers, an operator, two rows, a sequenced and a plain aggregate under one partition key, one lease that expires under a working run, one resend | `NoStrandedRow`, `NothingLost`, `PartitionInOrder`, and the refinement `ImplementsStream`, which contains the order of sequenced aggregates |
| `outbox_live` | a dispatcher and an operator, two rows, two tries, a crash, keys, the gate; runs end within their lease | `NoStaleResend`, and `Settles` under fairness |
| `deadletter_safety` | three messages of one order, one handler, two loops, an operator; one crash, rebalance, database error and cut-off redrive | `NothingLost`, `FirstInOrder` |
| `deadletter_live` | one loop, two handlers (one with `@DisableDLQ`), a message without a key between two of an order; a crash and a database error | `RedriveExclusive`, `HeldBehindFailed`, and `PartitionDrains` under fairness |
| `cron_once` | two instances up to a period apart, two databases, three periods, a failing query, a crash; the retention is one period, the smallest the assumption allows | `AtMostOnce`, and `EveryPeriodRuns` under fairness |
| `refunds_safety` | two requests and the cron, a charge of 2 by TOSS or bank transfer, two rows, both of which may get older than 14 days, a lost answer | `NoOverRefund`, `MoneyIsTracked` |
| `refunds_live` | one request and the cron, a charge of 2 by TOSS, two rows, the first of which may get older than 14 days at any time; a lost answer, a crash | `StuckIsResolved` under fairness |
| `idempotency` | three requests, one key, two bodies, a lifetime of 1 within 3, two faults | `RunsAlone`, `OneEffect`, `NoOrphanedKey`, and the refinement `ImplementsWriteOnce` |
| `billing` | two days, one dunning attempt; two incidents (faults, lost messages, acts of people), one of which the second day uses up | `DrawnOnce`, `NoDunningOnceEnded`, `ExtendedOnlyWhenPaid`, and `ClaimsEnd` under fairness |
| `payments_safety` | two requests, six operations, three charges, an intent of 2 of which a composite plan pays 1 with points, one fault | `PaidInFull`, `HoldsAreBacked`, `MoneyIsKnown`, `CanceledIsReleased`, `NotPaidTwice` |
| `payments_wait` | violation of `Serialises`, with two charges and three operations | section 7 |
| `stock_safety` | two warehouses, a transfer order each way (of 2 and of 1), boxes of 1 and 2 at the warehouse that opens with 2, two transactions at a time, one incident (adjustment, count, reversal, recall or release by hand) | `PlannedIsReserved`, `InTransitIsOwed`, `NeverOversold` |

Every passing run also checks the module's `TypeOK` once.

Why the bounds are enough to be of interest. Two rows (messages, refunds) are an
order, and the smallest set in which one can overtake, block or hide the other;
three messages add one that arrives while the first two are being redriven. Two
dispatchers, loops, instances or requests are the smallest race; further ones
only repeat its steps. One fault of each kind is enough to open each recovery
path, and a second lease expiry or crash repeats one. A charge of 2 can be
refunded whole, or in two halves. `refunds_safety` has no crash: without fairness a
slot may stop for good where it is, and what is left for the others is what a dead one
leaves (a transaction that dies before its commit has written nothing, as if its slot had
stopped before it). `refunds_live` has the crash, after which the slot is used again. The retention of one period makes the purge hit
the oldest of three periods. What is proved (section 6) does not depend on
any of these. In `Payments` two requests are enough since a third could only
overtake where a second does; three charges are an attempt with points and Toss and a
later attempt, and six operations are, for instance, two attempts with their
approvals, a webhook and a cancellation. In `Billing` two incidents are the smallest
number for a fault that meets an act of a person, and the second day is that of the period
after the first, so that a charge of the one can meet a claim of the next. In
`Idempotency` the third request is the one that meets the row which the first has
completed under the second. In `Stock` the opening stock is too small for both boxes
and the transfer, which therefore compete; the orders go both ways, so that locks are
wanted in both orders; one incident is the fault that meets the regular commands.

`CHECK_DEADLOCK FALSE` is set where the system may come to rest: when the
partition is consumed and nobody redrives, when all periods have fired, when a
charge is refunded and no refund is open, when all requests are answered, when the
calendar of a contract has ended, when no operation on an intent is left, and when
the boxes have left. The outbox runs check for deadlock.

The safety runs use symmetry where it is sound (dispatchers, request slots, loops,
requests, transactions): no action or property tells the members apart.
No liveness property is checked under symmetry.

## 5. Fairness

Weak fairness only, each conjunct for a thing that happens by itself:

- `Outbox`: every dispatcher is called every five seconds and its promises settle;
  a manual resend that was started goes on; back-offs and leases run out. Not
  fair: loading, commits, requests of operators, the gate, faults.
- `DeadLetter`: kafkajs keeps fetching and committing, handlers and database calls
  settle, a redrive that was started goes on. Not fair: asking for a redrive, faults.
- `CronOnce`: timers fire, queries and bodies end.
- `Idempotency`, `Payments` and `Stock` promise no progress and state no fairness.
- `Refunds`: requests go on once begun, the gateway decides, thirty minutes pass, the
  cron runs every five minutes. Not fair: new requests, operators, faults, the end of
  the 14 days, which may pass at any time. The cron leaves out rows of more than 14
  days (`refunds.service.ts:643`), and a row is stuck only 30 minutes after its last
  update; so the row that gets that old before the cron takes it, in nobody's hands, is not
  promised anything (`Stranded`). All others are: those that stay younger, and those that
  get old while a request or the cron is at work on them. Without `Stranded` TLC refutes
  `StuckIsResolved`.
- `Billing`: claims are published, commands consumed, events handled, withdrawals
  settled, overdue claims reconciled, and intents expire; the steps of the
  schedulers share one conjunct, and those of reconciliation another. Not fair: acts
  of people, the end of a mandate, faults, the calendar. `ClaimsEnd` needs reconciliation (`Reconcile`,
  `ReconcileFindsNone`, `ReleaseLost`), which runs every thirty minutes and goes on to the next contract after an error.

Crashes, lost answers and errors are bounded in number; a liveness property
under unbounded faults would be false.

## 6. Proofs

All theorems hold for every value of the constants that satisfies the named
assumptions, which TLC also evaluates on every run.

`OutboxProofs`, from `OutboxAssumption`. `TypeCorrect`, then `Invariance` of
`IInv == TypeOK /\ RowsOK /\ ListsOK /\ InOrder`. The properties are not
inductive: that nothing is lost needs that a worker's list only holds committed
rows and that a row marked PUBLISHED was sent (`RowsOK`, `ListsOK`), also when
two runs hold the same row; that first sends are in order needs that already a
row which has been leased once was not leased before its predecessors were sent or
withdrawn (`InOrder`), because a late run may send it much later. `NeverStranded`,
`NeverLost`, `SequencedOrder` and `PartitionOrder` follow. `Implementation` maps
each step to a step of `OrderedStream` or a stutter; it rests on `HistoryKept`
(rows keep their aggregate and creation time once committed).

What a late run may undo is the subject of a second invariant, `InTime`: as long as
`late = 0`, that is, no lease has expired under a run that still works, `LeasesOK`,
`Gone` and `Passed` hold, and `Timely` proves this for every instance, late runs
allowed. The leases are the heart of it. A dispatcher has leased its whole list, an
operator only the row it is at, and a list of an operator may name rows that others
work at or have settled since; so `Leased` is not what a worker holds. Leased rows
are PROCESSING under an unexpired lease, and no two workers lease the same one
(`LeasesOK`): every write of `SetStatus`, which looks at no status, then hits a
PROCESSING row (`WriteLeases`). Hence a discarded row stays discarded (`Gone`), and
what comes before a begun row of its sequence stays published, discarded or cleaned up
(`Passed`). `NoStaleSends` concludes `NoStaleResend` for `MaxLate = 0`, which is the
condition the property states: with a late run, the code can send a discarded row.

`CronOnceProofs`, from `CronAssumption` and `TimelyAssumption` (no claim is later
than the retention). `RunsAtMostOnce` and `LogNeverLies` follow from `Invariance`:
what a claim purges is past for every instance (`Past`, `Lag`), a body that was
started leaves a claim in the table until its period is past (`Once`), and whoever
runs a body holds the open claim alone (`Claimed`).

`RefundsProofs`, from `RefundsAssumption`. `NeverWrittenOff` and `SuccessStays`
follow from `Invariance` of `Inv`. That paid money is not written off needs that
a row which is FAILED, or whose slot has written `failure_code` and goes on to fail
it, is *explained*: of unknown outcome, refused by the gateway, or already
succeeded (`SlotKnows`, `RowKnown`); what makes that stable is that a request only
hears what the gateway has decided for good, and that the code is cleared only by
the success. That a success is final needs that an insert never hits a row that
exists (`InOrder`, with the cardinality of the existing rows). `RowsKept` says what
no step takes back about a row, so that one slot's step leaves what the others know
true. `NeverTooMuch` rests on `PromisesFit`: the rows whose money has left or may still
leave (`Promised`: not refused, and PENDING, SUCCEEDED or of unknown outcome) add up to no
more than the charge (`Fits`). An insert keeps that because it takes what is available
and, unless it is blind, meets no row of unknown outcome, which `Available` does not
count; every other step only takes rows out, since a row that is revived was unknown.
That the gateway and the operator pay different rows needs that a MANUAL row was never
sent and is in no slot's hands, which for a bank transfer needs in turn that one slot
at a time has its row (`Paying`). The facts about sums that this uses (a sum is any of its
elements and the rest, grows with its set, splits) are proved of the community modules'
fold: a smallest set that broke one would follow from its subsets, and `WFMin` gives that
smallest set without an operator as a parameter (`Smallest`).

`IdempotencyProofs`, from `IdempotencyAssumption`. `NeverSideBySide`, `EffectOnce`,
`ReplaysAreGenuine`, `NeverOrphaned` and `Implementation` follow from `Invariance`. The
properties are not inductive: a handler whose row has expired may complete the row of
its successor, which then is settled while the successor works. The invariant
therefore says of a row which requests may stand behind it, that a working request
which did not overrun has its own expiry in a PENDING row unless another one overran
or failed, and that who settled a row has the row's key and body and took effect. The
excuse in `RunsAlone` and `OneEffect` is exactly `Overran` or a fault.

`DeadLetterProofs`, from `DeadLetterAssumption`. `Invariance` of
`IInv == TypeOK /\ Working /\ RowsOK /\ NothingSkipped /\ RunsInOrder /\ InOrder`
gives `CommittedNotLost` and `AppliedInOrder`, for any number of loops that overlap in
rebalances. Neither property is inductive. That a committed message is handled needs
that *every* loop has handled what it has moved past (`NothingSkipped`), as the one that
owns the partition next starts from what another committed. That messages are applied in
order needs that whoever runs a handler, loop or operator, has the earlier rows of its
sequence settled (`RunsInOrder`): for a loop, because `holdIfBlocked` found no unresolved
row and what is not in the table was applied; for an operator, because a row that waits
was inserted before the later ones and so has a smaller id (`InOrder`), and the redrive
takes the smallest. `RedriveApart` has the hypothesis `OneLoop`, the case the property is
stated for and the run checks: with two loops a message can be at work twice (section 7).
It rests on `Alone`: while a loop runs a handler, no row of its sequence waits and nobody
redrives one. `HeldNotForgotten` states `HeldBehindFailed` up to the first redrive that
is cut off; it rests on `Locked` and `HeadKnown`, that a sequence has one holder of its
lock, who knows its first row.

`BillingProofs`, from `BillingAssumption` and `KeyAssumption`. `Books` says what the
tables of `wallet`, the bank and the messages know of one key: the bank is asked once per
key since the withdrawal is written ahead of it (`Asking`, `Drawing`), and membership is
told, and records, only how the intent ended (`Told`). `ExtensionsArePaid` follows.
`PeriodsDrawnOnce` needs two more parts. `OneClaim`: a key that may still lead to a
payment (`Live`) is in one place only (a scheduler, a command, an intent, the answer that
none was made), holds the claim of its contract while it is there, and once taken by the
bank no scheduler is under way. `Periods`: a period whose payment is recorded is behind
the contract, every scheduler and the claim. `Standing`, that no date in flight is later
than the end of the entitlement, carries the second. The proof corrected the property:
with a second dunning attempt the late failure of an older key gives back the claim of a
newer one, and the period can be drawn again under the next attempt while that one is at
the bank. A run with one attempt cannot reach this. `crossed` marks it, and the property
holds for every instance until it happens.

`PaymentsProofs`, from `PaymentsAssumption`. `Invariance` of
`IInv == Types /\ Written /\ Redeemed /\ (~raced => Calm)` gives `PointsAreBacked`,
`MoneyKnown` and `CanceledReleased`. `Types` says where each operation can be and what it
carries. `Written` holds whatever is raced: one charge is active at most, an attempt has
its charges to itself, nothing is paid before a charge waits for the customer, and an
order that was received as paid was paid. `Redeemed` says that points are redeemed only
after the intent was authorized. `Calm` is what the properties need and a race breaks:
points that are held belong to a charge that succeeded or to the one attempt that is
about to say so (`Backed`); money is on record, flagged, to be notified or carried by a
webhook (`Known`); a charge that failed was not paid and its window is closed (`Failed`),
or a late webhook would pass over a deposit. These are stable because of what each
request counts on between two of its steps (`Stands`): an attempt is alone, has the intent
PROCESSING and its charge untouched; who decides finds the charge waiting or succeeded;
a release that has listed the charges has every attempt's charge among them, so that a
later step of the two shows as a race. `OthersStand` proves once that a step which moves
charges by the rules of `Moved` leaves what the other requests count on; each action is
then shown to be such a step.

The two properties about sums rest on a second invariant over the first,
`PaymentsExact` of `PaidInv == ~raced => Exact`. Neither is inductive, for what is due is
collected over several attempts, each of which may leave something behind. `Due` says
what: until the intent is paid, the points of one composite attempt at most and one
active charge, which is for the rest if there are points and for everything if there are
none (`Asks`); from then on the *whole*, one charge of the full amount or the two of a
composite plan, of which a release may have given back a part. `Price` is what an attempt
that is under way will ask for. `PaidInFull` is then the sum of a whole (`WholeSum`).
For `NotPaidTwice` three more parts say that an order which Toss has paid is the active
charge or one that succeeded, and so one of those two: with deferred approval a charge is
staged, decided and recorded by its own order only (`Own`); a paid order has its charge
recorded, or waiting for the request that is about to record it (`Settling`), which could
fail if the intent were open again while the customer was asked, and it is not
(`Unasked`). Without deferred approval `Own` is false, and so is the property: the window
of an earlier attempt can be approved for the charge of a later one. No induction over
the fold is needed, as these sums have at most two summands (`SumOfFew`).

`StockProofs`, from `StockAssumption` and, for the quantities, `OutsideAssumption` (the
outside world is no cell of the ledger). `PlannedBoxesAreReserved` follows from
`Invariance` of `IInv == Shapes /\ RowsHeld /\ Exclusive /\ PlannedOK`. That a planned
box has its reservations needs that a command which takes some of them away holds the
row of the box, alone (`Exclusive`), and, where it leaves the status as it is, that the
box was a draft when it started and still is (`RowsHeld`): `plan` waits for the row.
The stock and its advisory locks play no part in it.

What is said of quantities rests on these locks, and on a second invariant over the first:
`StockInvariance` of `QInv == Numbers /\ InTransitIsOwed /\ Apart /\ AtWork` gives
`StockTyped`, `InTransitStaysOwed` and `NothingPromisedTwice`. A lock is held by one
transaction (`Apart`). Of a command at work `AtWork` says that what it read in the rows it
locked is still in them (`Meant`: a draft order, what an order still expects, what a box
has reserved), that once it has read what is free it holds all its locks (`Locked`), and
that no more is free by its own reading than there is (`Fits`). The last is the heart of
it: what another one may do meanwhile, adding stock or giving up reservations, only
makes more free. Each commit is therefore shown to have an `Effect`: it keeps the books,
writes only rows it holds, and takes of what is free only in a warehouse whose lock it
holds, and no more than there is, unless it is a count (`Spares`). `EndRelies` proves once
that such a commit leaves what the others count on. A reversal and the release by hand are
the hard cases: the first takes back an event of any age, the second needs no stock lock.
Nothing here limits how many warehouses, boxes, orders or transactions there are. What is
reserved and what is owed are sums of the community modules' fold, with the lemmas about
sums that `RefundsProofs` has, and one more: when one element of a sum moves, the sum moves
by as much.

Only model-checked: all liveness properties (fairness is out of the prover's
reach). `SuccessStays`, `LogNeverLies` and `ReplaysAreGenuine` are proved and in no
run.

## 7. Disagreements between code and documents, and what the models found

As a run:

- `payments_wait`: the comment at `abandon.service.ts:33` says that an abandonment
  serialises after a webhook or confirmation that is under way. It locks the intent in
  a transaction of its own and then has the active charge cancelled on another
  connection (`charge-release.service.ts:51`). A confirmation or webhook that has
  written that charge and wants the intent waits for the abandonment, and the
  abandonment for it. The database sees no cycle, as the abandonment's own
  transaction is idle, and sets no lock timeout.

Read in the code while modelling; each is part of the model, and the properties
are stated with it:

- Outbox. `outbox.types.ts:23` says that rows of a partition key are published in the
  order they were loaded; `created_at` is the start of the transaction, so a long
  transaction's row sorts before one committed earlier (hence `Precedes`). The comment
  at `outbox-dispatcher.service.ts:123` says that overlapping ticks cannot take the same
  row; a batch that takes longer than the lease timeout is taken again by the next tick.
- DeadLetter. Live consumption competes with itself when one handler of a message
  throws while another still runs: the message comes again meanwhile.
- Refunds. Two partial refunds that succeed at once do not see each other, so a
  covered charge is not marked REFUNDED (`refunds.service.ts:302`). An AUTO row of a
  bank transfer is offered to the operator while the gateway has it
  (`manual-confirmable.ts:6`); if he transfers the money it may leave twice. A row of
  unknown outcome may be revived until it is 14 days old (`refunds.service.ts:364`,
  `:394`). When the process then dies, the row is stuck 30 minutes later (`:632`), and too
  old for the cron by then (`:643`). It stays PENDING for ever: a TOSS row cannot be
  confirmed by hand, `ambiguousWhere` asks for FAILED, its amount stays unavailable,
  and it counts as in progress for the settlement with Medusa (comment at `:625`).
- Idempotency. A handler that outlives the expiry completes the row of its successor.
  When a success cannot be stored the same chain stores a failure, which is replayed
  although the effect has happened.
- Billing. An intent left PROCESSING by a crash is made FAILED by a repeated command
  though its withdrawal is at the bank; without a repetition, each poll of that
  withdrawal fails as a whole. The end of a mandate deletes the withdrawal and leaves
  its intent PENDING_SETTLEMENT. A contract claimed again under a key whose outcome is
  recorded is never released. The dunning list reads the contract again and bills the
  next period with the old attempt. Switching renewal off leaves the dunning row. A
  failure read before the contract stops renewing duns it afterwards
  (`billing-outcome.handler.ts:173`).
  Whoever gives a claim back (`billing-outcome.handler.ts:253`) does not compare its key: the late outcome
  of an earlier attempt frees the contract while a newer key is at work, and the next
  attempt draws the period again.
- Payments. A second confirmation cancels the active charge and the points of a first
  one that is still with its provider (`confirm.service.ts:113`). Charges are given back
  one by one; a refusal or a crash half way leaves an intent that is paid in part
  (`charge-release.service.ts:66`). Staging an approval writes REQUIRES_ACTION over a charge that SUCCEEDED in
  the meantime. A webhook that throws after it was recorded is not carried out when it
  comes again. A second approval after a crash is refused by Toss and fails the charge;
  the webhook then finds a FAILED charge and passes over it. In immediate mode a window
  of an earlier attempt can still be approved for the later one. A confirmation that
  rolls back has already released the points of the earlier attempt. A points charge
  still CREATED whose hold exists is cancelled in the database only. A late failure
  sets the intent back under a later attempt.

- Stock. The comment at `short-pick-exit.service.ts:95` says that the confirmed
  reservations of a planned box are its quantity. A reservation can be released by its
  id whatever its box is (`reservation.controller.ts:54`): a planned box that lost one
  can be neither dispatched (the quantities differ) nor cancelled (the invariant is
  asserted first). A transfer event can be reversed by hand, after which its order
  expects goods that are not in transit. Counts and damage reports leave reservations
  that the stock does not cover, with a warning.

## 8. What is not modelled

Of the modelled parts: metrics, listings and query APIs, tenant stamping, the cron
expression parser and registration, the old `.dlq` topic, request-reply messages; of
refunds the split over several charges, points and NICEPAY charges, refund requests
and their approval, cash receipts and the membership guard; of billing the invoice
path, TOSS billing keys, pauses, new subscriptions and notices; of payments the bank
transfer and its deposits, amounts of zero, NICEPAY and billing keys, events; of the
points ledger the lots and the balances of several intents; of `core` stock the
locations, inbound plans and purchase orders, returns, quarantine, batches and picking,
waybills, the splitting and merging of boxes, and replay by idempotency key.

Of the rest of the repository: see `components` in `PROJECT.json`. `core` sales
orders hold further logic of this kind and are planned. Front ends, the
Medusa customisation, notification, file, search, analytics, ugc and ai services and
the packages are I/O, rendering or type declarations.
