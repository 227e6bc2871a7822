# Verification of the practice backend

TLA+ models of the backend in `src/`, TLC configurations that model-check them,
and TLAPS proofs.  Paths below are relative to `src/src/` unless they say otherwise.

## 1. The system

A Node.js service (Hono HTTP handlers, a graphile-worker process, PostgreSQL
through drizzle, Stripe Connect) with which a law practice takes in clients,
opens matters, sends invoices, holds client money in trust and pays refunds.
Any number of HTTP and worker processes run the same code against one database;
nothing is kept in memory between requests.  All coordination is therefore in
the database (row conditions in `UPDATE ... WHERE status = ...`, `FOR UPDATE`,
advisory locks, unique indexes), in Stripe (idempotency keys) and in the job
queue (job keys, retries).

| component | state | operations | interacts with |
|---|---|---|---|
| trust ledger (`modules/trust`, `engines/financial/retainer-payment-flow.ts`) | `trust_transactions`, `matters.retainer_balance` | deposit, withdrawal, sync of the cached balance, low-balance alert | invoice payment and refunds write the cache; events |
| refund requests (`modules/invoices/services/refund-requests.service.ts`, `engines/financial/refund-*.ts`, `workers/tasks/process-refund-reconciliation.ts`) | `refund_requests`, `billing_transactions` | create, cancel, review, execute, reconcile | Stripe refunds, trust cache, metered fees, queue |
| invoice life cycle (`modules/invoices/services/invoice*.ts`) | `invoices.status`, `stripe_invoice_id` | create, update, send, roll back, void, sync, delete, reconcile | Stripe invoices and webhooks, queue, events |
| invoice payment (`workers/tasks/process-invoice-payment.ts`, `engines/financial`) | `invoices`, `billing_transactions`, trust ledger | transfer, record, deposit, emit InvoicePaid | Stripe transfers, outbox |
| event outbox (`shared/events`) | `events`, `events_dead_letter` | dispatch (three modes), batch and single processing, dead letter | every module; queue |
| webhook inbox (`modules/webhooks`, `shared/repositories/stripe.webhook-events.repository.ts`) | `webhook_events` | store, enqueue, process, mark, retry | Stripe, queue, services |
| unit of work (`shared/database/uow.ts`) | open transaction, after-commit callbacks | begin/join, commit, roll back | every service |
| job queue (`shared/queue`, graphile-worker) | jobs with keys and attempts | add, replace by key, retry | workers |
| client intakes (`modules/practice-client-intakes`) | `practice_client_intakes` | create, checkout, triage, convert, webhooks | Stripe checkout, contracts, matters, clients |
| clients (`modules/clients`) | `clients` | create, delete, link to an intake | events of intakes |
| engagement contracts (`modules/engagement-contracts`) | `engagement_contracts` | create, send, accept, decline | matters, intakes |
| subscriptions (`modules/subscriptions`) | `subscriptions`, `organizations.active_subscription_id`, subscription events | checkout, sync, race resolution, cancel, metering | Stripe checkout and webhooks, outbox |
| uploads (`shared/uploads`) | uploads | presign, confirm, delete, restore | object storage |
| matters (`modules/matters`) | matters, tasks, milestones, time entries, expenses | CRUD, status, unbilled work | invoices mark the work |
| onboarding, payouts (`modules/onboarding`, `modules/payouts`) | connected accounts | account webhooks | Stripe |
| practice, preferences, conversations, templates, MCP, public pages, auth, rate limiting | their tables | CRUD, lookups, formatting | |

Behaviours that are hard to test and that the models aim at: two requests on one
row; a status read in one transaction and acted on in another; a call to Stripe
between two transactions, whose reply may be lost; a process that dies at any
step; jobs and webhooks that run again, late or beside each other; retries that
run out.

## 2. Modules

| module | models | extends |
|---|---|---|
| `TrustLedger` | trust ledger and the cached balance | |
| `RefundContract` | what refunds promise (abstract) | |
| `RefundedPayment` | the paid invoice of the next two: requests and payment | |
| `RefundRequests` | refund requests of one invoice | `RefundedPayment`; implements `RefundContract` |
| `PayoutFeeCredit` | the fees given back by refunds (abstract: one after another) | `RefundedPayment` |
| `RefundBilling` | refund requests with their billing rows | `RefundRequests`, `PayoutFeeCredit`; implements `RowsSpec` of `PayoutFeeCredit` |
| `InvoiceLifecycle` | one invoice and its Stripe invoices | |
| `JobQueue` | Graphile Worker's jobs with keys | |
| `WebhookInbox` | storing and processing a Stripe event | `JobQueue` |
| `EventOutbox` | events, their processing and dead letters | `JobQueue` |
| `PaymentPipeline` | a payment from Stripe to the books | `WebhookInbox`, `EventOutbox` |
| `ClientDirectory` | the row of one user in a practice's clients | |
| `IntakeConversion` | one intake: payment, triage, contracts, matters | `ClientDirectory` |
| `SubscriptionPointer` | which subscription entitles a practice | |
| `MatterBilling` | how invoices charge for and mark work | |

`MC*` modules name model values and symmetry, `*Proofs` hold the theorems;
`Sums` has the lemmas about sums over finite sets that `RefundProofs` uses.
Every definition is mapped to its source lines in `PROJECT.json`.  Definitions
whose comment begins with "Mutant" are variants of the one that follows; they
are not part of the models and show what each property would catch.

In all modules a step is what another process can see: one database transaction
(or one statement, where the transaction does not hold a lock that hides it) or
one call to an outside system.  A call that can be lost has two outcomes, with
its effect and without.

### TrustLedger

`tx[r]` is the database transaction of request `r`: `open` after BEGIN, `read`
once it holds the advisory lock and has read the newest balance
(`trust.service.ts`), then `committed` or `aborted`.  `ledger` is
`trust_transactions` in commit order; a row's `created_at` is the *start* of its
transaction, as PostgreSQL's `now()` is.  `retainer` is `matters.retainer_balance`.
A refund writes the cache without lock and without ledger row
(`refund-engine.ts`).  A retainer payment can never commit: it writes
`created_by = 'webhook'` into a uuid column.  An account is a client, or a client and a
matter, as the request names them; nothing keeps two accounts from sharing a matter and
so its cache.  `refunded` is a history variable: the matters whose cache a refund wrote last.

Simplified: one organisation; a request runs once; the lock time-out may come at
any moment the lock is taken.

### RefundRequests, RefundContract

`status` is `refund_requests.status`; every change is `UPDATE ... WHERE status`.
`exec[e]` is an HTTP request inside `executeRefund`: claimed, balance checked
under the row lock, money returned, persisted, announced.  `creating` holds the
transactions that have the invoice row FOR UPDATE.  `returned` is Stripe's
memory by idempotency key; Stripe's own cap on refunds is deliberately left out,
so that only the code keeps the sum within the payment.  `intent` is the payment
intent, which a full refund of the same day may cancel instead of refunding.
Nothing in the code fills `invoices.stripe_payment_intent_id`: runs with an intent
assume that something else does, and `refund_settle` has the intent the code leaves, none,
beside it.  Reconciliation jobs come from the executor or from an operator; one whose last
attempt throws is given up (`JobGivenUp`, which may come at any throw), and one that cannot
be queued is lost.  Two history variables say what happened to a request: `hidden`, that Stripe
paid back and denied it; `abandoned`, that the statement that was to end its claim failed or
was never reached.

Simplified: keys never expire; request parameters are not compared by Stripe; the
billing row that goes with `executed` is in `RefundBilling`, the retainer balance in
`TrustLedger`.

### PayoutFeeCredit, RefundBilling

`PayoutFeeCredit` is the arithmetic of `refund-engine.ts`, refunds booked one after
another and within the payment: the share of the payout fee is rounded on the
cumulative refund.

`RefundBilling` shows that the running workflow is like that.  Its `rows` are the
`billing_transactions` of type refund.  Each step of `RefundRequests` that makes a request
`executed`, by an executor or by the reconciliation, inserts the row in the same step, as
`persistExecutedRefund` does in one transaction.  The payout credit is computed from the
rows, the invoice fee from the *requests* that are executed, as in the code; that the two
agree is part of what is shown.  Without a Stripe account to pay from (`Destination` false)
the code inserts no row.

### InvoiceLifecycle

`row` is the invoice, `stripe` every invoice Stripe has made for it, `keys` what
Stripe remembers under the idempotency keys, which are made of the invoice id
alone and therefore shared by all attempts.  `op[p]` is an HTTP request between
two steps of send (create, attach, finalize, send, persist, mark, roll back, void),
void, edit, PATCH of the status, sync or delete.  `inbox`, `payments` and
`voidJobs` are webhooks and jobs under way, in any order and any number of times; a void
reconciliation carries the attempts it has left, throws what Stripe or the database throws,
and stays as it is when they are used up.  A PATCH sets any of `ManualStatuses` in any status of
the row, `draft` in the middle of a send included; `reopened` is the history of that.

Simplified: the lock's read and its compare-and-set are one step, since the
condition of the `UPDATE` repeats the check, and so are void's and those of the
reconciliation (which may void twice, harmlessly); the items of an edition are
attached together; a failing customer set-up counts as a failing create; a
webhook's find and update are one step; a PATCH changes items or status, not both;
amounts are left out.

### JobQueue, WebhookInbox, EventOutbox, PaymentPipeline

A worker `w` runs one task at a time; `at[w]` is its next step, `count[w]` a retry
count it read and has not yet used, `handling[w]` the outbox event it works on.
`jobs[k]` is the job of a key; adding it again replaces it, and when a worker is
running it that worker's run is *superseded*: it goes on, but its failure is not
retried.  This is Graphile Worker's documented behaviour, modelled as an external
component.

The payment goes: Stripe's request stores `webhook_events` and queues a job
(`http.ts`); the task runs `handleInvoicePaid`, which stores
`InvoiceStripePaymentReceived`, and marks the row; the outbox task reads that event
without a lock, its listener queues `process-invoice-payment`, which transfers at
Stripe and then, in one transaction, books the payout and stores `InvoicePaid`;
its listener queues two metered fees.

Simplified: one Stripe event for one invoice whose row is linked; a batch of the
outbox is several workers, one per event, each with its own earlier read; the claim
of a webhook job and the read of its row are one step; the job ends with
`markProcessed`, after which the task only logs; a failing handler's retry counts
once (for onboarding and intake events, which are not modelled, two layers count
it); `next_retry_at` may always have passed; fire-and-forget dispatch, other
event types and amounts are left out, so the payout fee is taken to be positive;
the `RetainerLowBalance` event after a deposit is unreachable, as the deposit throws.

### ClientDirectory, IntakeConversion

`intake` is the row: the status of its payment, whether it is free, its triage.
`intents` are Stripe's payment intents of the payment link and of checkout sessions
beside it; `inbox` holds what their webhooks tell, in any order and any number of times
(`webhooks.ts`).  `op[r]` is a request or webhook between what it has read and the
transaction that uses it: a success between its read, the transaction that settles the
intake and the fee reported after it; a completed session; a conversion; the creation,
sending, acceptance and declining of a contract (`engagement-contract.service.ts`).
`matters[m]` says what matter `m` was made from.  `announced` counts the
`IntakePaymentSucceeded` events, `decided` remembers that staff have once accepted the
intake: the `IntakeTriaged` event of it then starts a link of the `clients` row,
`linking` (`clients-crud.service.ts`), which looks for the row and writes later; so does
the `IntakePaymentSucceeded` event (`clients/listeners.ts`), whether or not it was accepted.

`ClientDirectory` stands beside it since every intake of the user shares its row; its
`Find`, `LinkRow` and `CreateLinked` are composed with staff who create and delete.

Simplified: a triage event is never lost; runs of a link that would write the same
again, or end in a conflict, are left out; edits of a contract's text, memberships,
soft-deleted matters and the amount of the fee are left out.  A matter that staff create
by hand naming an intake (`createMatter`, `matters.service.ts`) is left out, too: `MattersEarned` is about
conversions and contracts.

### SubscriptionPointer

`pointer` is `organizations.active_subscription_id`, `rows` the status of each
subscription row, `stripe` Stripe's side of it.  `requests[r]` is
`createCheckoutSession` between its guard, its look for an incomplete row, the insert
and the session; `jobs[j]` is `syncSubscriptionToOrg` (`subscription-lifecycle.service.ts`)
between its unlocked read of the pointer and of the subscription, the transaction, and
what follows it: the cancellation at Stripe of the one that has lost, and
`SubscriptionCreated`.  `Updated` and `Deleted` are single transactions that look at the
row they change.  `before[s]` is what had started at Stripe when row `s` was inserted,
for the comparison of Stripe's clock with the database's; `audited` are the rows with a
`created` subscription event.  Any event may come late, again, or never.

Simplified: one practice and one plan; one Stripe subscription for each row; the calls
that follow the transaction are one step; metered prices, seats and line items are left
out, and so is a row that is deleted between the look and the `UPDATE` of one webhook.
How a subscription starts and what Stripe makes of it later are constants (`Initial`,
`Changes`).

### MatterBilling

`work` holds time entries, expenses and milestones with their `invoice_id`, `invoices`
the rows with the number and the work each charges for.  `op[r]` is a request of
`createInvoice`, `deleteInvoice` or `voidInvoice` between its checks and its transaction.
`Persist` inserts the invoice and marks its work in one transaction, or is refused
by the unique index of the numbers (`invoice-creation.helpers.ts`); `Offered` is what
`getMatterUnbilled` answers.  Time entries are recorded and offered, but no invoice is
created with one (`EntriesRefused`, section 5), so what is charged are expenses and milestones.

Simplified: one matter; the statuses of an invoice are the four this module's guards
tell apart, and any of them may be set at any time, as sending, paying and
webhooks (modelled in `InvoiceLifecycle`) and the PATCH of the status can.

## 3. Runs

| run | shows | bounds |
|---|---|---|
| `trust_ledger` | the balance read under the lock stays the newest; whenever transactions commit in start order rows are a running balance and the newest one is all the money there is; nothing goes negative; the cache of a matter is the newest balance of one of its accounts and low ones are alerted, but for a refund until the next deposit or withdrawal | two accounts on one matter, four requests of any kind, amounts 0 to 2 |
| `trust_overdraw` | *violation*: transactions that waited for the lock hide newer rows, and an account pays out more than it has | deposits and withdrawals only |
| `refund_faults` | one open request, reservations and refunds within the payment (`NeverOverRefunded`), books only for money returned, money moves only under a claim, and the workflow implements `RefundContract` | three requests, two executors, payment of 3, all faults but the two in which Stripe denies having paid back, with which the sums do not hold (section 5) |
| `refund_settle` | money given back stays with a reserved request, or a failed one where Stripe denied it; a claim ends unless its executor died or lost the statement that was to end it | two requests, two executors, every fault, with and without a payment intent |
| `fee_credit` | the billing rows of the running workflow come about as `PayoutFeeCredit` says, credits add up without drift, the invoice fee is credited once, and a rebuilt payload agrees with the row | `RefundBilling`: four requests, one executor, payment of 7, fee of 5, failing statements, reconciliation at any moment |
| `invoice_faults` | one sender until a user sets `draft` under it, only finalized invoices are linked, paid means paid, one bill, only a send that gives up or a user returns it to draft | two requests, two Stripe invoices, two editions, every fault, users set any status |
| `invoice_settle` | a send ends; what a queued reconciliation is to void does not stay payable, unless every attempt has failed | two requests, one Stripe invoice, two attempts, every fault, users set `draft` and `cancelled` |
| `payment_pipeline` | custody of an acknowledged payment, fees follow, books have money and miss no transfer of a fee but by a fault; everything ends in the books or with an operator | two workers, two faults or redeliveries, two attempts, two retries |
| `payment_retransfer` | *violation*: money is transferred twice: a fee when two workers have read its event before either marks it, a retainer deposit at every attempt | no fault |
| `intake_conversion` | an intake is complete only when paid or free and announced exactly once; matters only after an acceptance; one signed contract with a matter of its own; a settled payment and a linked client stay | one of two intakes, two payment intents, contracts and matters, two requests or webhooks at a time |
| `subscription_pointer` | `SubscriptionCreated` once; the pointer is lost only with what it names, and moves only to a subscription Stripe has started and can be told to cancel | two subscriptions, one request, two jobs; payments that fail for good; any number of deliveries |
| `matter_billing` | work an invoice in force charges for is not offered again; marks come only with invoices | an expense, a milestone and a time entry, two invoices, one number, two requests |

Why these bounds are enough to meet the interesting cases: two requests or workers
are enough for every race in the code, since each races for one row, one lock or one
key, and a third only repeats the part of either; three refund requests let one be
open, one executed and one fail.  A payment of 3 with amounts up to 4 has full,
partial and excessive refunds; 7 and 5 are coprime, so that rounding differs at
every step.  Two of the attempts of each kind suffice for "a retry" and "the last
one"; the code has 5 (`MAX_RETRIES`, `WEBHOOK_MAX_RETRIES`) and 3 (`max_retries`).
Two faults let a recovery fail.  Two intents are a payment link and a session beside it; two
contracts, matters, invoices or subscriptions are the one in force and its rival.  `MaxFaults` counts crashes, failing calls, boots that
scan for retries and redeliveries; without it the outbox grows for ever.
The theorems below hold without any of these bounds.

Deadlock is not checked: every system here ends when its requests are served and
nobody begins anything new.

Symmetry is used only in runs without liveness properties.

### Fairness

* `RefundRequests`: a request being served goes on (`Proceed`), the worker runs its
  jobs; nobody has to create, review, cancel, or execute what is approved.  That an approved
  refund is ever settled would need a practice that keeps asking and an invoice with a payment
  intent; the code provides neither, and no property says it.
* `InvoiceLifecycle`: requests go on, webhooks and jobs are delivered (Stripe repeats
  webhooks for three days, the queue retries), a void reconciliation as long as it has
  attempts left; nobody has to begin, pay or void.
* `PaymentPipeline`: each worker goes on working (`Work`): Graphile Worker polls, and
  cron starts the outbox task every minute (`event.worker.ts`).  No fairness for
  Stripe's requests or boots: properties begin with an acknowledged event.
* The other modules state safety only, without fairness: their clients, staff and Stripe need
  not do anything, and what the code loses when it dies it does not take up again (section 5).

## 4. Proofs

| theorem | states | rests on |
|---|---|---|
| `TrustLedger` `TypeCorrect` | `TypeOK` | itself |
| `TrustLedger` `ReadsStayNewest` | `ReadStillNewest` | `LedgerInv`: `LockExclusive` |
| `TrustLedger` `RunningBalances` | `RunningBalanceWhenOrdered` | `RunningInv`: `LedgerInv`, lemmas `AppendRuns`, `FundsAppend`, `NewestIsOne`, `Sums` |
| `TrustLedger` `SolventWhenOrdered` | an account is overdrawn only after commits out of start order | `RunningBalances`, `MoneyInv` |
| `TrustLedger` `NoNegativeBalance` | `BalancesNonNegative` | `MoneyInv`: a reader that withdraws is solvent |
| `TrustLedger` `CacheMatches` | `CacheMatchesLedger` | `LedgerInv`: a commit writes the newest balance of its own account |
| `RefundRequests` `TypeCorrect` | `TypeOK` | itself |
| `RefundRequests` `OneOpen` | `OneOpenRequest` | `OpenInv`: the row lock |
| `RefundRequests` `ExecutedIsReturned` | `ExecutedMeansReturned` | `BookInv`: claims, keys, money |
| `RefundRequests` `MoneyUnderClaim` | `MoneyMovesUnderClaim` | `BookInv` |
| `RefundRequests` `ReturnedStaysReserved` | `ReturnedIsReserved` | `KeptInv`: what `hidden` remembers, with `BookInv` |
| `RefundRequests` `ReservedWithinPayment` | reservations stay within the payment | `ReserveInv`, `Sums` |
| `RefundRequests` `NeverOver` | `NeverOverRefunded` | the two above, `NothingHidden`, `SumMonotone`; `HonestStripe` |
| `RefundRequests` `ExecutingIsHeld` | a request that is `executing` is some executor's to settle, or was abandoned by one (`ClaimHeld`) | itself |
| `RefundRequests` `ContractKept` | `KeepsContract`: implements `RefundContract` | `NeverOver`, `BookInv`; `HonestStripe` |
| `PayoutFeeCredit` `CreditCompletesShare` | operators of the module | `RoundedMonotone`, `RoundedOfPaid` |
| `PayoutFeeCredit` `WholeFeeCredited` | operators of the module | `RoundedOfPaid` |
| `PayoutFeeCredit` `LastRefundTakesTheRest` | operators of the module | `EntitledMonotone` |
| `PayoutFeeCredit` `FeeTypeCorrect` | `RowsTypeOK` | `FeeInv` |
| `PayoutFeeCredit` `CreditsAddUpAlways` | `CreditsAddUp` | `FeeInv`: exact so far, within the payment |
| `PayoutFeeCredit` `RebuildAgreesAlways` | `RebuildAgrees` | `FeeInv`, `SumSplit` |
| `RefundBilling` `RowsKeepContract` | `KeepsRows`: implements `PayoutFeeCredit` | `BilledInv`: `ReserveInv`, `RowsMatch` |
| `RefundBilling` `WorkflowCreditsExactly` | `CreditsAddUp`, `RebuildAgrees` of the workflow's rows | `RowsKeepContract` |
| `RefundBilling` `FullRefundCreditsFee` | a payment refunded in full gives back the whole fee | `BilledInv`, `FeeInv`, `WholeFeeCredited` |
| `InvoiceLifecycle` `TypeCorrect` | `TypeOK` | `Located`: which fields a step of a request has |
| `InvoiceLifecycle` `LinkedIsFinalizedAlways` | `LinkedIsFinalized` | `KeyInv` |
| `InvoiceLifecycle` `BilledOnceAlways` | `BilledOnce` | `KeyInv` |
| `InvoiceLifecycle` `OneSenderAlways` | `OneSender` | `SendInv` |
| `InvoiceLifecycle` `BackToDraftAlways` | `BackToDraft` | `SendInv` |
| `InvoiceLifecycle` `SendingIsHeld` | a row that is `sending` is being sent by a request | `HeldInv`, `KeyInv`; no crash, no failed transaction |
| `InvoiceLifecycle` `PaidMeansMoneyAlways` | `PaidMeansMoney` | `MoneyInv` |
| `PaymentPipeline` `TypeCorrect` | `TypeOK` | `JobsLeft`: a waiting job has an attempt left |
| `PaymentPipeline` `CustodyAlways` | `Custody` | `ClaimInv`, `CustodyInv` |
| `PaymentPipeline` `FeesFollowAlways` | `FeesFollow` | `FeesInv` |
| `PaymentPipeline` `BooksHaveMoneyAlways` | `BooksHaveMoney` | `MoneyInv`; `LossIsFault` |
| `PaymentPipeline` `NothingLeftBehind` | when the workers have nothing to do, everything is booked or an operator's | `Handover`, the two theorems before; `OpenIsDueOrDead` |
| `IntakeConversion` `TypeCorrect` | `TypeOK` | `Core`, `LinkInv` |
| `IntakeConversion` `PaidAndToldAlways` | `PaidAndTold` | `Core`: `PayInv`, `Seen` |
| `IntakeConversion` `MattersEarnedAlways` | `MattersEarned` | `Core`: `MatterInv`, `Seen` |
| `IntakeConversion` `OneSignatureAlways` | `OneSignature` | `Core`: `Seen` |
| `IntakeConversion` `SettledStaysAlways` | `SettledStays` | `Core` |
| `IntakeConversion` `LinkKeptAlways` | `LinkKept` | `LinkInv` |
| `SubscriptionPointer` `TypeCorrect` | `TypeOK` | `Inv` |
| `SubscriptionPointer` `AnnouncedOnceAlways` | `AnnouncedOnce` | `Inv`: `Told` |
| `SubscriptionPointer` `PointerHeldAlways` | `PointerHeld` | `Inv`: `Begun` |
| `MatterBilling` `TypeCorrect` | `TypeOK` | `Billed` |
| `MatterBilling` `NotOfferedAgainAlways` | `NotOfferedAgain` | `Billed`: `ChargesMarked` |
| `MatterBilling` `MarkedByChargeAlways` | `MarkedByCharge` | `Billed`: `Recorded` |

TLAPS proves these for any number of requests, workers, attempts, faults and rows, from the
named assumptions about constants in each module.  The arguments:

* **TrustLedger.**  A request in `read` holds the lock of its account, and a row of an
  account is inserted only by a request that holds it: `LockExclusive` (two holders of one
  account are one request) carries the balance read to the insert.  `RunningBalances`
  adds that, while commits kept the order of the starts, the last row is the newest,
  and that a row adds to the sum of the rows what it adds to the newest balance
  (`FundsAppend`); `NoNegativeBalance` that a withdrawal under way has read enough.
  Together they give `SolventWhenOrdered`: what `trust_overdraw` shows has no other cause.
* **TrustLedger, the cache.**  A commit writes the newest balance of its own account to
  the matter, and other accounts' rows do not change; a refund ends the promise for its
  matter until the next commit.  With two clients on one matter the cache shows whoever came
  last, which is why `CacheMatchesLedger` asks for *one* of the accounts.
* **RefundRequests.**  `OneOpenRequest` is inductive once creators exclude each other
  by the row lock and a creator has seen no open request.  `MoneyMovesUnderClaim` and
  `ExecutedMeansReturned` need that an executor's request stays claimed until the
  money has gone: only its own back-off, or a reconciliation that needs returned
  money, leaves `executing`.
* **RefundRequests, the sums.**  `ReserveInv`: what `approved`, `executing`, `executed` and
  waiting requests ask for stays within the payment, and so it does with the amount of a
  request about to be inserted.  The creator keeps it because it holds the row lock and has
  summed what the others reserve; every other step only moves a request between reserving
  statuses or out of them.  It holds under every fault.  So does `ReturnedStaysReserved`: the
  amount that was returned leaves the reserved ones only with a request Stripe has denied
  (`hidden`).  `NeverOver` follows where Stripe denies nothing (`HonestStripe`,
  `NothingHidden`).  For the refinement every step is
  one of three shapes (`StepShape`: nothing abstract changes, one request is paid back, one is
  booked), and each is a step of `RefundContract` or a stutter.
* **RefundRequests and InvoiceLifecycle, the locks.**  `executing` and `sending` are locks
  kept in a column: nothing but the request that took one gives it back.  `ExecutingIsHeld`
  and `SendingIsHeld` are the safety halves of `RefundsSettle` and `SendsAndVoidsEnd`: whatever
  Stripe loses, refuses or repeats, the lock has a holder.  The first holds under every fault
  and names the requests that were abandoned; the second assumes that no process dies and no
  transaction throws, since either does leave a lock without holder (section 5).  For `sending`
  it matters that a sync cannot write that status: the row names only invoices whose Stripe
  status `StatusMap` knows (`KeyInv`).
* **PayoutFeeCredit.**  The rounded share never exceeds the fee and the credit never
  is negative: linear bounds on `Rounded`, by multiplication lemmas.  With the credits
  exact so far, a new row's credit is what the share grows by, so they stay exact.
* **RefundBilling.**  `RowsMatch`: the booked rows are those of the executed requests, with
  their amounts.  Hence the sum over requests and the sum over rows are one, and since what is
  executing or executed is reserved, the row of a refund finds room within the payment
  even when others have been approved meanwhile.
* **Sums.**  `SumFunctionOnSet` of the community modules folds a set in the order CHOOSE picks its
  elements.  `Sums` shows that the recursion has a solution (the strict subsets
  of a finite set are well-founded; the induction is stated first-order, over sets of subsets), that it is the only one, and so
  that a sum is unfolded at *any* element (`SumSplit`): the order does not matter.  `SumAdd`,
  `SumChange`, `SumMonotone` and `SumSupport` follow.
* **InvoiceLifecycle.**  All attempts share one set of keys, so every sender that has an
  invoice has *the* invoice of the keys, and no other leaves `absent`; a sender reaches
  `persist` only after the keys say finalized.
  `SendInv`: while somebody sends, the row is no draft, so that nobody else gets the lock,
  and no sync under way holds a `draft` to write.  A user may set `draft` under a sender: from
  then on (`reopened`) nothing is claimed of the lock, and `BackToDraft` shows that there is no
  third way to it.  `MoneyInv`: a
  paid webhook, a payment job and a sync that has read `paid` all carry the news of a
  payment that Stripe never takes back.
* **PaymentPipeline.**  Every hand-over writes the next table before it lets go of the
  one before (`Handover`): the webhook's job lives until the event is stored, the event is pending
  until the payment's job is queued, the job lives until the books are written.  The
  invariant is stronger than custody, since a worker may have done its part and not yet
  let go, or may have been superseded.  `BooksHaveMoney` counts the workers that have
  transferred and not yet booked: only a fault transfers a fee without booking it, or stops
  between the two (`LossIsFault`).  `NothingLeftBehind` is the safety half of `PaymentEnds`:
  in a state without work to do nothing is lost, for any workers and faults.  That such a
  state is reached needs the fairness, and stays with the run.
* **IntakeConversion.**  `Seen` says what a request has read before its next step and stays
  true of it: money once paid stays paid, an acceptance once made was made, a contract that
  existed exists.  `PayInv` adds that a success is told only of a payment; the condition
  `status = 'open'` of the settling `UPDATE` then counts the announcements.  `LinkInv`
  only needs that a row that is absent names no intake: the second writer's `UPDATE ... WHERE
  intake IS NULL` does the rest.
* **SubscriptionPointer.**  `Told`: a job that will announce a subscription has found no
  `created` event and has stored one in the same transaction, so two such jobs are one.
  `Begun`: events, and so jobs, are about subscriptions Stripe has started.
* **MatterBilling.**  `ChargesMarked` is weaker than a mark with this very invoice, since a
  second invoice takes the mark over: the work is marked with *some* invoice as long as it
  exists.  It holds because marks are only ever replaced, never taken away, and because
  an invoice's work was recorded when the request checked it (`Recorded`).

Only model-checked: liveness (`RefundsSettle`, `SendsAndVoidsEnd`, `PaymentEnds`), which is outside
TLAPS's reach with fairness and ENABLED, and the two runs that expect a violation.
`NeverOver` and the refinement of `RefundContract` assume `HonestStripe`: neither of the two
faults in which Stripe pays back and the code is told that it did not; with them the code
does not keep either (section 5).  Everything else about refunds and their rows holds without it.

## 5. Where code and documents disagree

Shown by runs (`findings` in `PROJECT.json`): `trust_overdraw`, `payment_retransfer`.

Met while modelling and reached by the models, without a run of their own.  Money:

* A retainer refund lowers the cached balance but writes no ledger row (`PRODUCT.md:187`).
* A retainer deposit paid by invoice is transferred at each attempt and never booked:
  `retainer-payment-flow.ts:25` writes `'webhook'` into a uuid (`PRODUCT.md:175`).  An
  invoice without matter is never transferred: `routePayment` throws.
* A refund event lost in the background is not followed up (`refund-requests.service.ts:505`).
  A reconciliation that cannot be queued is only logged (`:461`), and one that has thrown five
  times is given up (`shared/queue/queue.manager.ts:234`).
* A lost reply to the cancellation of a payment intent leaves the request failed though
  the money went back (`:93`), so that the same amount may be asked for and approved again.
* A retainer refund that was read before a deposit and written after it takes the deposit out of
  the cached balance, which no sync repairs before the next deposit or withdrawal
  (`refund-engine.ts:201`).
* A PATCH to `draft` while an invoice is being sent lets a second sender in, which
  `invoice.delivery.lock.ts:37` answers with "Invoice is already being sent by another request":
  the schema and `updateInvoice` take any status (`invoices.validation.ts:46`,
  `invoice.service.ts:121`); a sync during a send leaves it sent without Stripe
  invoice (`invoice.delivery.recovery.ts:91`).
* A cancelled invoice becomes overdue, sent or pending again by a late webhook, a sync or a
  PATCH (`routes.ts:241` calls void final).
* An invoice cancelled by a PATCH stays payable at Stripe: only `voidInvoice` voids it there.  So
  does one whose void failed when the process died before the reconciliation was queued, when
  the queue failed, when the job had used up its five attempts
  (`process-invoice-void-reconciliation.ts:97`), or when Stripe calls it uncollectible.
* Edit and delete check the status outside their transaction (`invoice.service.ts:124`, `:157`).
* Items of a failed attempt stay attached ("Cleans up on failure.", `stripe-api-adapter.ts:15`).
* A paid webhook that overtakes the link of its row is dropped and marked processed
  (`invoice.webhook.service.ts:46`).
* An outbox event that one worker has processed can be dead-lettered by another whose read
  is older; `markFailed` can un-process a webhook row.  Neither loses a payment, both may
  repeat one.
* An approved refund of an invoice as the code writes it can never be executed:
  `executeRefund` needs `stripe_payment_intent_id`, which nothing writes, and goes back to
  `approved` (`refund-requests.service.ts:279`; `refund-requests.routes.ts:220`: "Practice
  executes an approved refund via Stripe.").
* When the payout row has no fee, recording a refund throws after Stripe has paid it back
  (`refund-requests.service.ts:425`), and so does every reconciliation meant to repair that
  (`refund-reconciliation.ts:50`).
* A process that dies leaves an invoice `sending`, or a refund `executing` for which no job is
  queued: nothing takes either up again, and an executing refund bars every further request
  (`invoice.delivery.lock.ts:35`, `refund-requests.service.ts:142`).
* A send repeated after a rollback is answered from the idempotency keys with the voided
  invoice and marked sent (`invoice.delivery.service.ts:65`; `routes.ts:194`).

Intakes, contracts and clients:

* A failed attempt delivered before the success of the same payment leaves a client who has
  paid with an intake that is `failed`: success only settles an open one (`webhooks.ts:127`).
* A payment link and a checkout session are both payable, so a fee can be paid twice.
* A crash after the settling transaction loses the metered fee: the event delivered again
  finds the intake succeeded and returns (`webhooks.ts:172`).
* Two conversions that have both read the intake before either writes make two matters, and so
  do a conversion and the acceptance of a contract (`engagement-contract.service.ts:311`).
  A contract accepted twice leaves the first matter without contract; a decline that
  has read a sent contract overwrites its acceptance.
* A client that was deleted can never be linked again; an intake converted before its link
  job ran makes a matter without client.
* An update of an intake may change the amount after the payment
  (`practice-client-intakes/README.md:118` says it may not).

Subscriptions:

* Two syncs that have both read the pointer before either commits leave two subscriptions
  active at Stripe (`subscription-lifecycle.service.ts:65`).  When one is to be cancelled, the
  start of one at Stripe is compared with the *insertion* of the other's row: two
  syncs can each find the other the older one, and both be cancelled.
* A late `updated` gives the pointer back to a subscription that was cancelled, and a late
  `created` makes its row active again (`:390`); a sync stores a status that entitles to
  nothing and still sets the pointer.
* A checkout that fails takes back its row while another request has opened a session on it
  (`checkout-session.service.ts:366`): the client pays for a subscription without row.
  "Atomically find-or-create" (`:280`) is a read followed by an insert.
* `SubscriptionCreated` is lost when the process dies after the transaction of the sync;
  a subscription that only `updated` has claimed has no Stripe id on record and is not
  cancelled when it is displaced.

Billing:

* Nothing asks at creation whether work is invoiced already: two invoices may charge for the
  same expense or milestone (`invoice-creation.helpers.ts:106`).
* An invoice with time entries is always refused: `verifyTimeEntries` compares the count of its
  query, which the driver returns as text, with a number (`invoice-creation.helpers.ts:44`);
  the query for expenses converts it, the one for time entries does not
  (`matter-time-entries.queries.ts:155`).  The message then says that the entries "do not
  belong to the provided matter_id".
* Work of a deleted or voided invoice is never offered again: `unmarkInvoiced` exists in three
  repositories and is not called.
* Work may be edited and deleted after it was invoiced.
* The check of an invoice number counts deleted invoices, the unique index does not.

## 6. Not modelled

`PROJECT.json` lists every component with its reason.  Mostly single-row CRUD,
validation, formatting and I/O, which make up the greater part of the repository's lines.
Expiry of Stripe's idempotency keys (24 hours) would need a clock.  Fire-and-forget events
(a write that may be lost, `refund-requests.service.ts:505`) are left out of `EventOutbox`:
nothing follows from such an event, so no property could depend on it.  Uploads
(`shared/uploads`) have two-step requests like those above, and races between confirming,
deleting and restoring, but each touches one row, and what the code keeps through them is
its append-only audit log.

## 7. Plan

1. Done: the modules, runs and proofs above.
2. Next models: the metered-usage job behind the fees of `PaymentPipeline`; seats and metered
   prices of `SubscriptionPointer`; several Stripe subscriptions for one row; `Uploads`.
3. Next composition: `MatterBilling` with `InvoiceLifecycle`, so that the statuses of an invoice
   are those sending, paying and the webhooks give it.
4. Next proofs: abstract specifications of `TrustLedger`, `InvoiceLifecycle` and
   `PaymentPipeline` with their refinements.
