----------------------------- MODULE PaymentPipeline -----------------------------
(***************************************************************************)
(* How the money of an invoice reaches the practice once Stripe says it is *)
(* paid.  WebhookInbox takes Stripe's invoice.paid event; its handler      *)
(* (invoice.webhook.service.ts) stores InvoiceStripePaymentReceived in the *)
(* EventOutbox; the listener (modules/invoices/listeners.ts) queues a      *)
(* payment job; the job (workers/tasks/process-invoice-payment.ts)         *)
(* transfers the money at Stripe, and marks the invoice paid, records the  *)
(* payout and stores InvoicePaid in one transaction; the listener of       *)
(* InvoicePaid queues the metered fees.                                    *)
(*                                                                         *)
(* The invoice's row is linked to its Stripe invoice: InvoiceLifecycle     *)
(* shows what happens when it is not.  Amounts are left out.               *)
(***************************************************************************)
EXTENDS WebhookInbox, EventOutbox

CONSTANT MaxFaults   \* faults, restarts and redeliveries in a behaviour

ASSUME FaultAssumption == MaxFaults \in Nat

VARIABLES invoice,    \* what kind of invoice it is
          transfers,  \* transfers made at Stripe for it
          booked,     \* rows of billing_transactions for it
          metered,    \* fees queued for metering
          faults      \* faults so far

money == <<invoice, transfers, booked, metered>>
vars == <<queueVars, inboxVars, events, handling, money, faults>>

\* A fee of a matter, a retainer deposit, or an invoice without matter.
Kinds == {"fee", "retainer_deposit", "no_matter"}
Fees  == {"invoice_fee", "payout_fee"}

WebhookSteps == {"handle_webhook", "mark_processed", "mark_failed"}
EventSteps   == {"handle_event", "mark_event"}
PaymentSteps == {"transfer", "book", "payment_done"}

EventRows == [state : EventStates, retryCount : 0..MaxRetries - 1]

Handles(w) ==
    /\ handling[w].type \in EventTypes
    /\ handling[w].nr \in DOMAIN events[handling[w].type]

TypeOK ==
    /\ jobs \in [Keys -> [state : JobStates, left : 0..MaxAttempts]]
    /\ at \in [Workers -> {"idle"} \cup WebhookSteps \cup EventSteps \cup PaymentSteps]
    /\ row \in [stored : BOOLEAN, processed : BOOLEAN, retryCount : Nat, retryAt : BOOLEAN]
    /\ requests \in Nat
    /\ acknowledged \in BOOLEAN
    /\ scanned \in BOOLEAN
    /\ count \in [Workers -> Nat]
    /\ events \in [EventTypes -> Seq(EventRows)]
    /\ handling \in [Workers -> {NoEvent} \cup [type : EventTypes, nr : Nat]]
    /\ \A w \in Workers : at[w] \in EventSteps => Handles(w)
    /\ invoice \in Kinds
    /\ transfers \in Nat
    /\ booked \in Nat
    /\ metered \subseteq Fees
    /\ faults \in 0..MaxFaults

Init ==
    /\ QueueInit /\ InboxInit /\ OutboxInit
    /\ invoice \in Kinds
    /\ transfers = 0
    /\ booked = 0
    /\ metered = {}
    /\ faults = 0

NoFault == UNCHANGED faults
Fault   == faults < MaxFaults /\ faults' = faults + 1

-----------------------------------------------------------------------------
\* handleInvoicePaid: InvoiceStripePaymentReceived, dispatched as critical.
HandleWebhook(w) ==
    /\ at[w] = "handle_webhook"
    /\ Publish("payment_received")
    /\ Go(w, "mark_processed")
    /\ UNCHANGED <<jobs, count, inboxVars, handling, money>>

\* Mutant: the event is not critical, its failure is not the handler's.
HandlerShrugs(w) ==
    /\ at[w] \in {"handle_webhook", "mark_processed"}
    /\ Go(w, "mark_processed")
    /\ UNCHANGED <<jobs, count, inboxVars, events, handling, money>>

\* The handler throws, before the event is stored or after (NOTIFY fails), or
\* the row cannot be marked.
HandlerThrows(w) ==
    /\ at[w] \in {"handle_webhook", "mark_processed"}
    /\ \/ at[w] = "handle_webhook" /\ Publish("payment_received")
       \/ UNCHANGED events
    /\ WebhookThrows(w)
    /\ UNCHANGED <<handling, money>>

-----------------------------------------------------------------------------
\* Mutant: the payout fee is metered only by a later event.
FeesOfInvoiceOnly == {"invoice_fee"}

FeesOfPayment == Fees

\* The listener of InvoiceStripePaymentReceived.
QueuePayment(w) ==
    /\ handling[w].type = "payment_received"
    /\ AddJob("payment")
    /\ UNCHANGED metered

\* The listener of InvoicePaid.
QueueFees(w) ==
    /\ handling[w].type = "invoice_paid"
    /\ metered' = metered \cup FeesOfPayment
    /\ UNCHANGED jobs

HandleEvent(w) ==
    /\ at[w] = "handle_event"
    /\ QueuePayment(w) \/ QueueFees(w)
    /\ Go(w, "mark_event")
    /\ UNCHANGED <<inboxVars, events, handling, count, invoice, transfers, booked>>

\* InvoicePaid's listener throws between its two jobs.
FirstFeeOnly(w) ==
    /\ at[w] = "handle_event"
    /\ handling[w].type = "invoice_paid"
    /\ metered' = metered \cup {"invoice_fee"}

ListenerThrows(w) ==
    /\ EventThrows(w)
    /\ FirstFeeOnly(w) \/ UNCHANGED metered
    /\ UNCHANGED <<inboxVars, invoice, transfers, booked>>

-----------------------------------------------------------------------------
StartPayment(w) ==
    /\ Claimable(w, "payment")
    /\ Claim(w, "payment")
    /\ Go(w, "transfer")
    /\ UNCHANGED <<inboxVars, count, events, handling, money>>

\* routePayment refuses an invoice without matter.
Routable == invoice # "no_matter"

\* transferExecutor.execute, without idempotency key.
Transfer(w) ==
    /\ at[w] = "transfer"
    /\ Routable
    /\ transfers' = transfers + 1
    /\ Go(w, "book")
    /\ UNCHANGED <<jobs, inboxVars, count, events, handling, invoice, booked, metered>>

\* recordDeposit is given 'webhook' for the uuid column created_by.
Bookable == invoice # "retainer_deposit"

\* The transaction: status paid, the payout's billing row, InvoicePaid.
Book(w) ==
    /\ at[w] = "book"
    /\ Bookable
    /\ booked' = booked + 1
    /\ Publish("invoice_paid")
    /\ Go(w, "payment_done")
    /\ UNCHANGED <<jobs, inboxVars, count, handling, invoice, transfers, metered>>

EndPayment(w) ==
    /\ at[w] = "payment_done"
    /\ Complete(w)
    /\ UNCHANGED <<inboxVars, count, events, handling, money>>

\* The invoice itself makes the task throw; the transaction rolls back.
PaymentRefused(w) ==
    /\ \/ at[w] = "transfer" /\ ~Routable
       \/ at[w] = "book" /\ ~Bookable
    /\ Abandon(w)
    /\ UNCHANGED <<inboxVars, count, events, handling, money>>

\* Mutant: an error of Stripe is logged, and the payment recorded.
PaymentThrowsLate(w) ==
    /\ at[w] = "transfer" /\ Routable
    /\ Go(w, "book")
    /\ UNCHANGED <<jobs, inboxVars, count, events, handling, money>>

\* A call throws; the reply to a transfer may be lost.
PaymentThrows(w) ==
    /\ at[w] \in {"transfer", "book"}
    /\ Abandon(w)
    /\ \/ at[w] = "transfer" /\ Routable /\ transfers' = transfers + 1
       \/ UNCHANGED transfers
    /\ UNCHANGED <<inboxVars, count, events, handling, invoice, booked, metered>>

\* The worker's process dies, or its catch block throws.
Crash(w) ==
    /\ at[w] # "idle"
    /\ Abandon(w)
    /\ Forget(w)
    /\ UNCHANGED <<inboxVars, events, money>>

-----------------------------------------------------------------------------
\* Stripe delivers the event, and sometimes delivers it again.
Request ==
    /\ \/ Store /\ (IF row.stored THEN Fault ELSE NoFault)
       \/ Enqueue /\ NoFault
    /\ UNCHANGED <<events, handling, money>>

WebhookTask(w) ==
    \/ (StartWebhook(w) \/ MarkProcessed(w) \/ MarkFailed(w))
          /\ UNCHANGED <<events, handling, money>>
    \/ HandleWebhook(w)

StartSomeEvent(w) ==
    \E type \in EventTypes : \E n \in DOMAIN events[type] : StartEvent(w, type, n)

OutboxTask(w) ==
    \/ (MarkEvent(w) \/ StartSomeEvent(w))
          /\ UNCHANGED <<inboxVars, money>>
    \/ HandleEvent(w)

PaymentTask(w) ==
    StartPayment(w) \/ Transfer(w) \/ Book(w) \/ EndPayment(w) \/ PaymentRefused(w)

Work(w) == (WebhookTask(w) \/ OutboxTask(w) \/ PaymentTask(w)) /\ NoFault

Boot == Scan /\ UNCHANGED <<events, handling, money>>

Booted == Requeue /\ UNCHANGED <<events, handling, money>>

Failure ==
    /\ \/ Boot
       \/ EnqueueThrows /\ UNCHANGED <<events, handling, money>>
       \/ \E w \in Workers :
             HandlerThrows(w) \/ ListenerThrows(w) \/ PaymentThrows(w) \/ Crash(w)
    /\ Fault

Next ==
    \/ Request
    \/ \E w \in Workers : Work(w)
    \/ Booted /\ NoFault
    \/ Failure

Spec == Init /\ [][Next]_vars

\* Graphile Worker and the cron job keep every worker busy.
FairSpec == Spec /\ \A w \in Workers : WF_vars(Work(w))

-----------------------------------------------------------------------------
\* Once Stripe has been told that its event was received, it will not send it
\* again: until the payment is booked, somebody holds it, be it as a job that
\* failed for good or as a dead letter.
Custody ==
    acknowledged => \/ booked > 0
                    \/ HasJob("webhook")
                    \/ Open("payment_received")
                    \/ HasJob("payment")

\* A payment that is booked has its InvoicePaid event in the outbox, or in the
\* dead letter table, until all its fees are queued for metering.
FeesFollow == booked > 0 => Open("invoice_paid") \/ metered = Fees

\* The workers whose transfer is made and whose payout is not yet booked.
Booking == {w \in Workers : at[w] = "book"}

\* Every payout in the books has a transfer of its own at Stripe.  Of a fee,
\* the transfers the books do not show, however often the payment was processed,
\* are being booked or were each lost by a fault.
BooksHaveMoney ==
    /\ booked <= transfers
    /\ invoice = "fee" => transfers <= booked + Cardinality(Booking) + faults

\* Nobody works on it any more, but an operator can find it.
Stuck ==
    \/ \E k \in Keys : jobs[k].state = "failed"
    \/ Dead("payment_received")

\* A payment Stripe was told is received is booked or left to an operator; the
\* fees of a booked payment are metered, or InvoicePaid is a dead letter.
PaymentEnds ==
    /\ acknowledged ~> (booked > 0 \/ Stuck)
    /\ booked > 0 ~> (metered = Fees \/ Dead("invoice_paid"))

\* Jobs have keys "for idempotent job processing": the money of a payment is
\* transferred once.
TransferredOnce == transfers <= 1
=============================================================================
