--------------------------- MODULE InvoiceLifecycle ---------------------------
(***************************************************************************)
(* The life of one invoice (src/modules/invoices/services): the practice   *)
(* edits, sends, syncs, voids and deletes it, the client pays it at        *)
(* Stripe, webhooks and jobs carry what happened at Stripe back.           *)
(*                                                                         *)
(* The row and the Stripe invoice are kept together by nothing but status  *)
(* conditions in UPDATEs and Stripe's idempotency keys.  A handler is one  *)
(* HTTP request in some process; it runs a step at a time, with the        *)
(* database and Stripe free to change between two of its steps.            *)
(*                                                                         *)
(* Stripe is modelled by what the code relies on: a call repeated with the *)
(* same idempotency key does nothing and is answered as the first time.    *)
(***************************************************************************)
EXTENDS Naturals, FiniteSets

CONSTANTS Handlers,        \* HTTP requests on the invoice
          StripeIds,       \* ids Stripe may give an invoice
          MaxEdition,      \* bound: editions of the line items
          MaxAttempts,     \* graphileWorkerConfig.maxAttempts
          ManualStatuses,  \* statuses a user sets by PATCH
          Dashboard,       \* the practice also works in Stripe's dashboard
          Faults,          \* what goes wrong, see AllFaults
          None

AllFaults == {"lost_reply", \* the call reaches Stripe, its answer is lost
              "refused",    \* Stripe answers with an error and does nothing
              "db",         \* a transaction of the database throws
              "queue",      \* the job cannot be stored
              "crash"}      \* the process dies; a webhook or job runs again

ASSUME InvoiceAssumption ==
    /\ MaxEdition \in Nat \ {0}
    /\ MaxAttempts \in Nat \ {0}
    /\ ManualStatuses \subseteq {"draft", "pending", "sent", "overdue", "cancelled"}
    /\ Dashboard \in BOOLEAN
    /\ Faults \subseteq AllFaults
    /\ None \notin StripeIds

VARIABLES row,       \* the row of invoices; items is the edition of its line items
          stripe,    \* Stripe's invoices; items are the editions attached
          keys,      \* what Stripe remembers under the keys of this invoice
          op,        \* what each handler does
          inbox,     \* webhooks under way
          payments,  \* process-invoice-payment jobs
          voidJobs,  \* process-invoice-void-reconciliation jobs and the
                     \* attempts left; the queue keeps a job that has none
          reopened   \* history: a user set draft while somebody was sending

vars == <<row, stripe, keys, op, inbox, payments, voidJobs, reopened>>

Statuses     == {"draft", "pending", "sending", "sent", "paid", "overdue", "cancelled"}
StripeStates == {"absent", "draft", "open", "paid", "uncollectible", "void", "deleted"}
Editions     == 1..MaxEdition
Finalized    == {"open", "paid", "uncollectible", "void"}
Events       == [type : {"paid", "payment_failed", "voided", "deleted"}, invoice : StripeIds]

\* Steps of sendInvoice between the lock and its answer.
Sending == {"create", "attach", "finalize", "send", "persist", "mark", "rollback"}
Steps   == Sending \cup {"idle", "void_rolled_back", "void", "edit", "set", "sync", "delete"}

Idle == [at |-> "idle", invoice |-> None, items |-> 0, status |-> "draft"]

\* What Stripe remembers once it has created an invoice.
KeysOf(s) == [invoice |-> s, items |-> {}, finalized |-> FALSE, sent |-> FALSE]

TypeOK ==
    /\ row \in [status : Statuses, invoice : StripeIds \cup {None},
                items : Editions, deleted : BOOLEAN]
    /\ stripe \in [StripeIds -> [state : StripeStates, items : SUBSET Editions]]
    /\ keys \in [invoice : StripeIds \cup {None}, items : SUBSET Editions,
                 finalized : BOOLEAN, sent : BOOLEAN]
    /\ op \in [Handlers -> [at : Steps, invoice : StripeIds \cup {None},
                            items : Editions \cup {0}, status : Statuses]]
    /\ inbox \subseteq Events
    /\ payments \subseteq StripeIds
    /\ voidJobs \subseteq [invoice : StripeIds, left : 0..MaxAttempts]
    /\ reopened \in BOOLEAN

\* A fresh draft, as createInvoice leaves it.
Init ==
    /\ row = [status |-> "draft", invoice |-> None, items |-> 1, deleted |-> FALSE]
    /\ stripe = [s \in StripeIds |-> [state |-> "absent", items |-> {}]]
    /\ keys = KeysOf(None)
    /\ op = [p \in Handlers |-> Idle]
    /\ inbox = {}
    /\ payments = {}
    /\ voidJobs = {}
    /\ reopened = FALSE

Senders == {p \in Handlers : op[p].at \in Sending}

Linked(s) == row.invoice = s /\ ~row.deleted

Goto(p, step) == op' = [op EXCEPT ![p].at = step]
Done(p)       == op' = [op EXCEPT ![p] = Idle]

StripeMoves(s, to) == stripe' = [stripe EXCEPT ![s].state = to]
Emit(type, s)      == inbox' = inbox \cup {[type |-> type, invoice |-> s]}

-----------------------------------------------------------------------------
(* sendInvoice.                                                            *)

\* Mutant: the lock does not look at the status it moves from.
LockableUnchecked == ~row.deleted /\ row.status \in {"draft", "sending"}

Lockable == ~row.deleted /\ row.status = "draft"

Lock(p) ==
    /\ op[p].at = "idle"
    /\ Lockable
    /\ row' = [row EXCEPT !.status = "sending"]
    /\ op' = [op EXCEPT ![p] = [Idle EXCEPT !.at = "create", !.items = row.items]]
    /\ UNCHANGED <<stripe, keys, inbox, payments, voidJobs, reopened>>

\* The answer of a Stripe call: on to the next step, or lost, which the code
\* takes as an error.
Answered(p, next, s) ==
    \/ op' = [op EXCEPT ![p].at = next, ![p].invoice = s]
    \/ /\ "lost_reply" \in Faults
       /\ op' = [op EXCEPT ![p].at = "rollback", ![p].invoice = None]

\* Mutant: every attempt has a key of its own.
CreateReplaysNever == {}

\* The invoice Stripe returns for a key it knows.
CreateReplays == {s \in StripeIds : keys.invoice = s}

Create(p) ==
    /\ op[p].at = "create"
    /\ \/ \E s \in CreateReplays :
             /\ Answered(p, "attach", s)
             /\ UNCHANGED <<stripe, keys>>
       \/ /\ CreateReplays = {}
          /\ \E s \in StripeIds :
                /\ stripe[s].state = "absent"
                /\ StripeMoves(s, "draft")
                /\ keys' = KeysOf(s)
                /\ Answered(p, "attach", s)
    /\ UNCHANGED <<row, inbox, payments, voidJobs, reopened>>

\* Mutant: the invoice is handed on while it is a draft at Stripe.
AttachedDraftKept == "persist"

\* The call after createStripeInvoice.
Attached == "finalize"

\* The line items, under keys made of their ids; an edition has new ids.
Attach(p) ==
    LET s == op[p].invoice
        e == op[p].items IN
    /\ op[p].at = "attach"
    /\ IF e \in keys.items
       THEN UNCHANGED <<stripe, keys>>
       ELSE /\ stripe[s].state = "draft"
            /\ stripe' = [stripe EXCEPT ![s].items = @ \cup {e}]
            /\ keys' = [keys EXCEPT !.items = @ \cup {e}]
    /\ Answered(p, Attached, s)
    /\ UNCHANGED <<row, inbox, payments, voidJobs, reopened>>

Finalize(p) ==
    LET s == op[p].invoice IN
    /\ op[p].at = "finalize"
    /\ IF keys.finalized
       THEN UNCHANGED <<stripe, keys>>
       ELSE /\ stripe[s].state = "draft"
            /\ StripeMoves(s, "open")
            /\ keys' = [keys EXCEPT !.finalized = TRUE]
    /\ Answered(p, "send", s)
    /\ UNCHANGED <<row, inbox, payments, voidJobs, reopened>>

\* sendWithRetry; a lost answer stands for three in a row.
Send(p) ==
    LET s == op[p].invoice IN
    /\ op[p].at = "send"
    /\ keys.sent \/ stripe[s].state = "open"
    /\ keys' = [keys EXCEPT !.sent = TRUE]
    /\ Answered(p, "persist", s)
    /\ UNCHANGED <<row, stripe, inbox, payments, voidJobs, reopened>>

\* What Stripe refuses by its own rules.
Refuses(p) ==
    LET s == op[p].invoice IN
    \/ op[p].at = "attach" /\ op[p].items \notin keys.items /\ stripe[s].state # "draft"
    \/ op[p].at = "finalize" /\ ~keys.finalized /\ stripe[s].state # "draft"
    \/ op[p].at = "send" /\ ~keys.sent /\ stripe[s].state # "open"

\* createAndSendStripeInvoice throws: sendInvoice does not learn the id.
StripeError(p) ==
    /\ op[p].at \in {"create", "attach", "finalize", "send"}
    /\ Refuses(p) \/ "refused" \in Faults
    /\ op' = [op EXCEPT ![p].at = "rollback", ![p].invoice = None]
    /\ UNCHANGED <<row, stripe, keys, inbox, payments, voidJobs, reopened>>

Persist(p) ==
    LET s == op[p].invoice IN
    /\ op[p].at = "persist"
    /\ IF ~row.deleted /\ row.invoice = None
       THEN row' = [row EXCEPT !.invoice = s]
       ELSE UNCHANGED row
    /\ Goto(p, IF ~row.deleted /\ row.invoice \in {None, s} THEN "mark" ELSE "rollback")
    /\ UNCHANGED <<stripe, keys, inbox, payments, voidJobs, reopened>>

Mark(p) ==
    /\ op[p].at = "mark"
    /\ IF row.status = "sending" /\ ~row.deleted
       THEN /\ row' = [row EXCEPT !.status = "sent", !.invoice = op[p].invoice]
            /\ Done(p)
       ELSE /\ Goto(p, "rollback")
            /\ UNCHANGED row
    /\ UNCHANGED <<stripe, keys, inbox, payments, voidJobs, reopened>>

SendThrows(p) ==
    /\ op[p].at \in {"persist", "mark"}
    /\ "db" \in Faults
    /\ Goto(p, "rollback")
    /\ UNCHANGED <<row, stripe, keys, inbox, payments, voidJobs, reopened>>

\* Mutant: the rollback writes the status without looking at it.
RolledBackBlindly == "draft"

RolledBack == IF row.status = "sending" /\ ~row.deleted THEN "draft" ELSE row.status

\* rollbackSendingTransaction: its transaction, which also forgets the Stripe
\* invoice whatever the status was, then the void.
Rollback(p) ==
    LET s == op[p].invoice IN
    /\ op[p].at = "rollback"
    /\ row' = [row EXCEPT !.status = RolledBack,
                          !.invoice = IF s = None THEN @ ELSE None]
    /\ IF s = None THEN Done(p) ELSE Goto(p, "void_rolled_back")
    /\ UNCHANGED <<stripe, keys, inbox, payments, voidJobs, reopened>>

RollbackThrows(p) ==
    /\ op[p].at = "rollback"
    /\ "db" \in Faults
    /\ Done(p)
    /\ UNCHANGED <<row, stripe, keys, inbox, payments, voidJobs, reopened>>

Voidable(s) == stripe[s].state \in {"open", "uncollectible"}

\* stripe.invoices.voidInvoice takes effect, or not.
VoidAtStripe(s) ==
    \/ Voidable(s) /\ StripeMoves(s, "void") /\ Emit("voided", s)
    \/ (~Voidable(s) \/ "refused" \in Faults) /\ UNCHANGED <<stripe, inbox>>

\* The best effort of the rollback: its error is logged.
VoidRolledBack(p) ==
    /\ op[p].at = "void_rolled_back"
    /\ VoidAtStripe(op[p].invoice)
    /\ Done(p)
    /\ UNCHANGED <<row, keys, payments, voidJobs, reopened>>

-----------------------------------------------------------------------------
(* voidInvoice and its reconciliation.                                     *)

VoidLocally(p) ==
    /\ op[p].at = "idle"
    /\ row.status = "sent" /\ ~row.deleted /\ row.invoice # None
    /\ row' = [row EXCEPT !.status = "cancelled"]
    /\ op' = [op EXCEPT ![p] = [Idle EXCEPT !.at = "void", !.invoice = row.invoice]]
    /\ UNCHANGED <<stripe, keys, inbox, payments, voidJobs, reopened>>

\* addJob replaces a job with the same key, whatever attempts it had left.
ToReconcile(s) ==
    {j \in voidJobs : j.invoice # s} \cup {[invoice |-> s, left |-> MaxAttempts]}

\* attemptStripeVoidWithRecovery: an error, even of a void that happened,
\* queues the reconciliation.
VoidStripe(p) ==
    LET s == op[p].invoice IN
    /\ op[p].at = "void"
    /\ VoidAtStripe(s)
    /\ \/ stripe'[s].state = "void" /\ Voidable(s) /\ UNCHANGED voidJobs
       \/ /\ \/ stripe' = stripe
             \/ "lost_reply" \in Faults
          /\ \/ voidJobs' = ToReconcile(s)
             \/ "queue" \in Faults /\ UNCHANGED voidJobs
    /\ Done(p)
    /\ UNCHANGED <<row, keys, payments, reopened>>

\* Mutant: the error is logged and the job ends.
RetriedNever(j) == {}

\* What a failed attempt leaves of a job.
Retried(j) == {[j EXCEPT !.left = @ - 1]}

\* The row is cancelled and its Stripe invoice can still be paid.
Owed(s) == row.status = "cancelled" /\ Linked(s) /\ stripe[s].state = "open"

VoidOwed(s) == StripeMoves(s, "void") /\ Emit("voided", s)

\* processInvoiceVoidReconciliation.  It throws what Stripe or the database
\* throws, before or after the void, and after the last attempt stays as it is.
ReconcileVoid(j) ==
    LET s == j.invoice IN
    /\ j \in voidJobs
    /\ j.left > 0
    /\ \/ /\ voidJobs' = voidJobs \ {j}
          /\ IF Owed(s) THEN VoidOwed(s) ELSE UNCHANGED <<stripe, inbox>>
       \/ /\ voidJobs' = (voidJobs \ {j}) \cup Retried(j)
          /\ \/ Faults \ {"queue"} # {} /\ UNCHANGED <<stripe, inbox>>
             \/ Faults \cap {"lost_reply", "crash"} # {} /\ Owed(s) /\ VoidOwed(s)
    /\ UNCHANGED <<row, keys, op, payments, reopened>>

-----------------------------------------------------------------------------
(* updateInvoice, deleteInvoice, syncInvoice: read, then write.            *)

CheckUpdate(p) ==
    /\ op[p].at = "idle"
    /\ ~row.deleted
    /\ \/ /\ row.status = "draft"
          /\ row.items + 1 \in Editions
          /\ Goto(p, "edit")
       \/ \E to \in ManualStatuses :
             op' = [op EXCEPT ![p] = [Idle EXCEPT !.at = "set", !.status = to]]
    /\ UNCHANGED <<row, stripe, keys, inbox, payments, voidJobs, reopened>>

\* persistInvoiceUpdate with line items.
EditItems(p) ==
    /\ op[p].at = "edit"
    /\ row.items + 1 \in Editions
    /\ row' = [row EXCEPT !.items = @ + 1]
    /\ Done(p)
    /\ UNCHANGED <<stripe, keys, inbox, payments, voidJobs, reopened>>

\* A user's PATCH to draft, which the code allows in any status.
SetsDraft(p) == op[p].at = "set" /\ op[p].status = "draft"

\* persistInvoiceUpdate with a status, or the write of syncStripeState.
SetStatus(p) ==
    /\ op[p].at \in {"set", "sync"}
    /\ row' = [row EXCEPT !.status = op[p].status]
    /\ Done(p)
    /\ reopened' = (reopened \/ (SetsDraft(p) /\ Senders # {}))
    /\ UNCHANGED <<stripe, keys, inbox, payments, voidJobs>>

CheckDelete(p) ==
    /\ op[p].at = "idle"
    /\ row.status = "draft" /\ ~row.deleted
    /\ Goto(p, "delete")
    /\ UNCHANGED <<row, stripe, keys, inbox, payments, voidJobs, reopened>>

Delete(p) ==
    /\ op[p].at = "delete"
    /\ row' = [row EXCEPT !.deleted = TRUE]
    /\ Done(p)
    /\ UNCHANGED <<stripe, keys, inbox, payments, voidJobs, reopened>>

\* Mutant: what Stripe has written off counts as paid.
StatusMapWriteOff ==
    [draft |-> "draft", open |-> "sent", paid |-> "paid",
     uncollectible |-> "paid", void |-> "cancelled"]

\* Mutant: Stripe's word for an invoice that waits for payment.
StatusMapVerbatim == [StatusMapWriteOff EXCEPT !.open = "open", !.uncollectible = "overdue"]

StatusMap ==
    [draft |-> "draft", open |-> "sent", paid |-> "paid",
     uncollectible |-> "overdue", void |-> "cancelled"]

SyncRead(p) ==
    /\ op[p].at = "idle"
    /\ row.invoice # None /\ ~row.deleted
    /\ LET state == stripe[row.invoice].state IN
       op' = [op EXCEPT ![p] =
                [Idle EXCEPT !.at = "sync",
                             !.status = IF state \in DOMAIN StatusMap
                                        THEN StatusMap[state] ELSE row.status]]
    /\ UNCHANGED <<row, stripe, keys, inbox, payments, voidJobs, reopened>>

\* The process dies between two steps.
Crash(p) ==
    /\ "crash" \in Faults
    /\ op[p].at # "idle"
    /\ Done(p)
    /\ UNCHANGED <<row, stripe, keys, inbox, payments, voidJobs, reopened>>

-----------------------------------------------------------------------------
(* Webhooks and the payment job.                                           *)

\* A job that dies after its effect is run again.
Taken(jobs, job) == {jobs \ {job}} \cup (IF "crash" \in Faults THEN {jobs} ELSE {})

\* handleInvoicePaid: an event, from which a listener queues the payment job.
PaidWebhook(s) ==
    LET e == [type |-> "paid", invoice |-> s] IN
    /\ e \in inbox
    /\ inbox' \in Taken(inbox, e)
    /\ payments' = IF Linked(s) THEN payments \cup {s} ELSE payments
    /\ UNCHANGED <<row, stripe, keys, op, voidJobs, reopened>>

\* What the other handlers write to a row they find.
OverdueRow   == [row EXCEPT !.status = "overdue"]
CancelledRow == [row EXCEPT !.status = "cancelled"]
DeletedRow   == [row EXCEPT !.deleted = TRUE]

\* handleInvoicePaymentFailed, handleInvoiceVoided, handleInvoiceDeleted.
StatusWebhook(type, s, written) ==
    LET e == [type |-> type, invoice |-> s] IN
    /\ e \in inbox
    /\ inbox' \in Taken(inbox, e)
    /\ row' = IF Linked(s) THEN written ELSE row
    /\ UNCHANGED <<stripe, keys, op, payments, voidJobs, reopened>>

\* processInvoicePayment, its money apart; without a row it throws until its
\* attempts are used up.
PaymentJob(s) ==
    /\ s \in payments
    /\ payments' \in Taken(payments, s)
    /\ row' = IF Linked(s) THEN [row EXCEPT !.status = "paid"] ELSE row
    /\ UNCHANGED <<stripe, keys, op, inbox, voidJobs, reopened>>

-----------------------------------------------------------------------------
(* The client, and the practice in Stripe's dashboard.                     *)

Pay(s) ==
    /\ Voidable(s)
    /\ StripeMoves(s, "paid")
    /\ Emit("paid", s)
    /\ UNCHANGED <<row, keys, op, payments, voidJobs, reopened>>

PaymentFails(s) ==
    /\ Voidable(s)
    /\ Emit("payment_failed", s)
    /\ UNCHANGED <<row, stripe, keys, op, payments, voidJobs, reopened>>

InDashboard(s) ==
    /\ Dashboard
    /\ \/ stripe[s].state = "open" /\ StripeMoves(s, "uncollectible") /\ UNCHANGED inbox
       \/ Voidable(s) /\ StripeMoves(s, "void") /\ Emit("voided", s)
       \/ stripe[s].state = "draft" /\ StripeMoves(s, "deleted") /\ Emit("deleted", s)
    /\ UNCHANGED <<row, keys, op, payments, voidJobs, reopened>>

-----------------------------------------------------------------------------
SendStep(p) ==
    \/ Create(p) \/ Attach(p) \/ Finalize(p) \/ Send(p) \/ StripeError(p)
    \/ Persist(p) \/ Mark(p) \/ SendThrows(p)
    \/ Rollback(p) \/ RollbackThrows(p) \/ VoidRolledBack(p)

Continue(p) == SendStep(p) \/ VoidStripe(p) \/ EditItems(p) \/ SetStatus(p) \/ Delete(p)

Begin(p) == Lock(p) \/ VoidLocally(p) \/ CheckUpdate(p) \/ CheckDelete(p) \/ SyncRead(p)

Webhook(s) ==
    \/ PaidWebhook(s)
    \/ StatusWebhook("payment_failed", s, OverdueRow)
    \/ StatusWebhook("voided", s, CancelledRow)
    \/ StatusWebhook("deleted", s, DeletedRow)

Job(s) ==
    \/ PaymentJob(s)
    \/ \E left \in 1..MaxAttempts : ReconcileVoid([invoice |-> s, left |-> left])

Outside(s) == Pay(s) \/ PaymentFails(s) \/ InDashboard(s)

Next ==
    \/ \E p \in Handlers : Begin(p) \/ Continue(p) \/ Crash(p)
    \/ \E s \in StripeIds : Webhook(s) \/ Job(s) \/ Outside(s)

Spec == Init /\ [][Next]_vars

\* Handlers run to their end, webhooks are delivered and jobs are run; nobody
\* has to begin anything or to pay.
Fairness ==
    /\ \A p \in Handlers : WF_vars(Continue(p))
    /\ \A s \in StripeIds :
          /\ WF_vars(PaidWebhook(s))
          /\ WF_vars(PaymentJob(s))
          /\ \A left \in 1..MaxAttempts :
                WF_vars(ReconcileVoid([invoice |-> s, left |-> left]))

FairSpec == Spec /\ Fairness

-----------------------------------------------------------------------------
(* Properties.                                                             *)

\* At most one request is inside sendInvoice (lockInvoiceForSending): two are
\* only after a user's PATCH has taken the invoice back to draft under a sender.
OneSender == reopened \/ \A p, q \in Senders : p = q

\* The row names only invoices that Stripe has finalized.  It is why a sync
\* cannot turn a row back to draft, and why deleting a draft in the dashboard
\* cannot delete the row.
LinkedIsFinalized == row.invoice # None => stripe[row.invoice].state \in Finalized

\* A row is paid only when Stripe holds the money.
PaidMeansMoney ==
    row.status = "paid" => \E s \in StripeIds : stripe[s].state = "paid"

\* However often sending is retried, the client holds one payable or paid
\* invoice: the idempotency keys carry over from attempt to attempt.
BilledOnce ==
    \A s, t \in StripeIds :
       {stripe[s].state, stripe[t].state} \subseteq {"open", "uncollectible", "paid"} => s = t

\* An invoice becomes a draft again only because a sender gives up or a user
\* says so: no sync, webhook or job brings one back with what it read before.
BackToDraft ==
    [][row.status # "draft" /\ row'.status = "draft" =>
          \E p \in Handlers :
             /\ op'[p] # op[p]
             /\ \/ SetsDraft(p)
                \/ p \in Senders /\ p \notin Senders' /\ row.status = "sending"]_vars

\* A send ends: the row leaves sending, or the request that was sending it is
\* gone.  And what a queued reconciliation is to void does not stay payable,
\* unless every attempt has failed and the queue shows it.
SendsAndVoidsEnd ==
    /\ (row.status = "sending" /\ ~row.deleted)
          ~> (row.status # "sending" \/ row.deleted \/ Senders = {})
    /\ \A s \in StripeIds :
          (Owed(s) /\ \E j \in voidJobs : j.invoice = s)
             ~> (~Owed(s) \/ [invoice |-> s, left |-> 0] \in voidJobs)
=============================================================================
