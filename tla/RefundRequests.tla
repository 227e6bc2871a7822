---------------------------- MODULE RefundRequests ----------------------------
(***************************************************************************)
(* Refund requests of one paid invoice (src/modules/invoices/services/     *)
(* refund-requests.service.ts, src/engines/financial/refund-*.ts): a       *)
(* client creates and cancels, the practice reviews and executes, Stripe   *)
(* pays back, the books follow, a worker job repairs what was left half    *)
(* done.  Every status change is UPDATE ... WHERE status = <from>.         *)
(*                                                                         *)
(* Stripe is modelled by what the code relies on: a refund with the same   *)
(* idempotency key happens once, a cancelled payment intent cannot be      *)
(* refunded.  It does NOT cap the sum of refunds here, so that what keeps  *)
(* it within the payment is the code alone.                                *)
(*                                                                         *)
(* The billing row and the retainer cache written by the transaction that  *)
(* marks a request executed are left to RefundBilling and TrustLedger.     *)
(***************************************************************************)
EXTENDS RefundedPayment

CONSTANTS Executors,         \* HTTP requests that execute a refund
          Amounts,           \* cents a client may ask for
          Intents,           \* states the payment intent may begin in; "missing"
                             \* is an invoice without stripe_payment_intent_id
          PayoutFeeRecorded, \* the payout row has a positive metered fee
          Faults             \* what goes wrong, see AllFaults

AllFaults == {"lost_reply",  \* the connection to Stripe breaks, before or after
              "lost_cancel", \* the reply to a payment intent's cancellation is lost
              "api_error",   \* Stripe did it and answered with a server error
              "db",          \* a database statement throws
              "queue",       \* a reconciliation job cannot be queued
              "dispatch",    \* the event cannot be stored
              "crash",       \* the process dies, or an error is not caught
              "operator"}    \* somebody queues a reconciliation by hand

ASSUME RefundAssumption ==
    /\ Amounts \subseteq Nat \ {0}
    /\ Intents \subseteq {"missing", "capturable", "captured"}
    /\ PayoutFeeRecorded \in BOOLEAN
    /\ Faults \subseteq AllFaults

Statuses == {"none", "requested", "approved", "rejected", "cancelled",
             "executing", "executed", "failed"}
Blocking == {"requested", "approved", "executing"}

Reserved == {"requested", "approved", "executing", "executed"}

VARIABLES status,    \* refund_requests.status, "none" before the insert
          asked,     \* requested_amount; executed_amount is the same
          creating,  \* createRequest transactions that hold the invoice row
          exec,      \* what each executor does, and for which request
          returned,  \* cents Stripe gave back, by idempotency key
          intent,    \* status of the invoice's Stripe payment intent
          jobs,      \* queued process-refund-reconciliation jobs
          announced, \* requests with a stored InvoiceRefunded event
          hidden,    \* history: requests Stripe paid back while answering that
                     \* it had not
          abandoned  \* history: requests an executor left 'executing'

vars == <<status, asked, creating, exec, returned, intent, jobs, announced,
          hidden, abandoned>>

Steps == {"claimed", "checked", "returned", "persisted"}
Idle  == [at |-> "idle"]
At(step, q) == [at |-> step, request |-> q]

TypeOK ==
    /\ status \in [Requests -> Statuses]
    /\ asked \in [Requests -> Nat]
    /\ creating \subseteq Requests
    /\ exec \in [Executors -> {Idle} \cup [at : Steps, request : Requests]]
    /\ returned \in [Requests -> Nat]
    /\ intent \in {"missing", "capturable", "captured", "cancelled"}
    /\ jobs \subseteq Requests
    /\ announced \subseteq Requests
    /\ hidden \subseteq Requests
    /\ abandoned \subseteq Requests

Init ==
    /\ status = [q \in Requests |-> "none"]
    /\ asked = [q \in Requests |-> 0]
    /\ creating = {}
    /\ exec = [e \in Executors |-> Idle]
    /\ returned = [q \in Requests |-> 0]
    /\ intent \in Intents
    /\ jobs = {}
    /\ announced = {}
    /\ hidden = {}
    /\ abandoned = {}

-----------------------------------------------------------------------------
\* Mutant: createRequest does not lock the invoice row.
RowFreeWithoutLock == TRUE

\* SELECT ... FOR UPDATE on the invoice returns.
RowFree == creating = {}

ReservedBy(Q) ==
    SumFunctionOnSet(asked, {q \in Q : status[q] \in Reserved})

\* Mutant: what has been executed is forgotten.
RemainingIgnoresExecuted(Q) ==
    Paid - SumFunctionOnSet(asked, {q \in Q : status[q] \in Blocking})

Remaining(Q) == Paid - ReservedBy(Q)

\* createRequest up to its checks: row lock, no open request, enough left.
StartCreate(q, amount) ==
    /\ status[q] = "none"
    /\ q \notin creating
    /\ RowFree
    /\ \A p \in Requests : status[p] \notin Blocking
    /\ amount <= Remaining(Requests)
    /\ creating' = creating \cup {q}
    /\ asked' = [asked EXCEPT ![q] = amount]
    /\ UNCHANGED <<status, exec, returned, intent, jobs, announced,
                   hidden, abandoned>>

\* The insert and the commit, or the rollback.
EndCreate(q) ==
    /\ q \in creating
    /\ creating' = creating \ {q}
    /\ \/ status' = [status EXCEPT ![q] = "requested"]
       \/ "db" \in Faults /\ UNCHANGED status
    /\ UNCHANGED <<asked, exec, returned, intent, jobs, announced,
                   hidden, abandoned>>

Transition(q, from, to) ==
    status' = [status EXCEPT ![q] = IF @ = from THEN to ELSE @]

\* Mutant: any open request can be cancelled.
CancellableAnyOpen(q) == status[q] \in Blocking

Cancellable(q) == status[q] = "requested"

\* Mutant: Stripe's spelling, which refund_status_check does not know.
CancelledAsStripeSpells == "canceled"

Cancelled == "cancelled"

CancelRequest(q) ==
    /\ Cancellable(q)
    /\ status' = [status EXCEPT ![q] = Cancelled]
    /\ UNCHANGED <<asked, creating, exec, returned, intent, jobs, announced,
                   hidden, abandoned>>

ReviewRequest(q, verdict) ==
    /\ status[q] = "requested"
    /\ status' = [status EXCEPT ![q] = verdict]
    /\ UNCHANGED <<asked, creating, exec, returned, intent, jobs, announced,
                   hidden, abandoned>>

-----------------------------------------------------------------------------
(* executeRefund, one step per awaited call that another process can see.  *)

Works(e, step) == exec[e].at = step

Claim(e, q) ==
    /\ Works(e, "idle")
    /\ status[q] = "approved"
    /\ Transition(q, "approved", "executing")
    /\ exec' = [exec EXCEPT ![e] = At("claimed", q)]
    /\ UNCHANGED <<asked, creating, returned, intent, jobs, announced,
                   hidden, abandoned>>

\* Mutant: a refund that may have been paid back is given up.
BackOffForgets(q) == Transition(q, "executing", "failed") /\ UNCHANGED abandoned

\* The update that would have ended the claim fails, or is never reached.
Abandon(q) ==
    /\ abandoned' = abandoned \cup {q}
    /\ UNCHANGED status

\* rollbackExecutingRefundToApproved swallows the error of its own update.
BackOff(q) ==
    \/ Transition(q, "executing", "approved") /\ UNCHANGED abandoned
    \/ "db" \in Faults /\ Abandon(q)

\* No payment intent on the invoice, or the preparation threw.
PrepareFails(e) ==
    /\ Works(e, "claimed")
    /\ intent = "missing" \/ "db" \in Faults
    /\ BackOff(exec[e].request)
    /\ exec' = [exec EXCEPT ![e] = Idle]
    /\ UNCHANGED <<asked, creating, returned, intent, jobs, announced, hidden>>

\* What is left is computed under the row lock, from the other requests.
CheckBalance(e) ==
    LET q == exec[e].request
    IN  /\ Works(e, "claimed")
        /\ intent # "missing"
        /\ RowFree
        /\ IF asked[q] <= Remaining(Requests \ {q})
           THEN /\ exec' = [exec EXCEPT ![e] = At("checked", q)]
                /\ UNCHANGED <<status, abandoned>>
           ELSE /\ exec' = [exec EXCEPT ![e] = Idle]
                /\ BackOff(q)
        /\ UNCHANGED <<asked, creating, returned, intent, jobs, announced, hidden>>

\* maybeCancelCancelablePaymentIntent for a full refund on the same day.  An
\* error of the cancel call is swallowed and the refund is created instead.
CancelIntent(e) ==
    LET q == exec[e].request
    IN  /\ Works(e, "checked")
        /\ intent = "capturable"
        /\ asked[q] = Paid
        /\ intent' = "cancelled"
        /\ returned' = [returned EXCEPT ![q] = Paid]
        /\ \/ /\ exec' = [exec EXCEPT ![e] = At("returned", q)]
              /\ UNCHANGED hidden
           \/ /\ "lost_cancel" \in Faults
              /\ hidden' = hidden \cup {q}
              /\ UNCHANGED exec
        /\ UNCHANGED <<status, asked, creating, jobs, announced, abandoned>>

\* Mutant: the idempotency key is not sent.
AfterRefundWithoutKey(q) == [returned EXCEPT ![q] = @ + asked[q]]

\* What Stripe has returned once it has performed stripe.refunds.create.
AfterRefund(q) == [returned EXCEPT ![q] = IF @ = 0 THEN asked[q] ELSE @]

Performed(q) ==
    /\ intent = "captured"
    /\ returned' = AfterRefund(q)

CreateRefund(e) ==
    /\ Works(e, "checked")
    /\ Performed(exec[e].request)
    /\ exec' = [exec EXCEPT ![e] = At("returned", exec[e].request)]
    /\ UNCHANGED <<status, asked, creating, intent, jobs, announced,
                   hidden, abandoned>>

\* Connection and rate limit errors, whether or not Stripe paid back.
TransientError(e) ==
    /\ "lost_reply" \in Faults
    /\ Works(e, "checked")
    /\ Performed(exec[e].request) \/ UNCHANGED returned
    /\ BackOff(exec[e].request)
    /\ exec' = [exec EXCEPT ![e] = Idle]
    /\ UNCHANGED <<asked, creating, intent, jobs, announced, hidden>>

\* Mutant: the failure is recorded only for a request no longer executing.
GiveUpWrongly(q) == Transition(q, "approved", "failed") /\ UNCHANGED abandoned

GiveUp(q) ==
    \/ Transition(q, "executing", "failed") /\ UNCHANGED abandoned
    \/ "db" \in Faults /\ Abandon(q)

\* Every other error marks the request failed: Stripe refused, which a key
\* it has honoured before never brings, or it failed after paying back.
PermanentError(e) ==
    LET q == exec[e].request
    IN  /\ Works(e, "checked")
        /\ \/ /\ returned[q] = 0 \/ intent = "cancelled"
              /\ UNCHANGED <<returned, hidden>>
           \/ /\ "api_error" \in Faults
              /\ Performed(q)
              /\ hidden' = hidden \cup {q}
        /\ GiveUp(q)
        /\ exec' = [exec EXCEPT ![e] = Idle]
        /\ UNCHANGED <<asked, creating, intent, jobs, announced>>

\* Mutant: the request is marked executed whatever its status.
CanBookAlways(q) == status[q] # "none"

CanBook(q) == status[q] = "executing"

\* persistExecutedRefund, under the row lock; a request that is no longer
\* executing is left to the reconciliation job, and an error of the queue is
\* swallowed.
Persist(e) ==
    LET q == exec[e].request
    IN  /\ Works(e, "returned")
        /\ RowFree
        /\ PayoutFeeRecorded
        /\ IF CanBook(q)
           THEN /\ status' = [status EXCEPT ![q] = "executed"]
                /\ exec' = [exec EXCEPT ![e] = At("persisted", q)]
                /\ UNCHANGED jobs
           ELSE /\ \/ jobs' = jobs \cup {q}
                   \/ "queue" \in Faults /\ UNCHANGED jobs
                /\ exec' = [exec EXCEPT ![e] = Idle]
                /\ UNCHANGED status
        /\ UNCHANGED <<asked, creating, returned, intent, announced,
                       hidden, abandoned>>

\* persistExecutedRefund throws: requirePayoutMeteredFeeCents finds no fee,
\* or a statement fails.  Nobody catches it.
PersistThrows(e) ==
    /\ Works(e, "returned")
    /\ ~PayoutFeeRecorded \/ "db" \in Faults
    /\ Abandon(exec[e].request)
    /\ exec' = [exec EXCEPT ![e] = Idle]
    /\ UNCHANGED <<asked, creating, returned, intent, jobs, announced, hidden>>

\* InvoiceRefunded.dispatch outside a transaction is fire and forget: its
\* failure never reaches the catch block that would queue the job.
Dispatch(e) ==
    /\ Works(e, "persisted")
    /\ exec' = [exec EXCEPT ![e] = Idle]
    /\ \/ announced' = announced \cup {exec[e].request}
       \/ "dispatch" \in Faults /\ UNCHANGED announced
    /\ UNCHANGED <<status, asked, creating, returned, intent, jobs,
                   hidden, abandoned>>

Crash(e) ==
    /\ "crash" \in Faults
    /\ exec[e] # Idle
    /\ Abandon(exec[e].request)
    /\ exec' = [exec EXCEPT ![e] = Idle]
    /\ UNCHANGED <<asked, creating, returned, intent, jobs, announced, hidden>>

-----------------------------------------------------------------------------
(* reconcileRefundExecution.  A job that throws is tried again, five times *)
(* in all; the retry finds the request executed if persistence was done.   *)

\* An operator who sees money returned for a request queues the job, at any
\* moment: its executor may still be at work.
QueueByHand(q) ==
    /\ "operator" \in Faults
    /\ returned[q] > 0
    /\ q \notin jobs
    /\ jobs' = jobs \cup {q}
    /\ UNCHANGED <<status, asked, creating, exec, returned, intent, announced,
                   hidden, abandoned>>

ReconcileExecuting(q) ==
    /\ q \in jobs
    /\ RowFree
    /\ PayoutFeeRecorded
    /\ status[q] = "executing"
    /\ status' = [status EXCEPT ![q] = "executed"]
    /\ UNCHANGED <<asked, creating, exec, returned, intent, jobs, announced,
                   hidden, abandoned>>

ReconcileExecuted(q) ==
    /\ q \in jobs
    /\ status[q] = "executed"
    /\ announced' = announced \cup {q}
    /\ jobs' = jobs \ {q}
    /\ UNCHANGED <<status, asked, creating, exec, returned, intent,
                   hidden, abandoned>>

\* The last attempt of a job has thrown: the request is in a status that is
\* not reconciled, its fee is missing, or a statement or the event failed.
JobGivenUp(q) ==
    /\ q \in jobs
    /\ \/ status[q] \notin {"executing", "executed"}
       \/ status[q] = "executing" /\ ~PayoutFeeRecorded
       \/ {"db", "dispatch"} \cap Faults # {}
    /\ jobs' = jobs \ {q}
    /\ UNCHANGED <<status, asked, creating, exec, returned, intent, announced,
                   hidden, abandoned>>

Client(q) ==
    \/ \E amount \in Amounts : StartCreate(q, amount)
    \/ EndCreate(q)
    \/ CancelRequest(q)

Practice(q) == \E verdict \in {"approved", "rejected"} : ReviewRequest(q, verdict)

Worker(q) == ReconcileExecuting(q) \/ ReconcileExecuted(q) \/ JobGivenUp(q)

Proceed(e) ==
    \/ PrepareFails(e)
    \/ CheckBalance(e)
    \/ CancelIntent(e)
    \/ CreateRefund(e)
    \/ TransientError(e)
    \/ PermanentError(e)
    \/ Persist(e)
    \/ PersistThrows(e)
    \/ Dispatch(e)

Next ==
    \/ \E q \in Requests : Client(q) \/ Practice(q) \/ QueueByHand(q) \/ Worker(q)
    \/ \E e \in Executors, q \in Requests : Claim(e, q)
    \/ \E e \in Executors : Proceed(e) \/ Crash(e)

Spec == Init /\ [][Next]_vars

\* A request that is being served goes on, and the worker runs its jobs.
Fairness ==
    /\ \A e \in Executors : WF_vars(Proceed(e))
    /\ \A q \in Requests : WF_vars(EndCreate(q)) /\ WF_vars(Worker(q))

FairSpec == Spec /\ Fairness

-----------------------------------------------------------------------------
(* Properties.                                                             *)

\* createRequest keeps one open request per invoice, however its
\* transactions interleave with executions, failures and reconciliation.
OneOpenRequest ==
    \A p, q \in Requests :
       (status[p] \in Blocking /\ status[q] \in Blocking) => p = q

\* What open and executed requests reserve never exceeds the payment, and
\* Stripe never gives back more than the client paid, with no cap of its own,
\* over retries, lost replies, crashes and reconciliation.
NeverOverRefunded ==
    /\ ReservedBy(Requests) <= Paid
    /\ SumFunctionOnSet(returned, Requests) <= Paid

\* Under every fault, money that Stripe gave back belongs to a request whose
\* amount is reserved, so that it is neither given again nor forgotten; only
\* where Stripe itself denied that it had paid back may the request be failed.
ReturnedIsReserved ==
    \A q \in Requests :
       returned[q] > 0 =>
          \/ status[q] \in {"approved", "executing", "executed"}
          \/ status[q] = "failed" /\ q \in hidden

\* The books show a refund only when its money has gone back, to the cent.
ExecutedMeansReturned ==
    \A q \in Requests : status[q] = "executed" => returned[q] = asked[q]

\* Money leaves for a request only while it is claimed for execution.
MoneyMovesUnderClaim ==
    [][\A q \in Requests : returned'[q] > returned[q] => status[q] = "executing"]_vars

Abstract == INSTANCE RefundContract WITH
    paidBack <- returned,
    booked <- {q \in Requests : status[q] = "executed"}

\* The workflow keeps the contract of RefundContract.
KeepsContract == Abstract!Spec

\* A claim ends, with or without a payment intent, whatever Stripe answers and
\* whoever reconciles, unless its executor died or lost the statement that
\* would have ended it.
RefundsSettle ==
    \A q \in Requests :
       status[q] = "executing" ~> (status[q] # "executing" \/ q \in abandoned)
=============================================================================
