------------------------------ MODULE WebhookInbox ------------------------------
(***************************************************************************)
(* The inbox of Stripe webhooks, for one event: the HTTP endpoint          *)
(* (src/modules/webhooks/http.ts) stores the event once, whatever number   *)
(* of times Stripe delivers it, and queues a job; the job's task           *)
(* (src/workers/tasks/process-stripe-webhook.ts) runs the event's handler  *)
(* and marks the row; a worker that boots queues failed rows again.        *)
(*                                                                         *)
(* What the event's handler does is the business of PaymentPipeline.  Time *)
(* is abstracted: next_retry_at, once set, may have passed.                *)
(***************************************************************************)
EXTENDS JobQueue

CONSTANT MaxFailures   \* webhook_events.max_retries

ASSUME InboxAssumption == MaxFailures \in Nat

VARIABLES row,      \* the event's row of webhook_events
          requests, \* HTTP requests that stored it and have not queued the job
          acknowledged, \* Stripe got an answer 200
          scanned   \* a booting worker has read the row and will queue it

inboxVars == <<row, requests, acknowledged, scanned>>

InboxInit ==
    /\ row = [stored |-> FALSE, processed |-> FALSE, retryCount |-> 0, retryAt |-> FALSE]
    /\ requests = 0
    /\ acknowledged = FALSE
    /\ scanned = FALSE

\* createIfNotExists; a processed event is answered at once.
Store ==
    /\ row' = [row EXCEPT !.stored = TRUE]
    /\ IF row.processed
         THEN acknowledged' = TRUE /\ UNCHANGED requests
         ELSE requests' = requests + 1 /\ UNCHANGED acknowledged
    /\ UNCHANGED <<queueVars, scanned>>

Enqueue ==
    /\ requests > 0
    /\ AddJob("webhook")
    /\ requests' = requests - 1
    /\ acknowledged' = TRUE
    /\ UNCHANGED <<at, count, row, scanned>>

\* The job cannot be added, or it was and the answer does not reach Stripe.
EnqueueThrows ==
    /\ requests > 0
    /\ AddJob("webhook") \/ UNCHANGED jobs
    /\ requests' = requests - 1
    /\ UNCHANGED <<at, count, row, acknowledged, scanned>>

\* findById; a processed event ends the job.
StartWebhook(w) ==
    /\ Claimable(w, "webhook")
    /\ IF row.processed
         THEN jobs' = [jobs EXCEPT !["webhook"] = NoJob] /\ UNCHANGED at
         ELSE Claim(w, "webhook") /\ Go(w, "handle_webhook")
    /\ UNCHANGED <<count, inboxVars>>

\* The job ends here: what is left of the task writes nothing.
MarkProcessed(w) ==
    /\ at[w] = "mark_processed"
    /\ row' = [row EXCEPT !.processed = TRUE]
    /\ Complete(w)
    /\ UNCHANGED <<count, requests, acknowledged, scanned>>

\* The task's catch block: markFailed reads the row ...
WebhookThrows(w) ==
    /\ Go(w, "mark_failed")
    /\ count' = [count EXCEPT ![w] = row.retryCount]
    /\ UNCHANGED <<jobs, inboxVars>>

\* ... and writes it, whatever has happened to it since; the error is rethrown.
MarkFailed(w) ==
    /\ at[w] = "mark_failed"
    /\ row' = [row EXCEPT !.retryCount = count[w] + 1,
                          !.retryAt = count[w] + 1 < MaxFailures,
                          !.processed = FALSE]
    /\ Abandon(w)
    /\ count' = [count EXCEPT ![w] = 0]
    /\ UNCHANGED <<requests, acknowledged, scanned>>

\* retryFailedWebhooks, when a process boots.
Scan ==
    /\ ~scanned
    /\ row.stored /\ ~row.processed /\ row.retryAt
    /\ scanned' = TRUE
    /\ UNCHANGED <<queueVars, row, requests, acknowledged>>

Requeue ==
    /\ scanned
    /\ AddJob("webhook")
    /\ scanned' = FALSE
    /\ UNCHANGED <<at, count, row, requests, acknowledged>>
=============================================================================
