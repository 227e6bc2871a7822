-------------------------------- MODULE JobQueue --------------------------------
(***************************************************************************)
(* The Graphile Worker queue as src/shared/queue/queue.manager.ts and      *)
(* src/shared/queue/worker-runner.ts use it: jobs with a key, a number of  *)
(* attempts, several workers.  Graphile Worker is a library; what is       *)
(* modelled is what its documentation of jobKey promises:                  *)
(*   - adding a job with a key replaces the job of that key, whether it    *)
(*     waits or has failed for good, and gives it all its attempts;        *)
(*   - if that job is being run, the run goes on, but it is no longer the  *)
(*     job of the key: its failure is not retried, its end removes nothing.*)
(* A job whose attempts are used up stays in the table.                    *)
(***************************************************************************)
EXTENDS Integers, FiniteSets

CONSTANTS Workers,      \* jobs run at the same time: processes x concurrency
          MaxAttempts   \* WEBHOOK_MAX_RETRIES

ASSUME QueueAssumption ==
    /\ MaxAttempts \in Nat \ {0}
    /\ IsFiniteSet(Workers)
    /\ Workers \cap {"none", "waiting", "failed"} = {}

Keys == {"webhook", "payment"}   \* the event's id, invoice-payment:<org>:<invoice>

VARIABLES jobs,   \* the job of each key; a running one has its worker as state
          at,     \* what each worker is about to do
          count   \* the retry count each worker has read in a row, 0 for none

queueVars == <<jobs, at, count>>

NoJob == [state |-> "none", left |-> 0]
JobStates == {"none", "waiting", "failed"} \cup Workers

QueueInit ==
    /\ jobs = [k \in Keys |-> NoJob]
    /\ at = [w \in Workers |-> "idle"]
    /\ count = [w \in Workers |-> 0]

AddJob(k) ==
    jobs' = [jobs EXCEPT ![k] = [state |-> "waiting", left |-> MaxAttempts]]

Claimable(w, k) == at[w] = "idle" /\ jobs[k].state = "waiting"

Claim(w, k) ==
    jobs' = [jobs EXCEPT ![k] = [state |-> w, left |-> @.left - 1]]

\* The task returned: its job is deleted.
Complete(w) ==
    /\ jobs' = [k \in Keys |-> IF jobs[k].state = w THEN NoJob ELSE jobs[k]]
    /\ at' = [at EXCEPT ![w] = "idle"]

\* The task threw, or its process died: the job waits for its next attempt.
Retried(job) ==
    [job EXCEPT !.state = IF job.left > 0 THEN "waiting" ELSE "failed"]

Abandon(w) ==
    /\ jobs' = [k \in Keys |->
                   IF jobs[k].state = w THEN Retried(jobs[k]) ELSE jobs[k]]
    /\ at' = [at EXCEPT ![w] = "idle"]

Go(w, step) == at' = [at EXCEPT ![w] = step]

\* Waiting, being run, or failed for good and kept for an operator to see.
HasJob(k) == jobs[k].state # "none"
=============================================================================
