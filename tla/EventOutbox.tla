------------------------------- MODULE EventOutbox -------------------------------
(***************************************************************************)
(* The transactional outbox (src/shared/events/event.ts,                   *)
(* src/shared/events/tasks/process-outbox-event.ts): events are rows; a    *)
(* task, started by a job of the event, by NOTIFY or by cron every minute, *)
(* reads those that are not processed, without a lock, runs their handlers *)
(* and marks them; an event whose handlers fail too often is moved to the  *)
(* dead letter table.                                                      *)
(*                                                                         *)
(* A batch is modelled by one worker per event: the only thing the events  *)
(* of a batch share is that their rows were read together, and a worker    *)
(* here may wait as long as it likes between its read and its handlers.    *)
(* What the handlers do is the business of PaymentPipeline.                *)
(***************************************************************************)
EXTENDS JobQueue, Sequences

CONSTANTS MaxRetries    \* MAX_RETRIES of process-outbox-event.ts

ASSUME OutboxAssumption == MaxRetries \in Nat \ {0}

EventTypes  == {"payment_received", "invoice_paid"}
EventStates == {"pending", "processed", "dead"}

VARIABLES events,    \* of each type, the events ever stored, oldest first
          handling   \* the event each worker works on

Fresh   == [state |-> "pending", retryCount |-> 0]
NoEvent == [type |-> "none", nr |-> 0]

OutboxInit ==
    /\ events = [type \in EventTypes |-> << >>]
    /\ handling = [w \in Workers |-> NoEvent]

Publish(type) == events' = [events EXCEPT ![type] = Append(@, Fresh)]

\* Mutant: the last attempt is not selected.
DueTooFew(e) == e.state = "pending" /\ e.retryCount < MaxRetries - 1

Due(e) == e.state = "pending" /\ e.retryCount < MaxRetries

StartEvent(w, type, n) ==
    /\ at[w] = "idle"
    /\ Due(events[type][n])
    /\ Go(w, "handle_event")
    /\ handling' = [handling EXCEPT ![w] = [type |-> type, nr |-> n]]
    /\ count' = [count EXCEPT ![w] = events[type][n].retryCount]
    /\ UNCHANGED <<jobs, events>>

Forget(w) ==
    /\ handling' = [handling EXCEPT ![w] = NoEvent]
    /\ count' = [count EXCEPT ![w] = 0]

Handled(w) == events[handling[w].type][handling[w].nr]

\* The row of the event the worker handles becomes e.
Update(w, e) ==
    events' = [events EXCEPT ![handling[w].type][handling[w].nr] = e]

\* The UPDATE finds no row when the event has been moved meanwhile.
Processed(e) == [e EXCEPT !.state = IF @ = "dead" THEN "dead" ELSE "processed"]

MarkEvent(w) ==
    /\ at[w] = "mark_event"
    /\ Update(w, Processed(Handled(w)))
    /\ Forget(w)
    /\ Go(w, "idle")
    /\ UNCHANGED jobs

\* Mutant: one retry too many.
GivenUpLate(n) == n > MaxRetries

GivenUp(n) == n >= MaxRetries

\* The catch block, with the retry count read before the handlers ran: the
\* event goes to the dead letter table, processed or not, or is retried.
Refused(e, n) ==
    IF GivenUp(n) THEN [e EXCEPT !.state = "dead"]
    ELSE IF e.state = "dead" THEN e
    ELSE [e EXCEPT !.retryCount = n]

EventThrows(w) ==
    /\ at[w] \in {"handle_event", "mark_event"}
    /\ Update(w, Refused(Handled(w), count[w] + 1))
    /\ Forget(w)
    /\ Go(w, "idle")
    /\ UNCHANGED jobs

\* An event of the type is in one of the states.
Exists(type, S) ==
    \E n \in DOMAIN events[type] : events[type][n].state \in S

\* Stored and not yet handled, or in the dead letter table.
Open(type) == Exists(type, {"pending", "dead"})
Dead(type) == Exists(type, {"dead"})
=============================================================================
