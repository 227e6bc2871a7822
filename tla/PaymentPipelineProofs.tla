-------------------------- MODULE PaymentPipelineProofs --------------------------
(***************************************************************************)
(* Proofs about PaymentPipeline, for any workers, attempts, retries and    *)
(* faults.                                                                 *)
(*                                                                         *)
(* The tables change in few ways: an event is appended (Publish) or one    *)
(* row of the outbox is rewritten (Update); a job is added, claimed,       *)
(* completed or abandoned.  A lemma says what each does; the steps of the  *)
(* system are then taken one by one.                                       *)
(***************************************************************************)
EXTENDS PaymentPipeline, FiniteSetTheorems, TLAPS

USE QueueAssumption, InboxAssumption, OutboxAssumption, FaultAssumption
USE DEF QueueAssumption, InboxAssumption, OutboxAssumption, FaultAssumption

EventsTyped == events \in [EventTypes -> Seq(EventRows)]
JobsTyped   == jobs \in [Keys -> [state : JobStates, left : 0..MaxAttempts]]

\* An event is appended: every other row stays where it is.
LEMMA PublishAppends ==
    ASSUME EventsTyped, NEW type \in EventTypes, Publish(type)
    PROVE  /\ EventsTyped'
           /\ \A t \in EventTypes : \A n \in DOMAIN events[t] :
                 n \in DOMAIN events'[t] /\ events'[t][n] = events[t][n]
           /\ \A t \in EventTypes : \A n \in DOMAIN events'[t] :
                 n \in DOMAIN events[t] \/ (t = type /\ events'[t][n] = Fresh)
           /\ events'[type] # << >>
<1>1. Fresh \in EventRows
  BY DEF Fresh, EventRows, EventStates
<1>2. events[type] \in Seq(EventRows)
  BY DEF EventsTyped
<1>3. /\ Append(events[type], Fresh) \in Seq(EventRows)
      /\ DOMAIN Append(events[type], Fresh) = 1..Len(events[type]) + 1
      /\ \A n \in 1..Len(events[type]) :
            Append(events[type], Fresh)[n] = events[type][n]
      /\ Append(events[type], Fresh)[Len(events[type]) + 1] = Fresh
      /\ Append(events[type], Fresh) # << >>
      /\ DOMAIN events[type] = 1..Len(events[type])
  BY <1>1, <1>2
<1>4. /\ EventsTyped'
      /\ \A t \in EventTypes : t # type => events'[t] = events[t]
      /\ events'[type] = Append(events[type], Fresh)
  BY <1>3 DEF Publish, EventsTyped
<1>5. \A n \in 1..Len(events[type]) + 1 : n \in 1..Len(events[type]) \/ n = Len(events[type]) + 1
  BY <1>2
<1>6. 1..Len(events[type]) \subseteq 1..Len(events[type]) + 1
  BY <1>2
<1> QED
  BY <1>3, <1>4, <1>5, <1>6

\* One row is rewritten: the others stay as they are, and none goes.
LEMMA UpdateRewrites ==
    ASSUME EventsTyped, NEW w \in Workers, Handles(w), NEW e \in EventRows, Update(w, e)
    PROVE  /\ EventsTyped'
           /\ \A t \in EventTypes : DOMAIN events'[t] = DOMAIN events[t]
           /\ \A t \in EventTypes : \A n \in DOMAIN events[t] :
                 events'[t][n] = IF t = handling[w].type /\ n = handling[w].nr
                                 THEN e ELSE events[t][n]
<1> DEFINE type == handling[w].type
           nr   == handling[w].nr
           s    == events[type]
<1>1. type \in EventTypes /\ s \in Seq(EventRows) /\ nr \in DOMAIN s
  BY DEF EventsTyped, Handles
<1>2. /\ [s EXCEPT ![nr] = e] \in Seq(EventRows)
      /\ DOMAIN [s EXCEPT ![nr] = e] = DOMAIN s
      /\ \A n \in DOMAIN s : [s EXCEPT ![nr] = e][n] = IF n = nr THEN e ELSE s[n]
  BY <1>1
<1>3. events' = [events EXCEPT ![type] = [s EXCEPT ![nr] = e]]
  BY <1>1 DEF Update, EventsTyped
<1>4. /\ events' \in [EventTypes -> Seq(EventRows)]
      /\ events'[type] = [s EXCEPT ![nr] = e]
      /\ \A t \in EventTypes : t # type => events'[t] = events[t]
  BY <1>1, <1>2, <1>3 DEF EventsTyped
<1> QED
  BY <1>1, <1>2, <1>4 DEF EventsTyped

-----------------------------------------------------------------------------
\* What a step does to the jobs.
JobsChange ==
    \/ UNCHANGED jobs
    \/ \E k \in Keys : AddJob(k)
    \/ \E w \in Workers, k \in Keys : jobs[k].state = "waiting" /\ Claim(w, k)
    \/ jobs' = [jobs EXCEPT !["webhook"] = NoJob]
    \/ \E w \in Workers : Complete(w) \/ Abandon(w)

\* What is left counts the attempts: a waiting job has at least one.
JobsLeft == \A k \in Keys : jobs[k].state = "waiting" => jobs[k].left > 0

LEMMA JobsStayTyped ==
    ASSUME JobsTyped, JobsLeft, JobsChange
    PROVE  JobsTyped' /\ JobsLeft'
<1> USE DEF JobsTyped, JobsLeft
<1>0. NoJob \in [state : JobStates, left : 0..MaxAttempts] /\ NoJob.state # "waiting"
  BY DEF NoJob, JobStates
<1>1. CASE UNCHANGED jobs
  BY <1>1
<1>2. ASSUME NEW k \in Keys, AddJob(k) PROVE JobsTyped' /\ JobsLeft'
  BY <1>2 DEF AddJob, JobStates
<1>3. ASSUME NEW w \in Workers, NEW k \in Keys, jobs[k].state = "waiting", Claim(w, k)
      PROVE JobsTyped' /\ JobsLeft'
  BY <1>3 DEF Claim, JobStates
<1>4. CASE jobs' = [jobs EXCEPT !["webhook"] = NoJob]
  BY <1>0, <1>4
<1>5. ASSUME NEW w \in Workers, Complete(w) PROVE JobsTyped' /\ JobsLeft'
  BY <1>0, <1>5 DEF Complete
<1>6. ASSUME NEW w \in Workers, Abandon(w) PROVE JobsTyped' /\ JobsLeft'
  BY <1>6 DEF Abandon, Retried, JobStates
<1> QED
  BY <1>1, <1>2, <1>3, <1>4, <1>5, <1>6 DEF JobsChange
-----------------------------------------------------------------------------
\* One row of Next each, with what the row leaves alone.
Moves ==
    \/ Store /\ UNCHANGED <<events, handling, money>>
    \/ Enqueue /\ UNCHANGED <<events, handling, money>>
    \/ EnqueueThrows /\ UNCHANGED <<events, handling, money>>
    \/ Scan /\ UNCHANGED <<events, handling, money>>
    \/ Requeue /\ UNCHANGED <<events, handling, money>>
    \/ \E w \in Workers :
          \/ StartWebhook(w) /\ UNCHANGED <<events, handling, money>>
          \/ MarkProcessed(w) /\ UNCHANGED <<events, handling, money>>
          \/ MarkFailed(w) /\ UNCHANGED <<events, handling, money>>
          \/ HandleWebhook(w)
          \/ HandlerThrows(w)
          \/ MarkEvent(w) /\ UNCHANGED <<inboxVars, money>>
          \/ StartSomeEvent(w) /\ UNCHANGED <<inboxVars, money>>
          \/ HandleEvent(w)
          \/ ListenerThrows(w)
          \/ StartPayment(w)
          \/ Transfer(w)
          \/ Book(w)
          \/ EndPayment(w)
          \/ PaymentRefused(w)
          \/ PaymentThrows(w)
          \/ Crash(w)

LEMMA NextMoves ==
    ASSUME Next PROVE Moves /\ (faults' = faults \/ (faults < MaxFaults /\ faults' = faults + 1))
BY DEF Next, Request, Work, WebhookTask, OutboxTask, PaymentTask, Boot, Booted, Failure, NoFault, Fault, Moves
\* TypeOK in parts, and what a claimed job needs.
AtTyped    == at \in [Workers -> {"idle"} \cup WebhookSteps \cup EventSteps \cup PaymentSteps]
InboxTyped ==
    /\ row \in [stored : BOOLEAN, processed : BOOLEAN, retryCount : Nat, retryAt : BOOLEAN]
    /\ requests \in Nat /\ acknowledged \in BOOLEAN /\ scanned \in BOOLEAN
CountTyped == count \in [Workers -> Nat]
HandlingTyped ==
    /\ handling \in [Workers -> {NoEvent} \cup [type : EventTypes, nr : Nat]]
    /\ \A w \in Workers : at[w] \in EventSteps => Handles(w)
MoneyTyped ==
    invoice \in Kinds /\ transfers \in Nat /\ booked \in Nat /\ metered \subseteq Fees

Typed == /\ JobsTyped /\ AtTyped /\ InboxTyped /\ CountTyped /\ EventsTyped
         /\ HandlingTyped /\ MoneyTyped

LEMMA MovesChangeJobs ==
    ASSUME Moves PROVE JobsChange
BY DEF Moves, JobsChange, Keys, inboxVars, queueVars, money, Store, Enqueue,
   EnqueueThrows, Scan, Requeue, StartWebhook, MarkProcessed, MarkFailed,
   HandleWebhook, HandlerThrows, WebhookThrows, MarkEvent, StartSomeEvent,
   StartEvent, HandleEvent, QueuePayment, QueueFees, ListenerThrows,
   EventThrows, StartPayment, Claimable, Transfer, Book, EndPayment,
   PaymentRefused, PaymentThrows, Crash

\* The event a worker starts, rewrites or leaves is one of the outbox's rows.
EventsChange ==
    \/ UNCHANGED events
    \/ \E type \in EventTypes : Publish(type)
    \/ \E w \in Workers :
          \/ at[w] = "mark_event" /\ Update(w, Processed(Handled(w)))
          \/ at[w] \in EventSteps /\ Update(w, Refused(Handled(w), count[w] + 1))

LEMMA MovesChangeEvents ==
    ASSUME Moves PROVE EventsChange
BY DEF Moves, EventsChange, EventTypes, EventSteps, inboxVars, queueVars, money,
   Store, Enqueue, EnqueueThrows, Scan, Requeue, StartWebhook, MarkProcessed,
   MarkFailed, HandleWebhook, HandlerThrows, WebhookThrows, MarkEvent,
   StartSomeEvent, StartEvent, HandleEvent, QueuePayment, QueueFees,
   ListenerThrows, EventThrows, StartPayment, Transfer, Book, EndPayment,
   PaymentRefused, PaymentThrows, Crash

\* Everything but the tables of jobs and events.
LEMMA RestStaysTyped ==
    ASSUME Typed, Moves PROVE  AtTyped' /\ InboxTyped' /\ CountTyped' /\ MoneyTyped'
<1> USE DEF Typed
<1> USE DEF AtTyped, InboxTyped, CountTyped, MoneyTyped, inboxVars,
           queueVars, money, EventSteps, WebhookSteps, PaymentSteps, Fees
<1>1. ASSUME Store, UNCHANGED <<events, handling, money>>
      PROVE  AtTyped' /\ InboxTyped' /\ CountTyped' /\ MoneyTyped'
  <2>1. UNCHANGED <<jobs, at, count, scanned, money>> /\ row' = [row EXCEPT !.stored = TRUE]
    BY <1>1 DEF Store, queueVars
  <2>2. row' \in [stored : BOOLEAN, processed : BOOLEAN, retryCount : Nat, retryAt : BOOLEAN]
    BY <2>1 DEF InboxTyped
  <2>3. requests' \in Nat /\ acknowledged' \in BOOLEAN
    <3>1. CASE row.processed
      BY <1>1, <3>1 DEF Store, InboxTyped
    <3>2. CASE ~row.processed
      BY <1>1, <3>2 DEF Store, InboxTyped
    <3> QED
      BY <3>1, <3>2
  <2> QED
    BY <2>1, <2>2, <2>3 DEF AtTyped, InboxTyped, CountTyped, MoneyTyped, money
<1>2. ASSUME Enqueue, UNCHANGED <<events, handling, money>>
      PROVE  AtTyped' /\ InboxTyped' /\ CountTyped' /\ MoneyTyped'
  BY <1>2 DEF Enqueue, AddJob
<1>3. ASSUME EnqueueThrows, UNCHANGED <<events, handling, money>>
      PROVE  AtTyped' /\ InboxTyped' /\ CountTyped' /\ MoneyTyped'
  BY <1>3 DEF EnqueueThrows, AddJob
<1>4. ASSUME Scan, UNCHANGED <<events, handling, money>>
      PROVE  AtTyped' /\ InboxTyped' /\ CountTyped' /\ MoneyTyped'
  BY <1>4 DEF Scan
<1>5. ASSUME Requeue, UNCHANGED <<events, handling, money>>
      PROVE  AtTyped' /\ InboxTyped' /\ CountTyped' /\ MoneyTyped'
  BY <1>5 DEF Requeue, AddJob
<1>6. ASSUME NEW w \in Workers, StartWebhook(w), UNCHANGED <<events, handling, money>>
      PROVE  AtTyped' /\ InboxTyped' /\ CountTyped' /\ MoneyTyped'
  BY <1>6 DEF StartWebhook, Claim, Claimable, Go, NoJob
<1>7. ASSUME NEW w \in Workers, MarkProcessed(w), UNCHANGED <<events, handling, money>>
      PROVE  AtTyped' /\ InboxTyped' /\ CountTyped' /\ MoneyTyped'
  BY <1>7 DEF MarkProcessed, Complete
<1>8. ASSUME NEW w \in Workers, MarkFailed(w), UNCHANGED <<events, handling, money>>
      PROVE  AtTyped' /\ InboxTyped' /\ CountTyped' /\ MoneyTyped'
  <2>1. count[w] + 1 \in Nat /\ (count[w] + 1 < MaxFailures) \in BOOLEAN
    BY DEF CountTyped
  <2>2. row' \in [stored : BOOLEAN, processed : BOOLEAN, retryCount : Nat, retryAt : BOOLEAN]
    BY <1>8, <2>1 DEF MarkFailed, InboxTyped
  <2>3. at' \in [Workers -> {"idle"} \cup WebhookSteps \cup EventSteps \cup PaymentSteps]
    BY <1>8 DEF MarkFailed, Abandon, AtTyped
  <2>4. count' \in [Workers -> Nat]
    BY <1>8 DEF MarkFailed, CountTyped
  <2> QED
    BY <1>8, <2>2, <2>3, <2>4
    DEF MarkFailed, AtTyped, InboxTyped, CountTyped, MoneyTyped, money
<1>9. ASSUME NEW w \in Workers, HandleWebhook(w)
      PROVE  AtTyped' /\ InboxTyped' /\ CountTyped' /\ MoneyTyped'
  BY <1>9 DEF HandleWebhook, Go
<1>10. ASSUME NEW w \in Workers, HandlerThrows(w)
      PROVE  AtTyped' /\ InboxTyped' /\ CountTyped' /\ MoneyTyped'
  BY <1>10 DEF HandlerThrows, WebhookThrows, Go
<1>11. ASSUME NEW w \in Workers, MarkEvent(w), UNCHANGED <<inboxVars, money>>
      PROVE  AtTyped' /\ InboxTyped' /\ CountTyped' /\ MoneyTyped'
  BY <1>11 DEF MarkEvent, Forget, Go
<1>12. ASSUME NEW w \in Workers, StartSomeEvent(w), UNCHANGED <<inboxVars, money>>
      PROVE  AtTyped' /\ InboxTyped' /\ CountTyped' /\ MoneyTyped'
  <2>0. PICK type \in EventTypes : \E n \in DOMAIN events[type] : StartEvent(w, type, n)
    BY <1>12 DEF StartSomeEvent
  <2>1. PICK n \in DOMAIN events[type] : StartEvent(w, type, n)
    BY <2>0
  <2>2. events[type] \in Seq(EventRows)
    BY DEF EventsTyped
  <2>3. events[type][n] \in EventRows
    BY <2>2
  <2>4. events[type][n].retryCount \in Nat
    BY <2>3 DEF EventRows
  <2> QED
    BY <1>12, <2>1, <2>4
    DEF StartEvent, Go, AtTyped, InboxTyped, CountTyped, MoneyTyped, inboxVars,
        money, EventSteps
<1>13. ASSUME NEW w \in Workers, HandleEvent(w)
      PROVE  AtTyped' /\ InboxTyped' /\ CountTyped' /\ MoneyTyped'
  <2>1. metered' \subseteq Fees
    BY <1>13 DEF HandleEvent, QueuePayment, QueueFees, FeesOfPayment, MoneyTyped
  <2> QED
    BY <1>13, <2>1
    DEF HandleEvent, Go, AtTyped, InboxTyped, CountTyped, MoneyTyped, inboxVars, EventSteps
<1>14. ASSUME NEW w \in Workers, ListenerThrows(w)
      PROVE  AtTyped' /\ InboxTyped' /\ CountTyped' /\ MoneyTyped'
  BY <1>14 DEF ListenerThrows, EventThrows, FirstFeeOnly, Forget, Go
<1>15. ASSUME NEW w \in Workers, StartPayment(w)
      PROVE  AtTyped' /\ InboxTyped' /\ CountTyped' /\ MoneyTyped'
  BY <1>15 DEF StartPayment, Claim, Claimable, Go
<1>16. ASSUME NEW w \in Workers, Transfer(w)
      PROVE  AtTyped' /\ InboxTyped' /\ CountTyped' /\ MoneyTyped'
  BY <1>16 DEF Transfer, Go
<1>17. ASSUME NEW w \in Workers, Book(w)
      PROVE  AtTyped' /\ InboxTyped' /\ CountTyped' /\ MoneyTyped'
  BY <1>17 DEF Book, Go
<1>18. ASSUME NEW w \in Workers, EndPayment(w)
      PROVE  AtTyped' /\ InboxTyped' /\ CountTyped' /\ MoneyTyped'
  BY <1>18 DEF EndPayment, Complete
<1>19. ASSUME NEW w \in Workers, PaymentRefused(w)
      PROVE  AtTyped' /\ InboxTyped' /\ CountTyped' /\ MoneyTyped'
  BY <1>19 DEF PaymentRefused, Abandon
<1>20. ASSUME NEW w \in Workers, PaymentThrows(w)
      PROVE  AtTyped' /\ InboxTyped' /\ CountTyped' /\ MoneyTyped'
  BY <1>20 DEF PaymentThrows, Abandon
<1>21. ASSUME NEW w \in Workers, Crash(w)
      PROVE  AtTyped' /\ InboxTyped' /\ CountTyped' /\ MoneyTyped'
  BY <1>21 DEF Crash, Abandon, Forget
<1> QED
  BY <1>1, <1>2, <1>3, <1>4, <1>5, <1>6, <1>7, <1>8, <1>9, <1>10, <1>11,
     <1>12, <1>13, <1>14, <1>15, <1>16, <1>17, <1>18, <1>19, <1>20, <1>21 DEF Moves

\* The rows of the outbox keep their types, and none ever leaves events.
RowsStay == \A t \in EventTypes : \A n \in DOMAIN events[t] : n \in DOMAIN events'[t]

LEMMA RowsStayTyped ==
    ASSUME Typed, EventsChange PROVE EventsTyped' /\ RowsStay
<1> USE DEF Typed
<1>1. CASE UNCHANGED events
  BY <1>1 DEF EventsTyped, RowsStay
<1>2. ASSUME NEW type \in EventTypes, Publish(type) PROVE EventsTyped' /\ RowsStay
  BY <1>2, PublishAppends DEF RowsStay
<1>3. ASSUME NEW w \in Workers, at[w] \in EventSteps
      PROVE  /\ Handles(w)
             /\ Handled(w) \in EventRows
             /\ Processed(Handled(w)) \in EventRows
             /\ Refused(Handled(w), count[w] + 1) \in EventRows
  <2>1. Handles(w)
    BY <1>3 DEF HandlingTyped
  <2>2. events[handling[w].type] \in Seq(EventRows)
    BY <2>1 DEF Handles, EventsTyped
  <2>3. Handled(w) \in EventRows
    BY <2>1, <2>2 DEF Handled, Handles
  <2>4. Processed(Handled(w)) \in EventRows
    BY <2>3 DEF Processed, EventRows, EventStates
  <2>5. count[w] + 1 \in Nat
    BY DEF CountTyped
  <2>6. CASE GivenUp(count[w] + 1)
    BY <2>1, <2>3, <2>4, <2>6 DEF Refused, EventRows, EventStates
  <2>7. CASE ~GivenUp(count[w] + 1)
    <3>1. count[w] + 1 \in 0..MaxRetries - 1
      BY <2>5, <2>7 DEF GivenUp
    <3> QED
      BY <2>1, <2>3, <2>4, <2>7, <3>1 DEF Refused, EventRows, EventStates
  <2> QED
    BY <2>6, <2>7
<1>4. ASSUME NEW w \in Workers, at[w] = "mark_event", Update(w, Processed(Handled(w)))
      PROVE  EventsTyped' /\ RowsStay
  <2>1. at[w] \in EventSteps
    BY <1>4 DEF EventSteps
  <2> QED
    BY <1>3, <1>4, <2>1, UpdateRewrites DEF RowsStay
<1>5. ASSUME NEW w \in Workers, at[w] \in EventSteps, Update(w, Refused(Handled(w), count[w] + 1))
      PROVE  EventsTyped' /\ RowsStay
  BY <1>3, <1>5, UpdateRewrites DEF RowsStay
<1> QED
  BY <1>1, <1>2, <1>4, <1>5 DEF EventsChange

\* Whoever is about to handle or to mark an event holds one of the rows.
HandlingChange ==
    \/ /\ UNCHANGED handling
       /\ \A w \in Workers : at'[w] \in EventSteps => at[w] \in EventSteps
    \/ \E w \in Workers :
          /\ handling' = [handling EXCEPT ![w] = NoEvent]
          /\ at' = [at EXCEPT ![w] = "idle"]
    \/ \E w \in Workers, type \in EventTypes :
          \E n \in DOMAIN events[type] : StartEvent(w, type, n)

LEMMA HandlingStaysTyped ==
    ASSUME Typed, RowsStay, HandlingChange PROVE HandlingTyped'
<1> USE DEF Typed
<1>1. CASE UNCHANGED handling /\ \A w \in Workers : at'[w] \in EventSteps => at[w] \in EventSteps
  <2>1. \A w \in Workers : at'[w] \in EventSteps => Handles(w)'
    BY <1>1 DEF HandlingTyped, Handles, RowsStay
  <2> QED
    BY <1>1, <2>1 DEF HandlingTyped
<1>2. ASSUME NEW w \in Workers, handling' = [handling EXCEPT ![w] = NoEvent],
             at' = [at EXCEPT ![w] = "idle"]
      PROVE  HandlingTyped'
  <2>1. ASSUME NEW v \in Workers, at'[v] \in EventSteps PROVE Handles(v)'
    <3>1. v # w /\ at[v] \in EventSteps
      BY <1>2, <2>1 DEF AtTyped, EventSteps
    <3>2. handling'[v] = handling[v] /\ Handles(v)
      BY <1>2, <3>1 DEF HandlingTyped
    <3> QED
      BY <3>2 DEF Handles, RowsStay
  <2> QED
    BY <1>2, <2>1 DEF HandlingTyped
<1>3. ASSUME NEW w \in Workers, NEW type \in EventTypes, NEW n \in DOMAIN events[type],
             StartEvent(w, type, n)
      PROVE  HandlingTyped'
  <2>1. n \in Nat
    BY DEF EventsTyped
  <2>2. /\ handling' = [handling EXCEPT ![w] = [type |-> type, nr |-> n]]
        /\ at' = [at EXCEPT ![w] = "handle_event"]
    BY <1>3 DEF StartEvent, Go
  <2>3. handling' \in [Workers -> {NoEvent} \cup [type : EventTypes, nr : Nat]]
    BY <2>1, <2>2 DEF HandlingTyped
  <2>4. ASSUME NEW v \in Workers, at'[v] \in EventSteps PROVE Handles(v)'
    <3>1. CASE v = w
      BY <2>1, <2>2, <3>1 DEF Handles, RowsStay, HandlingTyped
    <3>2. CASE v # w
      <4>1. handling'[v] = handling[v] /\ Handles(v)
        BY <2>2, <2>4, <3>2 DEF HandlingTyped, AtTyped
      <4> QED
        BY <4>1 DEF Handles, RowsStay
    <3> QED
      BY <3>1, <3>2
  <2> QED
    BY <2>3, <2>4 DEF HandlingTyped
<1> QED
  BY <1>1, <1>2, <1>3 DEF HandlingChange

LEMMA MovesChangeHandling ==
    ASSUME Typed, Moves PROVE HandlingChange
<1> USE DEF Typed
<1> USE DEF HandlingChange, AtTyped, inboxVars, queueVars, money,
           EventSteps
<1>1. ASSUME Store, UNCHANGED <<events, handling, money>>
      PROVE  HandlingChange
  BY <1>1 DEF Store
<1>2. ASSUME Enqueue, UNCHANGED <<events, handling, money>>
      PROVE  HandlingChange
  BY <1>2 DEF Enqueue, AddJob
<1>3. ASSUME EnqueueThrows, UNCHANGED <<events, handling, money>>
      PROVE  HandlingChange
  BY <1>3 DEF EnqueueThrows, AddJob
<1>4. ASSUME Scan, UNCHANGED <<events, handling, money>>
      PROVE  HandlingChange
  BY <1>4 DEF Scan
<1>5. ASSUME Requeue, UNCHANGED <<events, handling, money>>
      PROVE  HandlingChange
  BY <1>5 DEF Requeue, AddJob
<1>6. ASSUME NEW w \in Workers, StartWebhook(w), UNCHANGED <<events, handling, money>>
      PROVE  HandlingChange
  BY <1>6 DEF StartWebhook, Claim, Claimable, Go, NoJob
<1>7. ASSUME NEW w \in Workers, MarkProcessed(w), UNCHANGED <<events, handling, money>>
      PROVE  HandlingChange
  BY <1>7 DEF MarkProcessed, Complete
<1>8. ASSUME NEW w \in Workers, MarkFailed(w), UNCHANGED <<events, handling, money>>
      PROVE  HandlingChange
  BY <1>8 DEF MarkFailed, Abandon
<1>9. ASSUME NEW w \in Workers, HandleWebhook(w)
      PROVE  HandlingChange
  BY <1>9 DEF HandleWebhook, Go
<1>10. ASSUME NEW w \in Workers, HandlerThrows(w)
      PROVE  HandlingChange
  BY <1>10 DEF HandlerThrows, WebhookThrows, Go
<1>11. ASSUME NEW w \in Workers, MarkEvent(w), UNCHANGED <<inboxVars, money>>
      PROVE  HandlingChange
  BY <1>11 DEF MarkEvent, Forget, Go
<1>12. ASSUME NEW w \in Workers, StartSomeEvent(w), UNCHANGED <<inboxVars, money>>
      PROVE  HandlingChange
  BY <1>12 DEF StartSomeEvent, HandlingChange
<1>13. ASSUME NEW w \in Workers, HandleEvent(w)
      PROVE  HandlingChange
  BY <1>13 DEF HandleEvent, Go, HandlingChange, AtTyped, EventSteps
<1>14. ASSUME NEW w \in Workers, ListenerThrows(w)
      PROVE  HandlingChange
  BY <1>14 DEF ListenerThrows, EventThrows, FirstFeeOnly, Forget, Go
<1>15. ASSUME NEW w \in Workers, StartPayment(w)
      PROVE  HandlingChange
  BY <1>15 DEF StartPayment, Claim, Claimable, Go
<1>16. ASSUME NEW w \in Workers, Transfer(w)
      PROVE  HandlingChange
  BY <1>16 DEF Transfer, Go
<1>17. ASSUME NEW w \in Workers, Book(w)
      PROVE  HandlingChange
  BY <1>17 DEF Book, Go
<1>18. ASSUME NEW w \in Workers, EndPayment(w)
      PROVE  HandlingChange
  BY <1>18 DEF EndPayment, Complete
<1>19. ASSUME NEW w \in Workers, PaymentRefused(w)
      PROVE  HandlingChange
  BY <1>19 DEF PaymentRefused, Abandon
<1>20. ASSUME NEW w \in Workers, PaymentThrows(w)
      PROVE  HandlingChange
  BY <1>20 DEF PaymentThrows, Abandon
<1>21. ASSUME NEW w \in Workers, Crash(w)
      PROVE  HandlingChange
  BY <1>21 DEF Crash, Abandon, Forget
<1> QED
  BY <1>1, <1>2, <1>3, <1>4, <1>5, <1>6, <1>7, <1>8, <1>9, <1>10, <1>11,
     <1>12, <1>13, <1>14, <1>15, <1>16, <1>17, <1>18, <1>19, <1>20, <1>21 DEF Moves

-----------------------------------------------------------------------------
LEMMA TypeStep ==
    ASSUME TypeOK, JobsLeft, [Next]_vars PROVE TypeOK' /\ JobsLeft'
<1>1. Typed /\ faults \in 0..MaxFaults
  BY DEF TypeOK, Typed, JobsTyped, AtTyped, InboxTyped, CountTyped, EventsTyped,
         HandlingTyped, MoneyTyped
<1>2. CASE Next
  <2>1. Moves /\ (faults' = faults \/ (faults < MaxFaults /\ faults' = faults + 1))
    BY <1>2, NextMoves
  <2>2. JobsTyped' /\ JobsLeft'
    BY <1>1, <2>1, MovesChangeJobs, JobsStayTyped DEF Typed
  <2>3. EventsTyped' /\ RowsStay
    BY <1>1, <2>1, MovesChangeEvents, RowsStayTyped
  <2>4. HandlingTyped'
    BY <1>1, <2>1, <2>3, MovesChangeHandling, HandlingStaysTyped
  <2>5. AtTyped' /\ InboxTyped' /\ CountTyped' /\ MoneyTyped'
    BY <1>1, <2>1, RestStaysTyped
  <2>6. faults' \in 0..MaxFaults
    BY <1>1, <2>1
  <2> QED
    BY <2>2, <2>3, <2>4, <2>5, <2>6
    DEF TypeOK, JobsTyped, AtTyped, InboxTyped, CountTyped, EventsTyped,
        HandlingTyped, MoneyTyped
<1>3. CASE UNCHANGED vars
  BY <1>3 DEF vars, queueVars, inboxVars, money, TypeOK, JobsLeft, Handles
<1> QED
  BY <1>2, <1>3

LEMMA TypeInit == Init => TypeOK /\ JobsLeft
<1> SUFFICES ASSUME Init PROVE TypeOK /\ JobsLeft
  OBVIOUS
<1>1. JobsTyped /\ JobsLeft
  BY DEF Init, QueueInit, JobsTyped, JobsLeft, NoJob, JobStates
<1>2. EventsTyped
  <2>1. << >> \in Seq(EventRows)
    OBVIOUS
  <2> QED
    BY <2>1 DEF Init, OutboxInit, EventsTyped
<1>3. HandlingTyped
  BY DEF Init, QueueInit, OutboxInit, HandlingTyped, EventSteps
<1>4. AtTyped /\ CountTyped
  BY DEF Init, QueueInit, AtTyped, CountTyped
<1>5. InboxTyped
  BY DEF Init, InboxInit, InboxTyped
<1>6. MoneyTyped /\ faults \in 0..MaxFaults
  BY DEF Init, MoneyTyped
<1> QED
  BY <1>1, <1>2, <1>3, <1>4, <1>5, <1>6
  DEF TypeOK, JobsTyped, AtTyped, CountTyped, InboxTyped, EventsTyped,
      HandlingTyped, MoneyTyped

\* The queue, the inbox, the outbox and the money keep their types, and a
\* worker that handles an event holds a row of the outbox, for any number of
\* workers, attempts, retries and faults (queue.manager.ts,
\* process-outbox-event.ts, process-invoice-payment.ts).
THEOREM TypeCorrect == Spec => []TypeOK
<1> DEFINE Inv == TypeOK /\ JobsLeft
<1>1. Init => Inv
  BY TypeInit
<1>2. Inv /\ [Next]_vars => Inv'
  BY TypeStep
<1>3. Inv => TypeOK
  OBVIOUS
<1> QED
  BY <1>1, <1>2, <1>3, PTL DEF Spec

-----------------------------------------------------------------------------
\* An event of this type has been stored.
Stored(type) == events[type] # << >>

LEMMA StoredStays ==
    ASSUME Typed, EventsTyped', RowsStay, NEW type \in EventTypes, Stored(type)
    PROVE  Stored(type)'
<1>1. events[type] \in Seq(EventRows) /\ events'[type] \in Seq(EventRows)
  BY DEF Typed, EventsTyped
<1>2. 1 \in DOMAIN events[type]
  BY <1>1 DEF Stored
<1>3. 1 \in DOMAIN events'[type]
  BY <1>2 DEF RowsStay
<1> QED
  BY <1>1, <1>3 DEF Stored

\* An event is marked only by the worker that has run its handlers.
LEMMA NewlyProcessed ==
    ASSUME Typed, EventsChange, NEW type \in EventTypes, Exists(type, {"processed"})'
    PROVE  \/ Exists(type, {"processed"})
           \/ \E w \in Workers : at[w] = "mark_event" /\ handling[w].type = type
<1> USE DEF Typed
<1>0. PICK n \in DOMAIN events'[type] : events'[type][n].state = "processed"
  BY DEF Exists
<1>1. CASE UNCHANGED events
  BY <1>1 DEF Exists
<1>2. ASSUME NEW t \in EventTypes, Publish(t) PROVE Exists(type, {"processed"})
  <2>1. n \in DOMAIN events[type]
    BY <1>0, <1>2, PublishAppends DEF Fresh
  <2> QED
    BY <1>0, <1>2, <2>1, PublishAppends DEF Exists
<1>3. ASSUME NEW w \in Workers, at[w] = "mark_event", Update(w, Processed(Handled(w))),
             handling[w].type # type
      PROVE  Exists(type, {"processed"})
  <2>1. Handles(w)
    BY <1>3 DEF HandlingTyped, EventSteps
  <2>2. events'[type] = events[type]
    BY <1>3, <2>1 DEF Update, EventsTyped, Handles
  <2> QED
    BY <1>0, <2>2 DEF Exists
<1>4. ASSUME NEW w \in Workers, at[w] \in EventSteps,
             Update(w, Refused(Handled(w), count[w] + 1))
      PROVE  Exists(type, {"processed"})
  <2>1. Handles(w)
    BY <1>4 DEF HandlingTyped
  <2>2. CASE handling[w].type # type
    <3>1. events'[type] = events[type]
      BY <1>4, <2>1, <2>2 DEF Update, EventsTyped, Handles
    <3> QED
      BY <1>0, <3>1 DEF Exists
  <2>3. CASE handling[w].type = type
    <3> DEFINE s == events[type]
               e == Refused(Handled(w), count[w] + 1)
    <3>1. s \in Seq(EventRows) /\ handling[w].nr \in DOMAIN s /\ Handled(w) = s[handling[w].nr]
      BY <2>1, <2>3 DEF EventsTyped, Handles, Handled
    <3>2. events'[type] = [s EXCEPT ![handling[w].nr] = e]
      BY <1>4, <2>3, <3>1 DEF Update, EventsTyped
    <3>3. n \in DOMAIN s /\ (n # handling[w].nr => events'[type][n] = s[n])
                         /\ (n = handling[w].nr => events'[type][n] = e)
      BY <1>0, <3>1, <3>2
    <3>4. Handled(w) \in EventRows
      BY <3>1
    <3>5. e.state = "processed" => Handled(w).state = "processed"
      BY <3>4 DEF Refused, EventRows
    <3> QED
      BY <1>0, <3>1, <3>3, <3>5 DEF Exists
  <2> QED
    BY <2>2, <2>3
<1> QED
  BY <1>1, <1>2, <1>3, <1>4 DEF EventsChange

\* A running job is run by the worker that took it, in the task of its key.
ClaimInv == \A w \in Workers :
    /\ jobs["webhook"].state = w => at[w] \in WebhookSteps
    /\ jobs["payment"].state = w => at[w] \in PaymentSteps

\* The listener of InvoiceStripePaymentReceived has done its part.
Queued == HasJob("payment") \/ booked > 0

Received == Stored("payment_received")

\* The payment is handed on before it is let go: the webhook is marked only
\* when the event is stored, the event only when the job is queued, the job
\* ends only when the payout is booked.
CustodyInv ==
    /\ row.processed => Received
    /\ \A w \in Workers : at[w] = "mark_processed" => Received
    /\ acknowledged => HasJob("webhook") \/ Received
    /\ Exists("payment_received", {"processed"}) => Queued
    /\ \A w \in Workers :
          at[w] = "mark_event" /\ handling[w].type = "payment_received" => Queued
    /\ \A w \in Workers : at[w] = "payment_done" => booked > 0

\* The same for InvoicePaid and the fees.
FeesInv ==
    /\ booked > 0 => Stored("invoice_paid")
    /\ Exists("invoice_paid", {"processed"}) => metered = Fees
    /\ \A w \in Workers :
          at[w] = "mark_event" /\ handling[w].type = "invoice_paid" => metered = Fees

\* Workers run the task of the job they have claimed.
LEMMA ClaimsStay ==
    ASSUME Typed, ClaimInv, Moves PROVE ClaimInv'
<1> USE DEF Typed
<1> USE DEF ClaimInv, JobsTyped, AtTyped, Keys, JobStates, WebhookSteps,
           PaymentSteps, EventSteps, NoJob, Retried, inboxVars, queueVars,
           money
<1>1. ASSUME Store, UNCHANGED <<events, handling, money>>
      PROVE  ClaimInv'
  BY <1>1 DEF Store
<1>2. ASSUME Enqueue, UNCHANGED <<events, handling, money>>
      PROVE  ClaimInv'
  BY <1>2 DEF Enqueue, AddJob
<1>3. ASSUME EnqueueThrows, UNCHANGED <<events, handling, money>>
      PROVE  ClaimInv'
  BY <1>3 DEF EnqueueThrows, AddJob
<1>4. ASSUME Scan, UNCHANGED <<events, handling, money>>
      PROVE  ClaimInv'
  BY <1>4 DEF Scan
<1>5. ASSUME Requeue, UNCHANGED <<events, handling, money>>
      PROVE  ClaimInv'
  BY <1>5 DEF Requeue, AddJob
<1>6. ASSUME NEW w \in Workers, StartWebhook(w), UNCHANGED <<events, handling, money>>
      PROVE  ClaimInv'
  BY <1>6 DEF StartWebhook, Claim, Claimable, Go
<1>7. ASSUME NEW w \in Workers, MarkProcessed(w), UNCHANGED <<events, handling, money>>
      PROVE  ClaimInv'
  BY <1>7 DEF MarkProcessed, Complete
<1>8. ASSUME NEW w \in Workers, MarkFailed(w), UNCHANGED <<events, handling, money>>
      PROVE  ClaimInv'
  BY <1>8 DEF MarkFailed, Abandon
<1>9. ASSUME NEW w \in Workers, HandleWebhook(w)
      PROVE  ClaimInv'
  BY <1>9 DEF HandleWebhook, Go
<1>10. ASSUME NEW w \in Workers, HandlerThrows(w)
      PROVE  ClaimInv'
  BY <1>10 DEF HandlerThrows, WebhookThrows, Go
<1>11. ASSUME NEW w \in Workers, MarkEvent(w), UNCHANGED <<inboxVars, money>>
      PROVE  ClaimInv'
  BY <1>11 DEF MarkEvent, Forget, Go
<1>12. ASSUME NEW w \in Workers, StartSomeEvent(w), UNCHANGED <<inboxVars, money>>
      PROVE  ClaimInv'
  BY <1>12 DEF StartSomeEvent, StartEvent, Go
<1>13. ASSUME NEW w \in Workers, HandleEvent(w)
      PROVE  ClaimInv'
  BY <1>13 DEF HandleEvent, QueuePayment, QueueFees, AddJob, Go
<1>14. ASSUME NEW w \in Workers, ListenerThrows(w)
      PROVE  ClaimInv'
  BY <1>14 DEF ListenerThrows, EventThrows, FirstFeeOnly, Forget, Go
<1>15. ASSUME NEW w \in Workers, StartPayment(w)
      PROVE  ClaimInv'
  BY <1>15 DEF StartPayment, Claim, Claimable, Go
<1>16. ASSUME NEW w \in Workers, Transfer(w)
      PROVE  ClaimInv'
  BY <1>16 DEF Transfer, Go
<1>17. ASSUME NEW w \in Workers, Book(w)
      PROVE  ClaimInv'
  BY <1>17 DEF Book, Go
<1>18. ASSUME NEW w \in Workers, EndPayment(w)
      PROVE  ClaimInv'
  BY <1>18 DEF EndPayment, Complete
<1>19. ASSUME NEW w \in Workers, PaymentRefused(w)
      PROVE  ClaimInv'
  BY <1>19 DEF PaymentRefused, Abandon
<1>20. ASSUME NEW w \in Workers, PaymentThrows(w)
      PROVE  ClaimInv'
  BY <1>20 DEF PaymentThrows, Abandon
<1>21. ASSUME NEW w \in Workers, Crash(w)
      PROVE  ClaimInv'
  BY <1>21 DEF Crash, Abandon, Forget
<1> QED
  BY <1>1, <1>2, <1>3, <1>4, <1>5, <1>6, <1>7, <1>8, <1>9, <1>10, <1>11,
     <1>12, <1>13, <1>14, <1>15, <1>16, <1>17, <1>18, <1>19, <1>20, <1>21 DEF Moves

\* Once the payment job is queued, it is there until the payout is booked.
LEMMA QueuedStays ==
    ASSUME Typed, ClaimInv, CustodyInv, Moves, Queued PROVE Queued'
<1> USE DEF Typed
<1> USE DEF Queued, HasJob, ClaimInv, CustodyInv, JobsTyped, MoneyTyped,
           Keys, WebhookSteps, PaymentSteps, NoJob, Retried, inboxVars,
           queueVars, money
<1>1. ASSUME Store, UNCHANGED <<events, handling, money>>
      PROVE  Queued'
  BY <1>1 DEF Store
<1>2. ASSUME Enqueue, UNCHANGED <<events, handling, money>>
      PROVE  Queued'
  BY <1>2 DEF Enqueue, AddJob
<1>3. ASSUME EnqueueThrows, UNCHANGED <<events, handling, money>>
      PROVE  Queued'
  BY <1>3 DEF EnqueueThrows, AddJob
<1>4. ASSUME Scan, UNCHANGED <<events, handling, money>>
      PROVE  Queued'
  BY <1>4 DEF Scan
<1>5. ASSUME Requeue, UNCHANGED <<events, handling, money>>
      PROVE  Queued'
  BY <1>5 DEF Requeue, AddJob
<1>6. ASSUME NEW w \in Workers, StartWebhook(w), UNCHANGED <<events, handling, money>>
      PROVE  Queued'
  BY <1>6 DEF StartWebhook, Claim, Claimable, Go
<1>7. ASSUME NEW w \in Workers, MarkProcessed(w), UNCHANGED <<events, handling, money>>
      PROVE  Queued'
  BY <1>7 DEF MarkProcessed, Complete
<1>8. ASSUME NEW w \in Workers, MarkFailed(w), UNCHANGED <<events, handling, money>>
      PROVE  Queued'
  BY <1>8 DEF MarkFailed, Abandon
<1>9. ASSUME NEW w \in Workers, HandleWebhook(w)
      PROVE  Queued'
  BY <1>9 DEF HandleWebhook, Go
<1>10. ASSUME NEW w \in Workers, HandlerThrows(w)
      PROVE  Queued'
  BY <1>10 DEF HandlerThrows, WebhookThrows, Go
<1>11. ASSUME NEW w \in Workers, MarkEvent(w), UNCHANGED <<inboxVars, money>>
      PROVE  Queued'
  BY <1>11 DEF MarkEvent, Forget, Go
<1>12. ASSUME NEW w \in Workers, StartSomeEvent(w), UNCHANGED <<inboxVars, money>>
      PROVE  Queued'
  BY <1>12 DEF StartSomeEvent, StartEvent, Go
<1>13. ASSUME NEW w \in Workers, HandleEvent(w)
      PROVE  Queued'
  BY <1>13 DEF HandleEvent, QueuePayment, QueueFees, AddJob, Go
<1>14. ASSUME NEW w \in Workers, ListenerThrows(w)
      PROVE  Queued'
  BY <1>14 DEF ListenerThrows, EventThrows, FirstFeeOnly, Forget, Go
<1>15. ASSUME NEW w \in Workers, StartPayment(w)
      PROVE  Queued'
  BY <1>15 DEF StartPayment, Claim, Claimable, Go
<1>16. ASSUME NEW w \in Workers, Transfer(w)
      PROVE  Queued'
  BY <1>16 DEF Transfer, Go
<1>17. ASSUME NEW w \in Workers, Book(w)
      PROVE  Queued'
  BY <1>17 DEF Book, Go
<1>18. ASSUME NEW w \in Workers, EndPayment(w)
      PROVE  Queued'
  BY <1>18 DEF EndPayment, Complete
<1>19. ASSUME NEW w \in Workers, PaymentRefused(w)
      PROVE  Queued'
  BY <1>19 DEF PaymentRefused, Abandon
<1>20. ASSUME NEW w \in Workers, PaymentThrows(w)
      PROVE  Queued'
  BY <1>20 DEF PaymentThrows, Abandon
<1>21. ASSUME NEW w \in Workers, Crash(w)
      PROVE  Queued'
  BY <1>21 DEF Crash, Abandon, Forget
<1> QED
  BY <1>1, <1>2, <1>3, <1>4, <1>5, <1>6, <1>7, <1>8, <1>9, <1>10, <1>11,
     <1>12, <1>13, <1>14, <1>15, <1>16, <1>17, <1>18, <1>19, <1>20, <1>21 DEF Moves

\* CustodyInv in parts.
InboxInv ==
    /\ row.processed => Received
    /\ \A w \in Workers : at[w] = "mark_processed" => Received
    /\ acknowledged => HasJob("webhook") \/ Received
ListenerInv ==
    \A w \in Workers :
       at[w] = "mark_event" /\ handling[w].type = "payment_received" => Queued

\* The webhook is let go only when the event is stored.
LEMMA InboxKept ==
    ASSUME Typed, ClaimInv, InboxInv, Moves, Received => Received' PROVE InboxInv'
<1> USE DEF Typed
<1> USE DEF InboxInv, HasJob, ClaimInv, JobsTyped, AtTyped, InboxTyped,
           Keys, WebhookSteps, PaymentSteps, EventSteps, NoJob, Retried,
           inboxVars, queueVars, money
<1>1. ASSUME Store, UNCHANGED <<events, handling, money>>
      PROVE  InboxInv'
  BY <1>1 DEF Store
<1>2. ASSUME Enqueue, UNCHANGED <<events, handling, money>>
      PROVE  InboxInv'
  BY <1>2 DEF Enqueue, AddJob
<1>3. ASSUME EnqueueThrows, UNCHANGED <<events, handling, money>>
      PROVE  InboxInv'
  BY <1>3 DEF EnqueueThrows, AddJob
<1>4. ASSUME Scan, UNCHANGED <<events, handling, money>>
      PROVE  InboxInv'
  BY <1>4 DEF Scan
<1>5. ASSUME Requeue, UNCHANGED <<events, handling, money>>
      PROVE  InboxInv'
  BY <1>5 DEF Requeue, AddJob
<1>6. ASSUME NEW w \in Workers, StartWebhook(w), UNCHANGED <<events, handling, money>>
      PROVE  InboxInv'
  BY <1>6 DEF StartWebhook, Claim, Claimable, Go
<1>7. ASSUME NEW w \in Workers, MarkProcessed(w), UNCHANGED <<events, handling, money>>
      PROVE  InboxInv'
  BY <1>7 DEF MarkProcessed, Complete
<1>8. ASSUME NEW w \in Workers, MarkFailed(w), UNCHANGED <<events, handling, money>>
      PROVE  InboxInv'
  BY <1>8 DEF MarkFailed, Abandon
<1>9. ASSUME NEW w \in Workers, HandleWebhook(w)
      PROVE  InboxInv'
  <2>1. Received'
    BY <1>9, PublishAppends DEF HandleWebhook, Received, Stored, EventTypes
  <2> QED
    BY <2>1 DEF InboxInv
<1>10. ASSUME NEW w \in Workers, HandlerThrows(w)
      PROVE  InboxInv'
  BY <1>10 DEF HandlerThrows, WebhookThrows, Go
<1>11. ASSUME NEW w \in Workers, MarkEvent(w), UNCHANGED <<inboxVars, money>>
      PROVE  InboxInv'
  BY <1>11 DEF MarkEvent, Forget, Go
<1>12. ASSUME NEW w \in Workers, StartSomeEvent(w), UNCHANGED <<inboxVars, money>>
      PROVE  InboxInv'
  BY <1>12 DEF StartSomeEvent, StartEvent, Go
<1>13. ASSUME NEW w \in Workers, HandleEvent(w)
      PROVE  InboxInv'
  BY <1>13 DEF HandleEvent, QueuePayment, QueueFees, AddJob, Go
<1>14. ASSUME NEW w \in Workers, ListenerThrows(w)
      PROVE  InboxInv'
  BY <1>14 DEF ListenerThrows, EventThrows, FirstFeeOnly, Forget, Go
<1>15. ASSUME NEW w \in Workers, StartPayment(w)
      PROVE  InboxInv'
  BY <1>15 DEF StartPayment, Claim, Claimable, Go
<1>16. ASSUME NEW w \in Workers, Transfer(w)
      PROVE  InboxInv'
  BY <1>16 DEF Transfer, Go
<1>17. ASSUME NEW w \in Workers, Book(w)
      PROVE  InboxInv'
  BY <1>17 DEF Book, Go
<1>18. ASSUME NEW w \in Workers, EndPayment(w)
      PROVE  InboxInv'
  BY <1>18 DEF EndPayment, Complete
<1>19. ASSUME NEW w \in Workers, PaymentRefused(w)
      PROVE  InboxInv'
  BY <1>19 DEF PaymentRefused, Abandon
<1>20. ASSUME NEW w \in Workers, PaymentThrows(w)
      PROVE  InboxInv'
  BY <1>20 DEF PaymentThrows, Abandon
<1>21. ASSUME NEW w \in Workers, Crash(w)
      PROVE  InboxInv'
  BY <1>21 DEF Crash, Abandon, Forget
<1> QED
  BY <1>1, <1>2, <1>3, <1>4, <1>5, <1>6, <1>7, <1>8, <1>9, <1>10, <1>11,
     <1>12, <1>13, <1>14, <1>15, <1>16, <1>17, <1>18, <1>19, <1>20, <1>21 DEF Moves

\* The event is let go only when its job is queued.
LEMMA ListenerKept ==
    ASSUME Typed, ListenerInv, Moves, Queued => Queued' PROVE ListenerInv'
<1> USE DEF Typed
<1> USE DEF ListenerInv, Queued, HasJob, JobsTyped, AtTyped, HandlingTyped,
           Keys, NoEvent, EventSteps, inboxVars, queueVars, money
<1>1. ASSUME Store, UNCHANGED <<events, handling, money>>
      PROVE  ListenerInv'
  BY <1>1 DEF Store
<1>2. ASSUME Enqueue, UNCHANGED <<events, handling, money>>
      PROVE  ListenerInv'
  BY <1>2 DEF Enqueue, AddJob
<1>3. ASSUME EnqueueThrows, UNCHANGED <<events, handling, money>>
      PROVE  ListenerInv'
  BY <1>3 DEF EnqueueThrows, AddJob
<1>4. ASSUME Scan, UNCHANGED <<events, handling, money>>
      PROVE  ListenerInv'
  BY <1>4 DEF Scan
<1>5. ASSUME Requeue, UNCHANGED <<events, handling, money>>
      PROVE  ListenerInv'
  BY <1>5 DEF Requeue, AddJob
<1>6. ASSUME NEW w \in Workers, StartWebhook(w), UNCHANGED <<events, handling, money>>
      PROVE  ListenerInv'
  BY <1>6 DEF StartWebhook, Claim, Claimable, Go, NoJob
<1>7. ASSUME NEW w \in Workers, MarkProcessed(w), UNCHANGED <<events, handling, money>>
      PROVE  ListenerInv'
  BY <1>7 DEF MarkProcessed, Complete
<1>8. ASSUME NEW w \in Workers, MarkFailed(w), UNCHANGED <<events, handling, money>>
      PROVE  ListenerInv'
  BY <1>8 DEF MarkFailed, Abandon
<1>9. ASSUME NEW w \in Workers, HandleWebhook(w)
      PROVE  ListenerInv'
  BY <1>9 DEF HandleWebhook, Go
<1>10. ASSUME NEW w \in Workers, HandlerThrows(w)
      PROVE  ListenerInv'
  BY <1>10 DEF HandlerThrows, WebhookThrows, Go
<1>11. ASSUME NEW w \in Workers, MarkEvent(w), UNCHANGED <<inboxVars, money>>
      PROVE  ListenerInv'
  BY <1>11 DEF MarkEvent, Forget, Go
<1>12. ASSUME NEW w \in Workers, StartSomeEvent(w), UNCHANGED <<inboxVars, money>>
      PROVE  ListenerInv'
  BY <1>12 DEF StartSomeEvent, StartEvent, Go
<1>13. ASSUME NEW w \in Workers, HandleEvent(w)
      PROVE  ListenerInv'
  BY <1>13 DEF HandleEvent, QueuePayment, QueueFees, AddJob, Go
<1>14. ASSUME NEW w \in Workers, ListenerThrows(w)
      PROVE  ListenerInv'
  BY <1>14 DEF ListenerThrows, EventThrows, FirstFeeOnly, Forget, Go
<1>15. ASSUME NEW w \in Workers, StartPayment(w)
      PROVE  ListenerInv'
  BY <1>15 DEF StartPayment, Claim, Claimable, Go
<1>16. ASSUME NEW w \in Workers, Transfer(w)
      PROVE  ListenerInv'
  BY <1>16 DEF Transfer, Go
<1>17. ASSUME NEW w \in Workers, Book(w)
      PROVE  ListenerInv'
  BY <1>17 DEF Book, Go
<1>18. ASSUME NEW w \in Workers, EndPayment(w)
      PROVE  ListenerInv'
  BY <1>18 DEF EndPayment, Complete
<1>19. ASSUME NEW w \in Workers, PaymentRefused(w)
      PROVE  ListenerInv'
  BY <1>19 DEF PaymentRefused, Abandon
<1>20. ASSUME NEW w \in Workers, PaymentThrows(w)
      PROVE  ListenerInv'
  BY <1>20 DEF PaymentThrows, Abandon
<1>21. ASSUME NEW w \in Workers, Crash(w)
      PROVE  ListenerInv'
  BY <1>21 DEF Crash, Abandon, Forget
<1> QED
  BY <1>1, <1>2, <1>3, <1>4, <1>5, <1>6, <1>7, <1>8, <1>9, <1>10, <1>11,
     <1>12, <1>13, <1>14, <1>15, <1>16, <1>17, <1>18, <1>19, <1>20, <1>21 DEF Moves

\* The job ends only when the payout is booked.
LEMMA JobKept ==
    ASSUME Typed, Moves, \A w \in Workers : at[w] = "payment_done" => booked > 0 PROVE \A w \in Workers : (at[w] = "payment_done" => booked > 0)'
<1> USE DEF Typed
<1> USE DEF AtTyped, MoneyTyped, PaymentSteps, WebhookSteps, EventSteps,
           inboxVars, queueVars, money
<1>1. ASSUME Store, UNCHANGED <<events, handling, money>>
      PROVE  \A v \in Workers : (at[v] = "payment_done" => booked > 0)'
  BY <1>1 DEF Store
<1>2. ASSUME Enqueue, UNCHANGED <<events, handling, money>>
      PROVE  \A v \in Workers : (at[v] = "payment_done" => booked > 0)'
  BY <1>2 DEF Enqueue, AddJob
<1>3. ASSUME EnqueueThrows, UNCHANGED <<events, handling, money>>
      PROVE  \A v \in Workers : (at[v] = "payment_done" => booked > 0)'
  BY <1>3 DEF EnqueueThrows, AddJob
<1>4. ASSUME Scan, UNCHANGED <<events, handling, money>>
      PROVE  \A v \in Workers : (at[v] = "payment_done" => booked > 0)'
  BY <1>4 DEF Scan
<1>5. ASSUME Requeue, UNCHANGED <<events, handling, money>>
      PROVE  \A v \in Workers : (at[v] = "payment_done" => booked > 0)'
  BY <1>5 DEF Requeue, AddJob
<1>6. ASSUME NEW w \in Workers, StartWebhook(w), UNCHANGED <<events, handling, money>>
      PROVE  \A v \in Workers : (at[v] = "payment_done" => booked > 0)'
  BY <1>6 DEF StartWebhook, Claim, Claimable, Go, NoJob
<1>7. ASSUME NEW w \in Workers, MarkProcessed(w), UNCHANGED <<events, handling, money>>
      PROVE  \A v \in Workers : (at[v] = "payment_done" => booked > 0)'
  BY <1>7 DEF MarkProcessed, Complete
<1>8. ASSUME NEW w \in Workers, MarkFailed(w), UNCHANGED <<events, handling, money>>
      PROVE  \A v \in Workers : (at[v] = "payment_done" => booked > 0)'
  BY <1>8 DEF MarkFailed, Abandon
<1>9. ASSUME NEW w \in Workers, HandleWebhook(w)
      PROVE  \A v \in Workers : (at[v] = "payment_done" => booked > 0)'
  BY <1>9 DEF HandleWebhook, Go
<1>10. ASSUME NEW w \in Workers, HandlerThrows(w)
      PROVE  \A v \in Workers : (at[v] = "payment_done" => booked > 0)'
  BY <1>10 DEF HandlerThrows, WebhookThrows, Go
<1>11. ASSUME NEW w \in Workers, MarkEvent(w), UNCHANGED <<inboxVars, money>>
      PROVE  \A v \in Workers : (at[v] = "payment_done" => booked > 0)'
  BY <1>11 DEF MarkEvent, Forget, Go
<1>12. ASSUME NEW w \in Workers, StartSomeEvent(w), UNCHANGED <<inboxVars, money>>
      PROVE  \A v \in Workers : (at[v] = "payment_done" => booked > 0)'
  BY <1>12 DEF StartSomeEvent, StartEvent, Go
<1>13. ASSUME NEW w \in Workers, HandleEvent(w)
      PROVE  \A v \in Workers : (at[v] = "payment_done" => booked > 0)'
  BY <1>13 DEF HandleEvent, QueuePayment, QueueFees, AddJob, Go
<1>14. ASSUME NEW w \in Workers, ListenerThrows(w)
      PROVE  \A v \in Workers : (at[v] = "payment_done" => booked > 0)'
  BY <1>14 DEF ListenerThrows, EventThrows, FirstFeeOnly, Forget, Go
<1>15. ASSUME NEW w \in Workers, StartPayment(w)
      PROVE  \A v \in Workers : (at[v] = "payment_done" => booked > 0)'
  BY <1>15 DEF StartPayment, Claim, Claimable, Go
<1>16. ASSUME NEW w \in Workers, Transfer(w)
      PROVE  \A v \in Workers : (at[v] = "payment_done" => booked > 0)'
  BY <1>16 DEF Transfer, Go
<1>17. ASSUME NEW w \in Workers, Book(w)
      PROVE  \A v \in Workers : (at[v] = "payment_done" => booked > 0)'
  BY <1>17 DEF Book, Go
<1>18. ASSUME NEW w \in Workers, EndPayment(w)
      PROVE  \A v \in Workers : (at[v] = "payment_done" => booked > 0)'
  BY <1>18 DEF EndPayment, Complete
<1>19. ASSUME NEW w \in Workers, PaymentRefused(w)
      PROVE  \A v \in Workers : (at[v] = "payment_done" => booked > 0)'
  BY <1>19 DEF PaymentRefused, Abandon
<1>20. ASSUME NEW w \in Workers, PaymentThrows(w)
      PROVE  \A v \in Workers : (at[v] = "payment_done" => booked > 0)'
  BY <1>20 DEF PaymentThrows, Abandon
<1>21. ASSUME NEW w \in Workers, Crash(w)
      PROVE  \A v \in Workers : (at[v] = "payment_done" => booked > 0)'
  BY <1>21 DEF Crash, Abandon, Forget
<1> QED
  BY <1>1, <1>2, <1>3, <1>4, <1>5, <1>6, <1>7, <1>8, <1>9, <1>10, <1>11,
     <1>12, <1>13, <1>14, <1>15, <1>16, <1>17, <1>18, <1>19, <1>20, <1>21 DEF Moves

LEMMA CustodyStep ==
    ASSUME TypeOK, JobsLeft, ClaimInv, CustodyInv, [Next]_vars
    PROVE  ClaimInv' /\ CustodyInv'
<1>1. Typed /\ InboxInv /\ ListenerInv
  BY DEF TypeOK, Typed, JobsTyped, AtTyped, InboxTyped, CountTyped, EventsTyped,
         HandlingTyped, MoneyTyped, CustodyInv, InboxInv, ListenerInv
<1>2. CASE Next
  <2>1. Moves /\ EventsChange
    BY <1>2, NextMoves, MovesChangeEvents
  <2>2. EventsTyped' /\ RowsStay
    BY <1>1, <2>1, RowsStayTyped
  <2>3. Received => Received'
    BY <1>1, <2>2, StoredStays DEF Received, EventTypes
  <2>4. Queued => Queued'
    BY <1>1, <2>1, QueuedStays
  <2>5. InboxInv'
    BY <1>1, <2>1, <2>3, InboxKept
  <2>6. ListenerInv'
    BY <1>1, <2>1, <2>4, ListenerKept
  <2>7. \A w \in Workers : (at[w] = "payment_done" => booked > 0)'
    BY <1>1, <2>1, JobKept DEF CustodyInv
  <2>8. Exists("payment_received", {"processed"})' => Queued
    BY <1>1, <2>1, NewlyProcessed DEF EventTypes, CustodyInv
  <2>9. ClaimInv'
    BY <1>1, <2>1, ClaimsStay
  <2> QED
    BY <2>4, <2>5, <2>6, <2>7, <2>8, <2>9 DEF CustodyInv, InboxInv, ListenerInv
<1>3. CASE UNCHANGED vars
  BY <1>3 DEF vars, queueVars, inboxVars, money, ClaimInv, CustodyInv, Received,
              Stored, Queued, HasJob, Exists
<1> QED
  BY <1>2, <1>3

\* The invariant of the hand-overs.
Handover == TypeOK /\ JobsLeft /\ ClaimInv /\ CustodyInv

LEMMA HandoverHolds == Spec => []Handover
<1>1. Init => Handover
  <2> SUFFICES ASSUME Init PROVE ClaimInv /\ CustodyInv
    BY TypeInit DEF Handover
  <2>1. ClaimInv
    BY DEF Init, QueueInit, ClaimInv, NoJob, Keys
  <2>2. events["payment_received"] = << >>
    BY DEF Init, OutboxInit, EventTypes
  <2> QED
    BY <2>1, <2>2 DEF Init, QueueInit, InboxInit, OutboxInit, CustodyInv, Exists
<1>2. Handover /\ [Next]_vars => Handover'
  BY TypeStep, CustodyStep DEF Handover
<1> QED
  BY <1>1, <1>2, PTL DEF Spec

\* A payment webhook that Stripe was told is received (webhooks/http.ts:65) is
\* never dropped: it is a job, an event or a dead letter until it is booked.
\* Every hand-over writes the next table before it lets go of the previous one.
THEOREM CustodyAlways == Spec => []Custody
<1>1. Handover => Custody
  <2> SUFFICES ASSUME Handover, acknowledged, ~HasJob("webhook"), ~Open("payment_received")
               PROVE  booked > 0 \/ HasJob("payment")
    BY DEF Custody
  <2>1. Received /\ events["payment_received"] \in Seq(EventRows)
    BY DEF Handover, CustodyInv, TypeOK, EventTypes
  <2>2. 1 \in DOMAIN events["payment_received"]
    BY <2>1 DEF Received, Stored
  <2>3. events["payment_received"][1] \in EventRows
    BY <2>1, <2>2
  <2>4. Exists("payment_received", {"processed"})
    BY <2>2, <2>3 DEF Open, Exists, EventRows, EventStates
  <2> QED
    BY <2>4 DEF Handover, CustodyInv, Queued
<1> QED
  BY <1>1, HandoverHolds, PTL

\* Fees that are queued stay queued.
LEMMA FeesStay ==
    ASSUME Typed, Moves, metered = Fees PROVE metered' = Fees
<1> USE DEF Typed
<1> USE DEF FeesOfPayment, MoneyTyped, Fees, inboxVars, queueVars, money
<1>1. ASSUME Store, UNCHANGED <<events, handling, money>>
      PROVE  metered' = Fees
  BY <1>1 DEF Store
<1>2. ASSUME Enqueue, UNCHANGED <<events, handling, money>>
      PROVE  metered' = Fees
  BY <1>2 DEF Enqueue, AddJob
<1>3. ASSUME EnqueueThrows, UNCHANGED <<events, handling, money>>
      PROVE  metered' = Fees
  BY <1>3 DEF EnqueueThrows, AddJob
<1>4. ASSUME Scan, UNCHANGED <<events, handling, money>>
      PROVE  metered' = Fees
  BY <1>4 DEF Scan
<1>5. ASSUME Requeue, UNCHANGED <<events, handling, money>>
      PROVE  metered' = Fees
  BY <1>5 DEF Requeue, AddJob
<1>6. ASSUME NEW w \in Workers, StartWebhook(w), UNCHANGED <<events, handling, money>>
      PROVE  metered' = Fees
  BY <1>6 DEF StartWebhook, Claim, Claimable, Go, NoJob
<1>7. ASSUME NEW w \in Workers, MarkProcessed(w), UNCHANGED <<events, handling, money>>
      PROVE  metered' = Fees
  BY <1>7 DEF MarkProcessed, Complete
<1>8. ASSUME NEW w \in Workers, MarkFailed(w), UNCHANGED <<events, handling, money>>
      PROVE  metered' = Fees
  BY <1>8 DEF MarkFailed, Abandon
<1>9. ASSUME NEW w \in Workers, HandleWebhook(w)
      PROVE  metered' = Fees
  BY <1>9 DEF HandleWebhook, Go
<1>10. ASSUME NEW w \in Workers, HandlerThrows(w)
      PROVE  metered' = Fees
  BY <1>10 DEF HandlerThrows, WebhookThrows, Go
<1>11. ASSUME NEW w \in Workers, MarkEvent(w), UNCHANGED <<inboxVars, money>>
      PROVE  metered' = Fees
  BY <1>11 DEF MarkEvent, Forget, Go
<1>12. ASSUME NEW w \in Workers, StartSomeEvent(w), UNCHANGED <<inboxVars, money>>
      PROVE  metered' = Fees
  BY <1>12 DEF StartSomeEvent, StartEvent, Go
<1>13. ASSUME NEW w \in Workers, HandleEvent(w)
      PROVE  metered' = Fees
  BY <1>13 DEF HandleEvent, QueuePayment, QueueFees, AddJob, Go
<1>14. ASSUME NEW w \in Workers, ListenerThrows(w)
      PROVE  metered' = Fees
  BY <1>14 DEF ListenerThrows, EventThrows, FirstFeeOnly, Forget, Go
<1>15. ASSUME NEW w \in Workers, StartPayment(w)
      PROVE  metered' = Fees
  BY <1>15 DEF StartPayment, Claim, Claimable, Go
<1>16. ASSUME NEW w \in Workers, Transfer(w)
      PROVE  metered' = Fees
  BY <1>16 DEF Transfer, Go
<1>17. ASSUME NEW w \in Workers, Book(w)
      PROVE  metered' = Fees
  BY <1>17 DEF Book, Go
<1>18. ASSUME NEW w \in Workers, EndPayment(w)
      PROVE  metered' = Fees
  BY <1>18 DEF EndPayment, Complete
<1>19. ASSUME NEW w \in Workers, PaymentRefused(w)
      PROVE  metered' = Fees
  BY <1>19 DEF PaymentRefused, Abandon
<1>20. ASSUME NEW w \in Workers, PaymentThrows(w)
      PROVE  metered' = Fees
  BY <1>20 DEF PaymentThrows, Abandon
<1>21. ASSUME NEW w \in Workers, Crash(w)
      PROVE  metered' = Fees
  BY <1>21 DEF Crash, Abandon, Forget
<1> QED
  BY <1>1, <1>2, <1>3, <1>4, <1>5, <1>6, <1>7, <1>8, <1>9, <1>10, <1>11,
     <1>12, <1>13, <1>14, <1>15, <1>16, <1>17, <1>18, <1>19, <1>20, <1>21 DEF Moves

\* A payout is booked together with its event.
LEMMA BookingKept ==
    ASSUME Typed, Moves, booked > 0 => Stored("invoice_paid"),
           Stored("invoice_paid") => Stored("invoice_paid")'
     PROVE booked' > 0 => Stored("invoice_paid")'
<1> USE DEF Typed
<1> USE DEF inboxVars, queueVars, money
<1>1. ASSUME Store, UNCHANGED <<events, handling, money>>
      PROVE  booked' > 0 => Stored("invoice_paid")'
  BY <1>1 DEF Store
<1>2. ASSUME Enqueue, UNCHANGED <<events, handling, money>>
      PROVE  booked' > 0 => Stored("invoice_paid")'
  BY <1>2 DEF Enqueue, AddJob
<1>3. ASSUME EnqueueThrows, UNCHANGED <<events, handling, money>>
      PROVE  booked' > 0 => Stored("invoice_paid")'
  BY <1>3 DEF EnqueueThrows, AddJob
<1>4. ASSUME Scan, UNCHANGED <<events, handling, money>>
      PROVE  booked' > 0 => Stored("invoice_paid")'
  BY <1>4 DEF Scan
<1>5. ASSUME Requeue, UNCHANGED <<events, handling, money>>
      PROVE  booked' > 0 => Stored("invoice_paid")'
  BY <1>5 DEF Requeue, AddJob
<1>6. ASSUME NEW w \in Workers, StartWebhook(w), UNCHANGED <<events, handling, money>>
      PROVE  booked' > 0 => Stored("invoice_paid")'
  BY <1>6 DEF StartWebhook, Claim, Claimable, Go, NoJob
<1>7. ASSUME NEW w \in Workers, MarkProcessed(w), UNCHANGED <<events, handling, money>>
      PROVE  booked' > 0 => Stored("invoice_paid")'
  BY <1>7 DEF MarkProcessed, Complete
<1>8. ASSUME NEW w \in Workers, MarkFailed(w), UNCHANGED <<events, handling, money>>
      PROVE  booked' > 0 => Stored("invoice_paid")'
  BY <1>8 DEF MarkFailed, Abandon
<1>9. ASSUME NEW w \in Workers, HandleWebhook(w)
      PROVE  booked' > 0 => Stored("invoice_paid")'
  BY <1>9 DEF HandleWebhook, Go
<1>10. ASSUME NEW w \in Workers, HandlerThrows(w)
      PROVE  booked' > 0 => Stored("invoice_paid")'
  BY <1>10 DEF HandlerThrows, WebhookThrows, Go
<1>11. ASSUME NEW w \in Workers, MarkEvent(w), UNCHANGED <<inboxVars, money>>
      PROVE  booked' > 0 => Stored("invoice_paid")'
  BY <1>11 DEF MarkEvent, Forget, Go
<1>12. ASSUME NEW w \in Workers, StartSomeEvent(w), UNCHANGED <<inboxVars, money>>
      PROVE  booked' > 0 => Stored("invoice_paid")'
  BY <1>12 DEF StartSomeEvent, StartEvent, Go
<1>13. ASSUME NEW w \in Workers, HandleEvent(w)
      PROVE  booked' > 0 => Stored("invoice_paid")'
  BY <1>13 DEF HandleEvent, QueuePayment, QueueFees, AddJob, Go
<1>14. ASSUME NEW w \in Workers, ListenerThrows(w)
      PROVE  booked' > 0 => Stored("invoice_paid")'
  BY <1>14 DEF ListenerThrows, EventThrows, FirstFeeOnly, Forget, Go
<1>15. ASSUME NEW w \in Workers, StartPayment(w)
      PROVE  booked' > 0 => Stored("invoice_paid")'
  BY <1>15 DEF StartPayment, Claim, Claimable, Go
<1>16. ASSUME NEW w \in Workers, Transfer(w)
      PROVE  booked' > 0 => Stored("invoice_paid")'
  BY <1>16 DEF Transfer, Go
<1>17. ASSUME NEW w \in Workers, Book(w)
      PROVE  booked' > 0 => Stored("invoice_paid")'
  <2>1. Stored("invoice_paid")'
    BY <1>17, PublishAppends DEF Book, Stored, EventTypes
  <2> QED
    BY <2>1
<1>18. ASSUME NEW w \in Workers, EndPayment(w)
      PROVE  booked' > 0 => Stored("invoice_paid")'
  BY <1>18 DEF EndPayment, Complete
<1>19. ASSUME NEW w \in Workers, PaymentRefused(w)
      PROVE  booked' > 0 => Stored("invoice_paid")'
  BY <1>19 DEF PaymentRefused, Abandon
<1>20. ASSUME NEW w \in Workers, PaymentThrows(w)
      PROVE  booked' > 0 => Stored("invoice_paid")'
  BY <1>20 DEF PaymentThrows, Abandon
<1>21. ASSUME NEW w \in Workers, Crash(w)
      PROVE  booked' > 0 => Stored("invoice_paid")'
  BY <1>21 DEF Crash, Abandon, Forget
<1> QED
  BY <1>1, <1>2, <1>3, <1>4, <1>5, <1>6, <1>7, <1>8, <1>9, <1>10, <1>11,
     <1>12, <1>13, <1>14, <1>15, <1>16, <1>17, <1>18, <1>19, <1>20, <1>21 DEF Moves

\* The third part of FeesInv.
FeesHandled ==
    \A w \in Workers :
       at[w] = "mark_event" /\ handling[w].type = "invoice_paid" => metered = Fees

\* The event is let go only when the fees are queued.
LEMMA FeesKept ==
    ASSUME Typed, FeesHandled, Moves, metered = Fees => metered' = Fees PROVE FeesHandled'
<1> USE DEF Typed
<1> USE DEF FeesHandled, FeesOfPayment, AtTyped, HandlingTyped, MoneyTyped,
           NoEvent, EventSteps, inboxVars, queueVars, money
<1>1. ASSUME Store, UNCHANGED <<events, handling, money>>
      PROVE  FeesHandled'
  BY <1>1 DEF Store
<1>2. ASSUME Enqueue, UNCHANGED <<events, handling, money>>
      PROVE  FeesHandled'
  BY <1>2 DEF Enqueue, AddJob
<1>3. ASSUME EnqueueThrows, UNCHANGED <<events, handling, money>>
      PROVE  FeesHandled'
  BY <1>3 DEF EnqueueThrows, AddJob
<1>4. ASSUME Scan, UNCHANGED <<events, handling, money>>
      PROVE  FeesHandled'
  BY <1>4 DEF Scan
<1>5. ASSUME Requeue, UNCHANGED <<events, handling, money>>
      PROVE  FeesHandled'
  BY <1>5 DEF Requeue, AddJob
<1>6. ASSUME NEW w \in Workers, StartWebhook(w), UNCHANGED <<events, handling, money>>
      PROVE  FeesHandled'
  BY <1>6 DEF StartWebhook, Claim, Claimable, Go, NoJob
<1>7. ASSUME NEW w \in Workers, MarkProcessed(w), UNCHANGED <<events, handling, money>>
      PROVE  FeesHandled'
  BY <1>7 DEF MarkProcessed, Complete
<1>8. ASSUME NEW w \in Workers, MarkFailed(w), UNCHANGED <<events, handling, money>>
      PROVE  FeesHandled'
  BY <1>8 DEF MarkFailed, Abandon
<1>9. ASSUME NEW w \in Workers, HandleWebhook(w)
      PROVE  FeesHandled'
  BY <1>9 DEF HandleWebhook, Go
<1>10. ASSUME NEW w \in Workers, HandlerThrows(w)
      PROVE  FeesHandled'
  BY <1>10 DEF HandlerThrows, WebhookThrows, Go
<1>11. ASSUME NEW w \in Workers, MarkEvent(w), UNCHANGED <<inboxVars, money>>
      PROVE  FeesHandled'
  BY <1>11 DEF MarkEvent, Forget, Go
<1>12. ASSUME NEW w \in Workers, StartSomeEvent(w), UNCHANGED <<inboxVars, money>>
      PROVE  FeesHandled'
  BY <1>12 DEF StartSomeEvent, StartEvent, Go
<1>13. ASSUME NEW w \in Workers, HandleEvent(w)
      PROVE  FeesHandled'
  BY <1>13 DEF HandleEvent, QueuePayment, QueueFees, AddJob, Go
<1>14. ASSUME NEW w \in Workers, ListenerThrows(w)
      PROVE  FeesHandled'
  BY <1>14 DEF ListenerThrows, EventThrows, FirstFeeOnly, Forget, Go
<1>15. ASSUME NEW w \in Workers, StartPayment(w)
      PROVE  FeesHandled'
  BY <1>15 DEF StartPayment, Claim, Claimable, Go
<1>16. ASSUME NEW w \in Workers, Transfer(w)
      PROVE  FeesHandled'
  BY <1>16 DEF Transfer, Go
<1>17. ASSUME NEW w \in Workers, Book(w)
      PROVE  FeesHandled'
  BY <1>17 DEF Book, Go
<1>18. ASSUME NEW w \in Workers, EndPayment(w)
      PROVE  FeesHandled'
  BY <1>18 DEF EndPayment, Complete
<1>19. ASSUME NEW w \in Workers, PaymentRefused(w)
      PROVE  FeesHandled'
  BY <1>19 DEF PaymentRefused, Abandon
<1>20. ASSUME NEW w \in Workers, PaymentThrows(w)
      PROVE  FeesHandled'
  BY <1>20 DEF PaymentThrows, Abandon
<1>21. ASSUME NEW w \in Workers, Crash(w)
      PROVE  FeesHandled'
  BY <1>21 DEF Crash, Abandon, Forget
<1> QED
  BY <1>1, <1>2, <1>3, <1>4, <1>5, <1>6, <1>7, <1>8, <1>9, <1>10, <1>11,
     <1>12, <1>13, <1>14, <1>15, <1>16, <1>17, <1>18, <1>19, <1>20, <1>21 DEF Moves

LEMMA FeesStep ==
    ASSUME TypeOK, FeesInv, [Next]_vars PROVE FeesInv'
<1>1. Typed /\ FeesHandled
  BY DEF TypeOK, Typed, JobsTyped, AtTyped, InboxTyped, CountTyped, EventsTyped,
         HandlingTyped, MoneyTyped, FeesInv, FeesHandled
<1>2. CASE Next
  <2>1. Moves /\ EventsChange
    BY <1>2, NextMoves, MovesChangeEvents
  <2>2. EventsTyped' /\ RowsStay
    BY <1>1, <2>1, RowsStayTyped
  <2>3. Stored("invoice_paid") => Stored("invoice_paid")'
    BY <1>1, <2>2, StoredStays DEF EventTypes
  <2>4. metered = Fees => metered' = Fees
    BY <1>1, <2>1, FeesStay
  <2>5. booked' > 0 => Stored("invoice_paid")'
    BY <1>1, <2>1, <2>3, BookingKept DEF FeesInv
  <2>6. FeesHandled'
    BY <1>1, <2>1, <2>4, FeesKept
  <2>7. Exists("invoice_paid", {"processed"})' => metered = Fees
    BY <1>1, <2>1, NewlyProcessed DEF EventTypes, FeesInv
  <2> QED
    BY <2>4, <2>5, <2>6, <2>7 DEF FeesInv, FeesHandled
<1>3. CASE UNCHANGED vars
  BY <1>3 DEF vars, queueVars, money, FeesInv, Stored, Exists
<1> QED
  BY <1>2, <1>3

\* A booked payment's InvoicePaid event (process-invoice-payment.ts:129) is in
\* the outbox or a dead letter until both fees are queued for metering
\* (invoices/listeners.ts:60), whatever fails in between.
THEOREM FeesFollowAlways == Spec => []FeesFollow
<1> DEFINE Inv == TypeOK /\ JobsLeft /\ FeesInv
<1>1. Init => Inv
  <2> SUFFICES ASSUME Init PROVE FeesInv
    BY TypeInit
  <2>1. events["invoice_paid"] = << >>
    BY DEF Init, OutboxInit, EventTypes
  <2> QED
    BY <2>1 DEF Init, QueueInit, OutboxInit, FeesInv, Exists
<1>2. Inv /\ [Next]_vars => Inv'
  BY TypeStep, FeesStep
<1>3. Inv => FeesFollow
  <2> SUFFICES ASSUME Inv, booked > 0, ~Open("invoice_paid") PROVE metered = Fees
    BY DEF FeesFollow
  <2>1. Stored("invoice_paid") /\ events["invoice_paid"] \in Seq(EventRows)
    BY DEF FeesInv, TypeOK, EventTypes
  <2>2. 1 \in DOMAIN events["invoice_paid"]
    BY <2>1 DEF Stored
  <2>3. events["invoice_paid"][1] \in EventRows
    BY <2>1, <2>2
  <2>4. Exists("invoice_paid", {"processed"})
    BY <2>2, <2>3 DEF Open, Exists, EventRows, EventStates
  <2> QED
    BY <2>4 DEF FeesInv
<1> QED
  BY <1>1, <1>2, <1>3, PTL DEF Spec

-----------------------------------------------------------------------------
MoneyInv ==
    /\ booked + Cardinality(Booking) <= transfers
    /\ invoice = "fee" => transfers <= booked + Cardinality(Booking) + faults

\* A step adds one worker to Booking with its transfer, or removes one, with
\* its payout or without, or lets Booking as it is.
MoneyChange ==
    \/ Booking' = Booking /\ booked' = booked /\ transfers' \in {transfers, transfers + 1}
    \/ \E w \in Workers \ Booking :
          Booking' = Booking \cup {w} /\ booked' = booked /\ transfers' = transfers + 1
    \/ \E w \in Booking :
          /\ Booking' = Booking \ {w}
          /\ booked' \in {booked, booked + 1}
          /\ transfers' = transfers

\* Money moves one transfer and one payout at a time.
LEMMA MovesChangeMoney ==
    ASSUME Typed, Moves PROVE MoneyChange
<1> USE DEF Typed
<1> USE DEF MoneyChange, Booking, AtTyped, MoneyTyped, EventSteps,
           WebhookSteps, PaymentSteps, inboxVars, queueVars, money
<1>1. ASSUME Store, UNCHANGED <<events, handling, money>>
      PROVE  MoneyChange
  BY <1>1 DEF Store
<1>2. ASSUME Enqueue, UNCHANGED <<events, handling, money>>
      PROVE  MoneyChange
  BY <1>2 DEF Enqueue, AddJob
<1>3. ASSUME EnqueueThrows, UNCHANGED <<events, handling, money>>
      PROVE  MoneyChange
  BY <1>3 DEF EnqueueThrows, AddJob
<1>4. ASSUME Scan, UNCHANGED <<events, handling, money>>
      PROVE  MoneyChange
  BY <1>4 DEF Scan
<1>5. ASSUME Requeue, UNCHANGED <<events, handling, money>>
      PROVE  MoneyChange
  BY <1>5 DEF Requeue, AddJob
<1>6. ASSUME NEW w \in Workers, StartWebhook(w), UNCHANGED <<events, handling, money>>
      PROVE  MoneyChange
  BY <1>6 DEF StartWebhook, Claim, Claimable, Go, NoJob
<1>7. ASSUME NEW w \in Workers, MarkProcessed(w), UNCHANGED <<events, handling, money>>
      PROVE  MoneyChange
  BY <1>7 DEF MarkProcessed, Complete
<1>8. ASSUME NEW w \in Workers, MarkFailed(w), UNCHANGED <<events, handling, money>>
      PROVE  MoneyChange
  BY <1>8 DEF MarkFailed, Abandon
<1>9. ASSUME NEW w \in Workers, HandleWebhook(w)
      PROVE  MoneyChange
  BY <1>9 DEF HandleWebhook, Go
<1>10. ASSUME NEW w \in Workers, HandlerThrows(w)
      PROVE  MoneyChange
  BY <1>10 DEF HandlerThrows, WebhookThrows, Go
<1>11. ASSUME NEW w \in Workers, MarkEvent(w), UNCHANGED <<inboxVars, money>>
      PROVE  MoneyChange
  BY <1>11 DEF MarkEvent, Forget, Go
<1>12. ASSUME NEW w \in Workers, StartSomeEvent(w), UNCHANGED <<inboxVars, money>>
      PROVE  MoneyChange
  BY <1>12 DEF StartSomeEvent, StartEvent, Go
<1>13. ASSUME NEW w \in Workers, HandleEvent(w)
      PROVE  MoneyChange
  BY <1>13 DEF HandleEvent, QueuePayment, QueueFees, AddJob, Go
<1>14. ASSUME NEW w \in Workers, ListenerThrows(w)
      PROVE  MoneyChange
  BY <1>14 DEF ListenerThrows, EventThrows, FirstFeeOnly, Forget, Go
<1>15. ASSUME NEW w \in Workers, StartPayment(w)
      PROVE  MoneyChange
  BY <1>15 DEF StartPayment, Claim, Claimable, Go
<1>16. ASSUME NEW w \in Workers, Transfer(w)
      PROVE  MoneyChange
  BY <1>16 DEF Transfer, Go
<1>17. ASSUME NEW w \in Workers, Book(w)
      PROVE  MoneyChange
  BY <1>17 DEF Book, Go
<1>18. ASSUME NEW w \in Workers, EndPayment(w)
      PROVE  MoneyChange
  BY <1>18 DEF EndPayment, Complete
<1>19. ASSUME NEW w \in Workers, PaymentRefused(w)
      PROVE  MoneyChange
  BY <1>19 DEF PaymentRefused, Abandon
<1>20. ASSUME NEW w \in Workers, PaymentThrows(w)
      PROVE  MoneyChange
  BY <1>20 DEF PaymentThrows, Abandon
<1>21. ASSUME NEW w \in Workers, Crash(w)
      PROVE  MoneyChange
  BY <1>21 DEF Crash, Abandon, Forget
<1> QED
  BY <1>1, <1>2, <1>3, <1>4, <1>5, <1>6, <1>7, <1>8, <1>9, <1>10, <1>11,
     <1>12, <1>13, <1>14, <1>15, <1>16, <1>17, <1>18, <1>19, <1>20, <1>21 DEF Moves

\* What a step does to the money when nothing is lost: a transfer begins to be
\* booked, or a booking ends in the books.
MoneyKept ==
    \/ Booking' = Booking /\ booked' = booked /\ transfers' = transfers
    \/ \E w \in Workers \ Booking :
          Booking' = Booking \cup {w} /\ booked' = booked /\ transfers' = transfers + 1
    \/ \E w \in Booking :
          Booking' = Booking \ {w} /\ booked' = booked + 1 /\ transfers' = transfers

\* A fee's money is lost only by a fault.
LEMMA LossIsFault ==
    ASSUME Typed, Next, invoice = "fee" PROVE MoneyKept \/ faults' = faults + 1
<1> USE DEF Typed
<1> USE DEF MoneyKept, Booking, AtTyped, MoneyTyped, EventSteps,
           WebhookSteps, PaymentSteps, inboxVars, queueVars, money
<1>1. ASSUME Store, UNCHANGED <<events, handling, money>>
      PROVE  MoneyKept
  BY <1>1 DEF Store
<1>2. ASSUME Enqueue, UNCHANGED <<events, handling, money>>
      PROVE  MoneyKept
  BY <1>2 DEF Enqueue, AddJob
<1>3. ASSUME Requeue, UNCHANGED <<events, handling, money>>
      PROVE  MoneyKept
  BY <1>3 DEF Requeue, AddJob
<1>4. ASSUME NEW w \in Workers, StartWebhook(w), UNCHANGED <<events, handling, money>>
      PROVE  MoneyKept
  BY <1>4 DEF StartWebhook, Claim, Claimable, Go, NoJob
<1>5. ASSUME NEW w \in Workers, MarkProcessed(w), UNCHANGED <<events, handling, money>>
      PROVE  MoneyKept
  BY <1>5 DEF MarkProcessed, Complete
<1>6. ASSUME NEW w \in Workers, MarkFailed(w), UNCHANGED <<events, handling, money>>
      PROVE  MoneyKept
  BY <1>6 DEF MarkFailed, Abandon
<1>7. ASSUME NEW w \in Workers, HandleWebhook(w)
      PROVE  MoneyKept
  BY <1>7 DEF HandleWebhook, Go
<1>8. ASSUME NEW w \in Workers, MarkEvent(w), UNCHANGED <<inboxVars, money>>
      PROVE  MoneyKept
  BY <1>8 DEF MarkEvent, Forget, Go
<1>9. ASSUME NEW w \in Workers, StartSomeEvent(w), UNCHANGED <<inboxVars, money>>
      PROVE  MoneyKept
  BY <1>9 DEF StartSomeEvent, StartEvent, Go
<1>10. ASSUME NEW w \in Workers, HandleEvent(w)
      PROVE  MoneyKept
  BY <1>10 DEF HandleEvent, QueuePayment, QueueFees, AddJob, Go
<1>11. ASSUME NEW w \in Workers, StartPayment(w)
      PROVE  MoneyKept
  BY <1>11 DEF StartPayment, Claim, Claimable, Go
<1>12. ASSUME NEW w \in Workers, Transfer(w)
      PROVE  MoneyKept
  BY <1>12 DEF Transfer, Go
<1>13. ASSUME NEW w \in Workers, Book(w)
      PROVE  MoneyKept
  BY <1>13 DEF Book, Go
<1>14. ASSUME NEW w \in Workers, EndPayment(w)
      PROVE  MoneyKept
  BY <1>14 DEF EndPayment, Complete
<1>15. ASSUME NEW w \in Workers, PaymentRefused(w)
      PROVE  MoneyKept
  BY <1>15 DEF PaymentRefused, Routable, Bookable, Abandon
<1>16. Failure => faults' = faults + 1
  BY DEF Failure, Fault
<1> QED
  BY <1>1, <1>2, <1>3, <1>4, <1>5, <1>6, <1>7, <1>8, <1>9, <1>10, <1>11, <1>12, <1>13, <1>14, <1>15, <1>16
     DEF Next, Request, Work, WebhookTask, OutboxTask, PaymentTask, Booted

LEMMA InvoiceStays == Moves => invoice' = invoice
  BY DEF Moves, money, HandleWebhook, HandlerThrows, HandleEvent, ListenerThrows,
         StartPayment, Transfer, Book, EndPayment, PaymentRefused, PaymentThrows, Crash

LEMMA MoneyStep ==
    ASSUME TypeOK, MoneyInv, [Next]_vars PROVE MoneyInv'
<1>1. Typed /\ faults \in Nat
  BY FaultAssumption DEF TypeOK, Typed, JobsTyped, AtTyped, InboxTyped, CountTyped,
         EventsTyped, HandlingTyped, MoneyTyped
<1>2. IsFiniteSet(Booking)
  BY FS_Subset DEF Booking
<1>3. Cardinality(Booking) \in Nat
  BY <1>2, FS_CardinalityType
<1>4. CASE Next
  <2>1. MoneyChange /\ invoice' = invoice /\ faults' \in {faults, faults + 1}
    BY <1>1, <1>4, NextMoves, MovesChangeMoney, InvoiceStays
  <2>2. booked \in Nat /\ transfers \in Nat
    BY <1>1 DEF Typed, MoneyTyped
  <2>3. invoice = "fee" => MoneyKept \/ faults' = faults + 1
    BY <1>1, <1>4, LossIsFault
  <2>4. CASE Booking' = Booking /\ booked' = booked /\ transfers' \in {transfers, transfers + 1}
    <3>1. MoneyKept => transfers' = transfers
      BY <2>2, <2>4 DEF MoneyKept
    <3> QED
      BY <1>1, <1>3, <2>1, <2>2, <2>3, <2>4, <3>1 DEF MoneyInv
  <2>5. ASSUME NEW w \in Workers \ Booking, Booking' = Booking \cup {w},
               booked' = booked, transfers' = transfers + 1
        PROVE  MoneyInv'
    <3>1. Cardinality(Booking \cup {w}) = Cardinality(Booking) + 1
      BY <1>2, <2>5, FS_AddElement
    <3> QED
      BY <1>1, <1>3, <2>1, <2>2, <2>5, <3>1 DEF MoneyInv
  <2>6. ASSUME NEW w \in Booking, Booking' = Booking \ {w},
               booked' \in {booked, booked + 1}, transfers' = transfers
        PROVE  MoneyInv'
    <3>1. Cardinality(Booking \ {w}) = Cardinality(Booking) - 1
      BY <1>2, <2>6, FS_RemoveElement
    <3>2. MoneyKept => booked' = booked + 1
      BY <2>2, <2>6 DEF MoneyKept
    <3> QED
      BY <1>1, <1>3, <2>1, <2>2, <2>3, <2>6, <3>1, <3>2 DEF MoneyInv
  <2> QED
    BY <2>1, <2>4, <2>5, <2>6 DEF MoneyChange
<1>5. CASE UNCHANGED vars
  <2>1. Booking' = Booking
    BY <1>5 DEF vars, queueVars, Booking
  <2> QED
    BY <1>5, <2>1 DEF vars, money, MoneyInv
<1> QED
  BY <1>4, <1>5

\* However often a payment is processed, no payout is recorded without a
\* transfer of its own (process-invoice-payment.ts:72-100), and of a fee no
\* transfer is left out of the books but by a fault.
THEOREM BooksHaveMoneyAlways == Spec => []BooksHaveMoney
<1> DEFINE Inv == TypeOK /\ JobsLeft /\ MoneyInv
<1>1. Init => Inv
  <2> SUFFICES ASSUME Init PROVE MoneyInv
    BY TypeInit
  <2>1. Booking = {}
    BY DEF Init, QueueInit, Booking
  <2> QED
    BY <2>1, FS_EmptySet DEF Init, MoneyInv
<1>2. Inv /\ [Next]_vars => Inv'
  BY TypeStep, MoneyStep
<1>3. Inv => BooksHaveMoney
  <2> SUFFICES ASSUME Inv PROVE BooksHaveMoney
    OBVIOUS
  <2>1. IsFiniteSet(Booking)
    BY FS_Subset DEF Booking
  <2>2. Cardinality(Booking) \in Nat
    BY <2>1, FS_CardinalityType
  <2> QED
    BY <2>2 DEF MoneyInv, BooksHaveMoney, TypeOK
<1> QED
  BY <1>1, <1>2, <1>3, PTL DEF Spec

-----------------------------------------------------------------------------
\* No worker is at work, no job waits and no event is due: without another
\* delivery or boot nothing more happens.
Quiet ==
    /\ \A w \in Workers : at[w] = "idle"
    /\ \A k \in Keys : jobs[k].state # "waiting"
    /\ \A type \in EventTypes : \A n \in DOMAIN events[type] : ~Due(events[type][n])

\* The payment is booked or an operator finds it, and so it is with the fees.
AllSettled ==
    /\ acknowledged => booked > 0 \/ Stuck
    /\ booked > 0 => metered = Fees \/ Dead("invoice_paid")

\* An event is always due or dead when it is open: the last retry that fails
\* moves it (process-outbox-event.ts:102-121).
LEMMA OpenIsDueOrDead ==
    ASSUME TypeOK, NEW type \in EventTypes, Open(type)
    PROVE  Dead(type) \/ \E n \in DOMAIN events[type] : Due(events[type][n])
<1>1. PICK n \in DOMAIN events[type] : events[type][n].state \in {"pending", "dead"}
  BY DEF Open, Exists
<1>2. events[type] \in Seq(EventRows)
  BY DEF TypeOK
<1>3. events[type][n] \in EventRows
  BY <1>2
<1>4. events[type][n].retryCount < MaxRetries
  BY <1>3 DEF EventRows
<1> QED
  BY <1>1, <1>4 DEF Dead, Exists, Due

\* When the workers have nothing left to do, an acknowledged payment is booked,
\* a failed job or a dead letter, and the fees of a booked one are metered or
\* their event is a dead letter: no interleaving or fault leaves a row that
\* nobody takes up again and no operator sees.
THEOREM NothingLeftBehind == Spec => [](Quiet => AllSettled)
<1> DEFINE Goal == Quiet => AllSettled
<1>1. Handover /\ Custody /\ FeesFollow => Goal
  <2> SUFFICES ASSUME Handover, Custody, FeesFollow, Quiet PROVE AllSettled
    OBVIOUS
  <2>1. \A k \in Keys : HasJob(k) => jobs[k].state = "failed"
    <3>1. \A k \in Keys : jobs[k].state \in JobStates
      BY DEF Handover, TypeOK
    <3>2. \A k \in Keys : jobs[k].state \notin Workers
      BY DEF Handover, ClaimInv, Quiet, Keys, WebhookSteps, PaymentSteps
    <3> QED
      BY <3>1, <3>2 DEF JobStates, HasJob, Quiet
  <2>2. \A type \in EventTypes : Open(type) => Dead(type)
    BY OpenIsDueOrDead DEF Quiet, Handover
  <2> QED
    BY <2>1, <2>2 DEF Custody, FeesFollow, AllSettled, Stuck, Keys, EventTypes
<1> QED
  BY <1>1, HandoverHolds, CustodyAlways, FeesFollowAlways, PTL

=============================================================================
